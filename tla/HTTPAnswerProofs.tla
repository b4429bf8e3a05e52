-------------------------- MODULE HTTPAnswerProofs --------------------------
(***************************************************************************)
(* Proofs about what the web server answers: while any number of           *)
(* connections take turns, every client gets its own answer, from its      *)
(* start to its end, and there are handles for the files that this takes.  *)
(* The invariant says how far the answer is in each state of a connection, *)
(* and that the others, whose handles are not its own, leave it there.     *)
(***************************************************************************)
EXTENDS HTTP2Proofs

-----------------------------------------------------------------------------
(* What is answered.                                                        *)

\* The files that the requests are about, and as many handles as TCPIP.h asks for.
PageId == IdOf("page")
PagesOK ==
  /\ PageId \in Ids /\ PageId + 1 \in Ids
  /\ Fat[PageId].data = <<"head", "variable", "foot", "end">> /\ Fat[PageId].hasIndex
  /\ Fat[PageId + 1].data = <<"offset", "part">>
  /\ IdOf("part") \in Ids /\ Fat[IdOf("part")].data = <<"part">>
  /\ IdOf("config") \in Ids /\ IdOf("nothing") \notin Ids
HandlesSuffice == MAX_MPFS_HANDLES >= 2 * MAX_HTTP_CONNECTIONS + 1

Reads(f, h, id, pos) == h \in Handles /\ f.stubs[h] = [id |-> id, pos |-> pos]
Shown(n) == SubSeq(Page, 1, n)

\* The files that a request has opened.
FilesFound(f, r, kind) ==
  /\ kind = "page" => Reads(f, r.file, PageId, 0) /\ Reads(f, r.offsets, PageId + 1, 0)
  /\ kind \in {"nothing", "lost"} => r.file = MPFS_INVALID_HANDLE
  /\ kind = "config" => Reads(f, r.file, IdOf("config"), 0)

\* Where a page is before its variable, at it, and behind it.
BeforePage(f, r, a) ==
  /\ a.asked = "page" /\ r.httpStatus = "GET" /\ r.byteCount = 0 /\ r.nextCallback = 1
  /\ Reads(f, r.file, PageId, 0) /\ Reads(f, r.offsets, PageId + 1, 1)
AtVariable(f, r, a) ==
  /\ a.asked = "page" /\ r.callbackID = "part" /\ r.offsets = MPFS_INVALID_HANDLE
  /\ r.byteCount = 2 /\ r.nextCallback = Never /\ Reads(f, r.file, PageId, 2)
  /\ \/ r.callbackPos.pos = 0 /\ a.answer = Shown(3)
     \/ r.callbackPos = [id |-> IdOf("part"), pos |-> 1] /\ a.answer = Shown(4)
BehindVariable(f, r, a) ==
  /\ a.asked = "page" /\ r.byteCount \in 2 .. MaxCount /\ r.nextCallback = Never
  /\ \E pos \in 2 .. 4 : Reads(f, r.file, PageId, pos) /\ a.answer = Shown(pos + 2)

\* A status that is all of the answer.
Refused(r, kind) == r.httpStatus \notin {"GET", "POST"} /\ <<r.httpStatus>> \in Answers[kind]

Unanswered == Receiving \cup {"PROCESS_REQUEST", "SERVE_HEADERS"}
WithArgs == {"PARSE_HEADERS", "AUTHENTICATE", "PROCESS_POST", "PROCESS_REQUEST",
             "SERVE_HEADERS", "SERVE_COOKIES"}

\* How far the answer to the client of a connection is, in each state.
Stage(f, s, r, a) ==
  /\ s \in Unanswered => a.answer = <<>>
  /\ s \in Headers \cup {"PROCESS_REQUEST"} => FilesFound(f, r, a.asked)
  /\ a.asked = "page" /\ s \in WithArgs => r.hasArgs
  /\ a.asked = "config" /\ s = "PROCESS_REQUEST" => r.httpStatus = "REDIRECT"
  /\ s = "SERVE_HEADERS" => BeforePage(f, r, a) \/ Refused(r, a.asked)
  /\ s = "SERVE_COOKIES" => BeforePage(f, r, a) /\ a.answer = Shown(1)
  /\ s = "SERVE_BODY" => (BeforePage(f, r, a) /\ a.answer = Shown(2)) \/ BehindVariable(f, r, a)
  /\ s = "SEND_FROM_CALLBACK" => AtVariable(f, r, a)
  /\ s = "DISCONNECT" => a.answer \in Answers[a.asked]

\* A client that has gone has had all of its answer, or nothing.
Left(a) ==
  /\ a.asked \in DOMAIN Answers
  /\ IF a.over THEN a.answer \in Answers[a.asked] ELSE a.answer = <<>>

Answering(f, s, k, r, a) ==
  IF k.st # "open" THEN Left(a)
  ELSE IF k.wasReset THEN a.answer = <<>> ELSE Stage(f, s, r, a)

AnswerInv ==
  ~ spoilt => \A c \in Conns : Answering(fs, sm[c], net[c], Records[c], client[c])

-----------------------------------------------------------------------------
(* The tag of an image is there from the start on.                          *)

LEMMA TagNext ==
  ASSUME HTTPInv, TagInv, [HTTPNext]_httpVars
  PROVE  TagInv'
<1>1. CASE fs' = fs
  BY <1>1 DEF TagInv
<1>2. ASSUME NEW c \in Conns, Check(c) \/ Parse(c) \/ Serve(c) PROVE TagInv'
  <2>1. \E X : Apart(fs, fs', X)
    BY <1>2, ApartWork, ApartClose, ApartParse, ApartServe, Zenon DEF Check, Parse, Serve
  <2> QED
    BY <2>1, TagStays
<1>3. ASSUME NEW c \in Conns, Post(c), fs' # fs PROVE TagInv'
  <2>1. UploadStart(c) \/ UploadWrite(c)
    BY <1>3, ApartWork, Zenon DEF Post
  <2>2. turn = <<c, "process">>
    BY <2>1, Zenon DEF UploadStart, UploadWrite, At
  <2>3. FilesOK(fs) /\ net[c].rx \in Stream /\ RecordOK(curHTTP)
    BY <2>2, AtWork DEF SocketOK, Socket
  <2>4. CASE UploadStart(c)
    <3> DEFINE f == MPFSFormat(fs)
    <3>1. fs' = MPFSPutArray(f, <<"tag">>)
      BY <1>3, <2>4, Zenon DEF UploadStart
    <3>2. FilesOK(f) /\ f.image = <<>> /\ f.numFiles = fs.numFiles
      BY <2>3, FormatIs
    <3> HIDE DEF f
    <3>3. <<"tag">> \in Stream /\ <<>> \o <<"tag">> = <<"tag">>
      BY DEF Stream, Tokens
    <3>4. fs'.numFiles = f.numFiles /\ fs'.image = f.image \o <<"tag">>
      BY <3>1, <3>2, <3>3, PutArrayIs
    <3>5. fs'.image = <<"tag">>
      BY <3>2, <3>3, <3>4
    <3>6. <<"tag">> # <<>> /\ Head(<<"tag">>) = "tag"
      OBVIOUS
    <3> QED
      BY <3>2, <3>4, <3>5, <3>6, Zenon DEF TagInv
  <2>5. CASE UploadWrite(c)
    <3> DEFINE n == Min({Len(net[c].rx), curHTTP.byteCount})
               chunks == SubSeq(net[c].rx, 1, n)
               written == MPFSPutArray(fs, chunks)
    <3>1. fs' = written \/ fs' = MPFSPutEnd(written)
      BY <2>5, Zenon DEF UploadWrite
    <3>2. chunks \in Stream
      <4>1. Len(net[c].rx) \in Nat /\ curHTTP.byteCount \in Nat
        BY <2>3, LenProperties DEF Stream, RecordOK, Record
      <4>2. n \in 0 .. Len(net[c].rx)
        BY <4>1, LesserOfTwo
      <4> QED
        BY <2>3, <4>2, PrefixIs
    <3> HIDE DEF chunks
    <3>3. /\ FilesOK(written) /\ written.numFiles = fs.numFiles
          /\ written.image = fs.image \o chunks
      BY <2>3, <3>2, PutArrayIs
    <3> HIDE DEF written
    <3>4. fs.image \in Stream /\ fs.image # <<>> /\ Head(fs.image) = "tag" /\ fs.numFiles = Len(Fat)
      BY <2>3 DEF FilesOK, FileSystem, TagInv
    <3>5. Len(written.image) > 0 /\ Head(written.image) = "tag" /\ written.image # <<>>
      BY <3>2, <3>3, <3>4 DEF Stream
    <3>6. MPFSPutEnd(written).image = written.image /\ MPFSPutEnd(written).numFiles = Len(Fat)
      BY <3>3, <3>5, PutEndIs
    <3> QED
      BY <3>1, <3>3, <3>4, <3>5, <3>6, Zenon DEF TagInv
  <2> QED
    BY <2>1, <2>4, <2>5
<1>4. CASE HTTPServer
  <2>1. StartPass => fs' = fs
    BY DEF StartPass
  <2> QED
    BY <1>1, <1>2, <1>3, <1>4, <2>1, Zenon DEF HTTPServer
<1>5. CASE (\E c \in Conns : Clients(c)) \/ UNCHANGED httpVars
  <2>1. fs' = fs
    BY <1>5, Zenon DEF Clients, Connect, Send, SendMore, Drain, HalfClose, Gone, ServerSide,
       httpVars
  <2> QED
    BY <1>1, <2>1
<1> QED
  BY <1>4, <1>5 DEF HTTPNext

LEMMA TagInvariance ==
  HTTPSpec => []TagInv
<1>1. HTTPInit => TagInv
  <2> SUFFICES ASSUME HTTPInit PROVE TagInv
    OBVIOUS
  <2>1. fs.numFiles = Len(Fat) /\ fs.image = WholeImage
    BY DEF HTTPInit, MPFSInit
  <2>2. WholeImage # <<>> /\ Head(WholeImage) = "tag"
    <3>1. WholeImage \in Stream /\ Len(WholeImage) \in Nat \ {0} /\ WholeImage[1] = "tag"
      BY WholeIs
    <3> QED
      BY <3>1 DEF Stream
  <2> QED
    BY <2>1, <2>2 DEF TagInv
<1>2. HTTPInv /\ TagInv /\ [HTTPNext]_httpVars => TagInv'
  BY TagNext
<1> QED
  BY <1>1, <1>2, HTTPInvariant, PTL DEF HTTPSpec

-----------------------------------------------------------------------------
(* There is a handle for every file that a page needs.                      *)

\* No more handles are held than two for each connection.
LEMMA TwoForEach ==
  ASSUME NEW K \in Nat, K > 2 * MAX_HTTP_CONNECTIONS, NEW records,
         \A h \in 1 .. K : \E c \in Conns : h \in Own(records[c])
  PROVE  FALSE
<1> DEFINE N == MAX_HTTP_CONNECTIONS
           held == [x \in 0 .. 2 * N - 1 |-> IF x < N THEN records[x].file
                                             ELSE records[x - N].offsets]
           place == [h \in 1 .. K |-> CHOOSE x \in 0 .. 2 * N - 1 : held[x] = h]
<1>1. N \in Nat \ {0} /\ Conns = 0 .. N - 1
  BY HTTPAssumption DEF Conns
<1>2. ASSUME NEW h \in 1 .. K PROVE \E x \in 0 .. 2 * N - 1 : held[x] = h
  <2>1. PICK c \in Conns : h = records[c].file \/ h = records[c].offsets
    BY DEF Own
  <2>2. c \in 0 .. 2 * N - 1 /\ c < N /\ c + N \in 0 .. 2 * N - 1 /\ ~ (c + N < N)
        /\ (c + N) - N = c
    BY <1>1
  <2>3. held[c] = records[c].file
    BY <2>2, Zenon
  <2>4. held[c + N] = records[c].offsets
    BY <2>2, Zenon
  <2> QED
    BY <2>1, <2>2, <2>3, <2>4, Zenon
<1> HIDE DEF held
<1>3. \A h \in 1 .. K : place[h] \in 0 .. 2 * N - 1 /\ held[place[h]] = h
  BY <1>2
<1>4. place \in [1 .. K -> 0 .. 2 * N - 1]
  BY <1>3
<1> HIDE DEF place
<1>5. /\ IsFiniteSet(1 .. K) /\ IsFiniteSet(0 .. 2 * N - 1)
      /\ Cardinality(0 .. 2 * N - 1) < Cardinality(1 .. K)
  <2>1. 1 \in Int /\ K \in Int /\ 0 \in Int /\ 2 * N - 1 \in Int
    BY <1>1
  <2>2. IsFiniteSet(1 .. K) /\ Cardinality(1 .. K) = IF 1 > K THEN 0 ELSE K - 1 + 1
    BY <2>1, FS_Interval
  <2>3. /\ IsFiniteSet(0 .. 2 * N - 1)
        /\ Cardinality(0 .. 2 * N - 1) = IF 0 > 2 * N - 1 THEN 0 ELSE (2 * N - 1) - 0 + 1
    BY <2>1, FS_Interval
  <2> QED
    BY <1>1, <2>2, <2>3
<1>6. \E x, y \in 1 .. K : x # y /\ place[x] = place[y]
  BY <1>4, <1>5, FS_PigeonHole
<1> QED
  BY <1>3, <1>6, Zenon

\* A connection that has no index open finds a handle.
LEMMA HandleLeft ==
  ASSUME HandlesSuffice, NEW records, NEW c \in Conns, records[c].offsets = MPFS_INVALID_HANDLE,
         NEW S, \A h \in S : \E d \in Conns : h \in Own(records[d])
  PROVE  \E h \in Handles : h # MAX_MPFS_HANDLES /\ h \notin S
<1> DEFINE M == MAX_MPFS_HANDLES
           full == [d \in Conns |-> IF d = c THEN [file |-> records[c].file, offsets |-> M]
                                    ELSE records[d]]
<1>1. M \in 2 .. 254 /\ M \in Nat /\ M > 2 * MAX_HTTP_CONNECTIONS
  BY HTTPAssumption, MPFSAssumption DEF HandlesSuffice
<1> SUFFICES ASSUME \A h \in Handles : h # M => h \in S PROVE FALSE
  BY Zenon
<1>2. ASSUME NEW h \in 1 .. M PROVE \E d \in Conns : h \in Own(full[d])
  <2>1. CASE h = M
    <3>1. full[c].offsets = M
      OBVIOUS
    <3> QED
      BY <2>1, <3>1 DEF Own
  <2>2. CASE h # M
    <3>1. h \in Handles /\ h # MPFS_INVALID_HANDLE
      BY <1>1, HandlesAre DEF Handles
    <3>2. PICK d \in Conns : h = records[d].file \/ h = records[d].offsets
      BY <2>2, <3>1 DEF Own
    <3>3. CASE d = c
      <4>1. h = records[c].file /\ full[c].file = records[c].file
        BY <3>1, <3>2, <3>3
      <4> QED
        BY <4>1 DEF Own
    <3>4. CASE d # c
      <4>1. full[d] = records[d]
        BY <3>4
      <4> QED
        BY <3>2, <4>1 DEF Own
    <3> QED
      BY <3>3, <3>4
  <2> QED
    BY <2>1, <2>2
<1> HIDE DEF full
<1> QED
  BY <1>1, <1>2, TwoForEach

LEMMA FreeHandleFound ==
  ASSUME NEW f, NEW h \in Handles, h # MAX_MPFS_HANDLES, ~ IsOpen(f, h)
  PROVE  FreeHandle(f) # MPFS_INVALID_HANDLE
<1> DEFINE free == {i \in Handles : i = MAX_MPFS_HANDLES \/ ~ IsOpen(f, i)}
<1>1. free \subseteq Nat /\ free # {} /\ h \in free
  BY HandlesAre
<1>2. Min(free) \in free /\ Min(free) <= h
  BY <1>1, LeastNumber
<1>3. h \in 1 .. MAX_MPFS_HANDLES /\ MAX_MPFS_HANDLES \in 2 .. 254
  BY MPFSAssumption DEF Handles
<1> HIDE DEF free
<1>4. Min(free) # MAX_MPFS_HANDLES /\ Min(free) \in Nat
  <2>1. Min(free) \in Nat
    BY <1>1, <1>2
  <2> DEFINE m == Min(free)
  <2>2. m \in Nat /\ m <= h
    BY <1>2, <2>1
  <2> HIDE DEF m
  <2>3. m # MAX_MPFS_HANDLES
    BY <1>3, <2>2
  <2> QED
    BY <2>1, <2>3 DEF m
<1>5. Min(free) \in Handles
  BY <1>2 DEF free
<1>6. Min(free) # MPFS_INVALID_HANDLE
  BY <1>5, HandlesAre
<1>7. FreeHandle(f) = Min(free)
  BY <1>4, Zenon DEF FreeHandle, free
<1> QED
  BY <1>6, <1>7

\* Between two passes a handle is left to open, however many files the pages of
\* all connections hold open, where there are two handles for each connection
\* and two more: one to spare, and the one that is never handed out
\* (MPFSOpen(), MPFSOpenID()).
THEOREM SpareHandleIsLeft ==
  MAX_MPFS_HANDLES >= 2 * MAX_HTTP_CONNECTIONS + 2 => (HTTPSpec => []SpareHandle)
<1> DEFINE Enough == MAX_MPFS_HANDLES >= 2 * MAX_HTTP_CONNECTIONS + 2
<1>1. Enough /\ HTTPInv => SpareHandle
  <2> SUFFICES ASSUME Enough, HTTPInv, ~ spoilt
               PROVE  FreeHandle(fs) # MPFS_INVALID_HANDLE
    BY DEF SpareHandle
  <2>1. \A h \in OpenIn(fs) : \E c \in Conns : h \in Own(Records[c])
    BY DEF HTTPInv, Shared, HandlesOf, Own
  <2> DEFINE K == MAX_MPFS_HANDLES - 1
  <2>2. K \in Nat /\ K > 2 * MAX_HTTP_CONNECTIONS
    <3>1. MAX_MPFS_HANDLES \in 2 .. 254 /\ MAX_HTTP_CONNECTIONS \in Nat
      BY HTTPAssumption, MPFSAssumption
    <3>2. ASSUME NEW m \in 2 .. 254, NEW n \in Nat, m >= 2 * n + 2
          PROVE  m - 1 \in Nat /\ m - 1 > 2 * n
      BY <3>2
    <3> QED
      BY <3>1, <3>2
  <2>3. \A h \in 1 .. K : h \in Handles /\ h # MAX_MPFS_HANDLES
    BY MPFSAssumption DEF Handles
  <2> HIDE DEF K
  <2>4. PICK h \in 1 .. K : h \notin OpenIn(fs)
    BY <2>1, <2>2, TwoForEach
  <2> QED
    BY <2>3, <2>4, FreeHandleFound DEF OpenIn
<1>2. CASE Enough
  BY <1>1, <1>2, HTTPInvariant, PTL
<1> QED
  BY <1>2

\* A file of the image is opened where a handle is left.
LEMMA OpenFinds ==
  ASSUME NEW f, FilesOK(f), ~ f.locked, f.numFiles = Len(Fat), NEW id \in Ids,
         NEW i \in Handles, i # MAX_MPFS_HANDLES, ~ IsOpen(f, i),
         NEW r, r = Opened(f, id)
  PROVE  OpenDone(f, id, r) /\ Reads(r.fs, r.h, id, 0) /\ FilesOK(r.fs)
<1>1. FreeHandle(f) # MPFS_INVALID_HANDLE
  BY FreeHandleFound
<1>2. id \in Nat \ {0} /\ ~ (id > Len(Fat))
  BY HandlesAre DEF Ids
<1>3. FilesOK(r.fs) /\ (OpenFailed(f, r) \/ OpenDone(f, id, r))
  BY <1>2, OpenedIs
<1>4. r.h = FreeHandle(f)
  BY <1>1, <1>2, Zenon DEF Opened
<1> QED
  BY <1>1, <1>3, <1>4 DEF OpenFailed, OpenDone, Reads

\* A file that is none of the image is not opened.
LEMMA OpenMisses ==
  ASSUME NEW f, f.numFiles = Len(Fat), NEW r, r = Opened(f, Len(Fat) + 1)
  PROVE  r.fs = f /\ r.h = MPFS_INVALID_HANDLE
<1>1. Len(Fat) + 1 > f.numFiles
  BY HandlesAre
<1> QED
  BY <1>1, Zenon DEF Opened

-----------------------------------------------------------------------------
(* What the others do leaves a connection where it is.                      *)

LEMMA ReadsOpen ==
  ASSUME NEW f, FilesOK(f), NEW id \in Ids, NEW h, NEW pos, Reads(f, h, id, pos)
  PROVE  /\ h \in OpenIn(f) /\ IsOpen(f, h) /\ h \in Handles /\ ~ f.locked
         /\ h # MPFS_INVALID_HANDLE /\ f.stubs[h].id = id /\ f.stubs[h].pos = pos
<1>1. h \in Handles /\ f.stubs[h] = [id |-> id, pos |-> pos] /\ id # 0
  BY HandlesAre DEF Reads
<1>2. f.stubs[h].id = id /\ f.stubs[h].pos = pos
  BY <1>1
<1>3. IsOpen(f, h)
  BY <1>1, <1>2, OpenHasFile
<1> QED
  BY <1>1, <1>2, <1>3, HandlesAre DEF OpenIn, FilesOK

\* The files that are open for a record stay as they are.
Kept(f, g, r) == \A h \in HandlesOf(r) \cap OpenIn(f) : g.stubs[h] = f.stubs[h]

LEMMA ReadsKept ==
  ASSUME NEW f, FilesOK(f), NEW r, NEW g, Kept(f, g, r), NEW id \in Ids, NEW h \in Own(r),
         NEW pos, Reads(f, h, id, pos)
  PROVE  Reads(g, h, id, pos)
<1>1. h \in OpenIn(f) /\ h \in Handles
  BY ReadsOpen
<1>2. g.stubs[h] = f.stubs[h]
  BY <1>1 DEF Kept, HandlesOf, Own
<1> QED
  BY <1>2 DEF Reads

LEMMA StageKept ==
  ASSUME PagesOK, NEW f, FilesOK(f), NEW r, NEW g, Kept(f, g, r), NEW s, NEW a, Stage(f, s, r, a)
  PROVE  Stage(g, s, r, a)
<1>1. r.file \in Own(r) /\ r.offsets \in Own(r)
  BY DEF Own
<1>2. PageId \in Ids /\ PageId + 1 \in Ids /\ IdOf("config") \in Ids
  BY DEF PagesOK
<1>3. \A id \in Ids : \A h \in Own(r) : \A pos : Reads(f, h, id, pos) => Reads(g, h, id, pos)
  BY ReadsKept
<1>4. FilesFound(f, r, a.asked) => FilesFound(g, r, a.asked)
  BY <1>1, <1>2, <1>3, Zenon DEF FilesFound
<1>5. BeforePage(f, r, a) => BeforePage(g, r, a)
  BY <1>1, <1>2, <1>3, Zenon DEF BeforePage
<1>6. AtVariable(f, r, a) => AtVariable(g, r, a)
  BY <1>1, <1>2, <1>3, Zenon DEF AtVariable
<1>7. BehindVariable(f, r, a) => BehindVariable(g, r, a)
  BY <1>1, <1>2, <1>3, Zenon DEF BehindVariable
<1> QED
  BY <1>4, <1>5, <1>6, <1>7, Zenon DEF Stage

LEMMA ApartKept ==
  ASSUME HTTPInv, ~ spoilt, NEW c \in Conns, NEW X, Apart(fs, fs', X), X \subseteq Own(Records[c])
  PROVE  \A d \in Conns : d # c => Kept(fs, fs', Records[d])
<1> SUFFICES ASSUME NEW d \in Conns, d # c, NEW h \in HandlesOf(Records[d]) \cap OpenIn(fs)
             PROVE  fs'.stubs[h] = fs.stubs[h]
  BY DEF Kept
<1>1. HandlesOf(Records[c]) \cap HandlesOf(Records[d]) = {}
  BY DEF HTTPInv, Shared
<1>2. h \notin Own(Records[c])
  BY <1>1 DEF HandlesOf, Own
<1> QED
  BY <1>2 DEF Apart

\* Nothing is open that an image could be written over.
LEMMA NothingKept ==
  ASSUME HTTPInv, OpenIn(fs) = {}
  PROVE  \A d \in Conns : Kept(fs, fs', Records[d])
BY DEF Kept

LEMMA AnswerMoves ==
  ASSUME PagesOK, HTTPInv, AnswerInv, ~ spoilt, NEW c \in Conns,
         \A d \in Conns : d # c => /\ sm'[d] = sm[d] /\ net'[d] = net[d]
                                   /\ Records'[d] = Records[d] /\ client'[d] = client[d]
                                   /\ Kept(fs, fs', Records[d]),
         Answering(fs', sm'[c], net'[c], Records'[c], client'[c])
  PROVE  AnswerInv'
<1>1. FilesOK(fs)
  BY DEF HTTPInv
<1>2. ASSUME NEW d \in Conns, d # c
      PROVE  Answering(fs', sm'[d], net'[d], Records'[d], client'[d])
  <2>1. Answering(fs, sm[d], net[d], Records[d], client[d])
    BY DEF AnswerInv
  <2>2. Stage(fs, sm[d], Records[d], client[d]) => Stage(fs', sm[d], Records[d], client[d])
    BY <1>1, <1>2, StageKept
  <2>3. Answering(fs', sm[d], net[d], Records[d], client[d])
    BY <2>1, <2>2 DEF Answering
  <2> QED
    BY <1>2, <2>3
<1>3. \A d \in Conns : Answering(fs', sm'[d], net'[d], Records'[d], client'[d])
  BY <1>2
<1> QED
  BY <1>3 DEF AnswerInv

LEMMA AnswersStay ==
  ASSUME AnswerInv, spoilt' = spoilt,
         UNCHANGED <<sm, curHTTP, curHTTPID, http_memory, fs, net, client>>
  PROVE  AnswerInv'
<1>1. Records' = Records
  BY RecordsStay
<1> QED
  BY <1>1 DEF AnswerInv

-----------------------------------------------------------------------------
(* What is read of a file.                                                  *)

LEMMA NothingCut ==
  ASSUME NEW S, NEW data \in Seq(S), NEW pos \in 0 .. Len(data)
  PROVE  SubSeq(data, pos + 1, pos) = <<>>
<1>1. Len(data) \in Nat
  BY LenProperties
<1>2. \A i \in pos + 1 .. pos : data[i] \in S
  BY <1>1
<1>3. pos + 1 \in Int /\ pos \in Int /\ ~ (pos + 1 <= pos)
  BY <1>1
<1>4. SubSeq(data, pos + 1, pos) \in Seq(S) /\ Len(SubSeq(data, pos + 1, pos)) = 0
  BY <1>2, <1>3, SubSeqProperties
<1> QED
  BY <1>4, EmptySeq

LEMMA ReadIs ==
  ASSUME NEW f, FilesOK(f), NEW id \in Ids, NEW h, NEW pos, Reads(f, h, id, pos), NEW n \in Nat,
         NEW r, r = MPFSGetArray(f, h, n), NEW data, data = Fat[id].data
  PROVE  /\ FilesOK(r.fs) /\ Apart(f, r.fs, {h}) /\ pos \in 0 .. Len(data)
         /\ data \in Seq(Chunks) /\ Len(data) \in Nat
         /\ \E len \in 0 .. n :
              /\ pos + len <= Len(data) /\ (len = n \/ pos + len = Len(data))
              /\ r.data = SubSeq(data, pos + 1, pos + len) /\ Len(r.data) = len
              /\ Reads(r.fs, h, id, pos + len)
<1> DEFINE rem == Remaining(f, h)
           len == Min({n, rem})
<1>1. /\ IsOpen(f, h) /\ h \in Handles /\ f.stubs[h].id = id /\ f.stubs[h].pos = pos
      /\ f.stubs[h] \in File /\ pos <= Size(id)
  <2>1. IsOpen(f, h) /\ h \in Handles /\ f.stubs[h].id = id /\ f.stubs[h].pos = pos
    BY ReadsOpen
  <2> QED
    BY <2>1, OpenHasFile
<1>2. data \in Seq(Chunks) /\ Len(data) \in Nat /\ Size(id) = Len(data) /\ pos \in 0 .. Len(data)
  <2>1. data \in Seq(Chunks)
    BY MPFSAssumption DEF Ids
  <2>2. Len(data) \in Nat /\ Size(id) = Len(data)
    BY <2>1, LenProperties, HandlesAre DEF Size
  <2>3. pos \in Nat
    BY <1>1 DEF File
  <2> QED
    BY <1>1, <2>1, <2>2, <2>3
<1>3. FilesOK(r.fs) /\ Apart(f, r.fs, {h})
  BY GetArrayIs, ApartRead
<1>4. rem = Len(data) - pos
  BY <1>1, Zenon DEF Remaining
<1> HIDE DEF rem
<1>5. rem \in Nat
  BY <1>2, <1>4
<1>6. len \in 0 .. n /\ pos + len <= Len(data) /\ (len = n \/ pos + len = Len(data))
  <2>1. len \in Nat /\ len <= n /\ len <= rem /\ len \in {n, rem}
    BY <1>5, LesserOfTwo
  <2> HIDE DEF len
  <2> QED
    BY <1>2, <1>4, <1>5, <2>1
<1>7. CASE len = 0
  <2>1. r = [fs |-> f, data |-> <<>>]
    BY <1>7, Zenon DEF MPFSGetArray, rem
  <2>2. r.fs = f /\ r.data = <<>> /\ Len(<<>>) = 0
    BY <2>1
  <2> HIDE DEF len
  <2>3. pos + len = pos
    BY <1>2, <1>7
  <2>4. SubSeq(data, pos + 1, pos) = <<>>
    BY <1>2, NothingCut
  <2>5. /\ r.data = SubSeq(data, pos + 1, pos + len) /\ Len(r.data) = len
        /\ Reads(r.fs, h, id, pos + len)
    BY <1>7, <2>2, <2>3, <2>4, Zenon
  <2> QED
    BY <1>2, <1>3, <1>6, <2>5, Zenon
<1>8. CASE len # 0
  <2> DEFINE stub == [f.stubs[h] EXCEPT !.pos = @ + len]
             g == WithStub(f, h, stub)
             got == SubSeq(Fat[f.stubs[h].id].data, f.stubs[h].pos + 1, f.stubs[h].pos + len)
  <2>1. r = [fs |-> [f EXCEPT !.stubs[h].pos = @ + len], data |-> got]
    BY <1>8, Zenon DEF MPFSGetArray, rem
  <2>2. g = [f EXCEPT !.stubs[h].pos = @ + len]
    BY DEF WithStub
  <2>3. got = SubSeq(data, pos + 1, pos + len)
    BY <1>1, Zenon
  <2> HIDE DEF len, got
  <2>4. stub = [id |-> id, pos |-> pos + len]
    BY <1>1 DEF File
  <2> HIDE DEF stub
  <2>5. g.stubs[h] = stub
    BY <1>1, ApartStub
  <2> HIDE DEF g
  <2>6. r = [fs |-> g, data |-> got]
    BY <2>1, <2>2, Zenon
  <2>7. r.fs = g /\ r.data = got
    BY <2>6
  <2>8. Reads(r.fs, h, id, pos + len)
    BY <1>1, <2>4, <2>5, <2>7 DEF Reads
  <2>9. Len(got) = len
    <3>1. \A i \in pos + 1 .. pos + len : i \in 1 .. Len(data)
      BY <1>2, <1>6
    <3>2. \A i \in pos + 1 .. pos + len : data[i] \in Chunks
      BY <1>2, <3>1, ElementOfSeq
    <3>3. pos + 1 \in Int /\ pos + len \in Int /\ pos + 1 <= pos + len
          /\ (pos + len) - (pos + 1) + 1 = len
      BY <1>2, <1>6, <1>8
    <3> HIDE DEF len
    <3>4. Len(got) = IF pos + 1 <= pos + len THEN (pos + len) - (pos + 1) + 1 ELSE 0
      BY <2>3, <3>2, <3>3, SubSeqProperties
    <3> QED
      BY <3>3, <3>4
  <2> QED
    BY <1>2, <1>3, <1>6, <2>3, <2>7, <2>8, <2>9, Zenon
<1> QED
  BY <1>7, <1>8

-----------------------------------------------------------------------------
(* The page, word by word.                                                  *)

PageWords == {"GET", "cookie", "head", "part", "foot", "end"}

LEMMA PageIs ==
  /\ Page \in Seq(PageWords) /\ Len(Page) = 6
  /\ Page[1] = "GET" /\ Page[2] = "cookie" /\ Page[3] = "head" /\ Page[4] = "part"
  /\ Page[5] = "foot" /\ Page[6] = "end"
BY DEF Page, PageWords

LEMMA ShownIs ==
  ASSUME NEW n \in 0 .. 6
  PROVE  /\ Shown(n) \in Seq(PageWords) /\ Len(Shown(n)) = n
         /\ \A i \in 1 .. n : Shown(n)[i] = Page[i]
<1>1. \A i \in 1 .. n : i \in 1 .. 6
  OBVIOUS
<1>2. \A i \in 1 .. n : Page[i] \in PageWords
  BY <1>1, PageIs, ElementOfSeq
<1>3. /\ Shown(n) \in Seq(PageWords)
      /\ Len(Shown(n)) = IF 1 <= n THEN n - 1 + 1 ELSE 0
      /\ \A i \in 1 .. n - 1 + 1 : Shown(n)[i] = Page[1 + i - 1]
  BY <1>2, SubSeqProperties DEF Shown
<1>4. (IF 1 <= n THEN n - 1 + 1 ELSE 0) = n
  OBVIOUS
<1>5. \A i \in 1 .. n : i \in 1 .. n - 1 + 1 /\ 1 + i - 1 = i
  OBVIOUS
<1> QED
  BY <1>3, <1>4, <1>5

LEMMA ShownGrows ==
  ASSUME NEW n \in 0 .. 6, NEW s \in Seq(PageWords), NEW m, m = n + Len(s), m <= 6,
         \A i \in 1 .. Len(s) : s[i] = Page[n + i]
  PROVE  Shown(n) \o s = Shown(m)
<1> DEFINE l == Len(s)
           t == Shown(n)
           u == Shown(m)
<1>1. l \in Nat /\ m \in 0 .. 6 /\ m = n + l
  BY LenProperties
<1>2. t \in Seq(PageWords) /\ Len(t) = n /\ \A i \in 1 .. n : t[i] = Page[i]
  BY ShownIs
<1>3. u \in Seq(PageWords) /\ Len(u) = m /\ \A i \in 1 .. m : u[i] = Page[i]
  BY <1>1, ShownIs
<1> HIDE DEF t, u
<1>4. /\ t \o s \in Seq(PageWords) /\ Len(t \o s) = n + l
      /\ \A i \in 1 .. n + l : (t \o s)[i] = IF i <= n THEN t[i] ELSE s[i - n]
  BY <1>2, ConcatProperties
<1>5. ASSUME NEW i \in 1 .. m PROVE (t \o s)[i] = u[i]
  <2>1. CASE i <= n
    <3>1. i \in 1 .. n /\ i \in 1 .. n + l
      BY <1>1, <2>1
    <3> QED
      BY <1>2, <1>3, <1>4, <2>1, <3>1, Zenon
  <2>2. CASE ~ (i <= n)
    <3>1. i \in 1 .. n + l /\ i - n \in 1 .. l /\ n + (i - n) = i
      BY <1>1, <2>2
    <3>2. s[i - n] = Page[i]
      BY <3>1
    <3> QED
      BY <1>3, <1>4, <2>2, <3>1, <3>2, Zenon
  <2> QED
    BY <2>1, <2>2
<1> HIDE DEF l
<1>6. t \o s = u
  BY <1>1, <1>3, <1>4, <1>5, SeqEqual
<1> QED
  BY <1>6 DEF t, u

\* One word more.
LEMMA ShownNext ==
  /\ Shown(0) = <<>> /\ Shown(6) = Page
  /\ \A n \in 0 .. 5 : Shown(n) \o <<Page[n + 1]>> = Shown(n + 1)
  /\ \A n \in 0 .. 6 : Shown(n) \o <<>> = Shown(n)
<1>1. Shown(0) = <<>>
  <2>1. Shown(0) \in Seq(PageWords) /\ Len(Shown(0)) = 0
    BY ShownIs
  <2> QED
    BY <2>1, EmptySeq
<1>2. Shown(6) = Page
  <2>1. /\ Shown(6) \in Seq(PageWords) /\ Len(Shown(6)) = 6
        /\ \A i \in 1 .. 6 : Shown(6)[i] = Page[i]
    BY ShownIs
  <2> QED
    BY <2>1, PageIs, SeqEqual
<1>3. ASSUME NEW n \in 0 .. 5 PROVE Shown(n) \o <<Page[n + 1]>> = Shown(n + 1)
  <2> DEFINE w == Page[n + 1]
             s == <<w>>
  <2>1. n + 1 \in 1 .. 6
    OBVIOUS
  <2>2. w \in PageWords
    BY <2>1, PageIs, ElementOfSeq
  <2> HIDE DEF w
  <2>3. s \in Seq(PageWords) /\ Len(s) = 1 /\ s[1] = w
    BY <2>2
  <2> HIDE DEF s
  <2>4. \A i \in 1 .. Len(s) : s[i] = Page[n + i]
    BY <2>3 DEF w
  <2>5. n \in 0 .. 6 /\ n + 1 = n + Len(s) /\ n + 1 <= 6
    BY <2>3
  <2>6. Shown(n) \o s = Shown(n + 1)
    BY <2>3, <2>4, <2>5, ShownGrows
  <2> QED
    BY <2>6 DEF s, w
<1>4. ASSUME NEW n \in 0 .. 6 PROVE Shown(n) \o <<>> = Shown(n)
  <2>1. Shown(n) \in Seq(PageWords)
    BY ShownIs
  <2> QED
    BY <2>1
<1> QED
  BY <1>1, <1>2, <1>3, <1>4

LEMMA ShownStarts ==
  ASSUME NEW n \in 0 .. 6
  PROVE  IsPrefix(Shown(n), Page)
<1>1. Shown(n) \in Seq(PageWords) /\ Len(Shown(n)) = n /\ Len(Page) = 6
  BY ShownIs, PageIs
<1>2. SubSeq(Shown(n), 1, n) = Shown(n)
  BY <1>1
<1>3. SubSeq(Shown(n), 1, Len(Shown(n))) = SubSeq(Page, 1, Len(Shown(n)))
  BY <1>1, <1>2 DEF Shown
<1>4. Len(Shown(n)) <= Len(Page)
  BY <1>1
<1> QED
  BY <1>3, <1>4 DEF IsPrefix

LEMMA CutOne ==
  ASSUME NEW S, NEW data \in Seq(S), NEW i \in 1 .. Len(data)
  PROVE  SubSeq(data, i, i) = <<data[i]>>
<1>1. Len(data) \in Nat /\ data[i] \in S
  BY LenProperties, ElementOfSeq
<1>2. \A j \in i .. i : data[j] \in S
  BY <1>1
<1>3. i \in Int /\ i <= i /\ i - i + 1 = 1 /\ i + 1 - 1 = i
  BY <1>1
<1>4. /\ SubSeq(data, i, i) \in Seq(S)
      /\ Len(SubSeq(data, i, i)) = IF i <= i THEN i - i + 1 ELSE 0
      /\ \A j \in 1 .. i - i + 1 : SubSeq(data, i, i)[j] = data[i + j - 1]
  BY <1>2, <1>3, SubSeqProperties
<1> DEFINE s == SubSeq(data, i, i)
           t == <<data[i]>>
<1>5. s \in Seq(S) /\ Len(s) = 1 /\ s[1] = data[i]
  BY <1>3, <1>4
<1>6. t \in Seq(S) /\ Len(t) = 1 /\ t[1] = data[i]
  BY <1>1
<1> HIDE DEF s, t
<1>7. s = t
  BY <1>5, <1>6, SeqEqual
<1> QED
  BY <1>7 DEF s, t

\* What is read of the files of a page.
LEMMA PageRead ==
  ASSUME PagesOK, NEW data, data = Fat[PageId].data
  PROVE  /\ Len(data) = 4 /\ SubSeq(data, 1, 1) = <<"head">>
         /\ \A pos \in 2 .. 4, len \in 0 .. 4 :
              pos + len <= 4 => Shown(pos + 2) \o SubSeq(data, pos + 1, pos + len) = Shown(pos + len + 2)
<1> DEFINE S == {"head", "variable", "foot", "end"}
<1>1. /\ data \in Seq(S) /\ Len(data) = 4
      /\ data[1] = "head" /\ data[3] = "foot" /\ data[4] = "end"
  BY DEF PagesOK
<1>2. SubSeq(data, 1, 1) = <<"head">>
  BY <1>1, CutOne
<1>3. ASSUME NEW pos \in 2 .. 4, NEW len \in 0 .. 4, pos + len <= 4
      PROVE  Shown(pos + 2) \o SubSeq(data, pos + 1, pos + len) = Shown(pos + len + 2)
  <2> DEFINE s == SubSeq(data, pos + 1, pos + len)
  <2>1. \A i \in pos + 1 .. pos + len : data[i] = Page[i + 2] /\ data[i] \in PageWords
    <3>1. \A i \in pos + 1 .. pos + len : i \in {3, 4}
      BY <1>3
    <3>2. \A i \in {3, 4} : data[i] = Page[i + 2] /\ data[i] \in PageWords
      BY <1>1, PageIs DEF PageWords
    <3> QED
      BY <3>1, <3>2
  <2>2. pos + 1 \in Int /\ pos + len \in Int
        /\ (IF pos + 1 <= pos + len THEN (pos + len) - (pos + 1) + 1 ELSE 0) = len
        /\ (pos + len) - (pos + 1) + 1 = len
    OBVIOUS
  <2>3. /\ s \in Seq(PageWords)
        /\ Len(s) = IF pos + 1 <= pos + len THEN (pos + len) - (pos + 1) + 1 ELSE 0
        /\ \A i \in 1 .. (pos + len) - (pos + 1) + 1 : s[i] = data[(pos + 1) + i - 1]
    BY <2>1, <2>2, SubSeqProperties
  <2> HIDE DEF s
  <2>4. Len(s) = len /\ \A i \in 1 .. len : s[i] = data[(pos + 1) + i - 1]
    BY <2>2, <2>3
  <2>5. \A i \in 1 .. len : /\ (pos + 1) + i - 1 \in pos + 1 .. pos + len
                            /\ ((pos + 1) + i - 1) + 2 = (pos + 2) + i
    OBVIOUS
  <2>6. \A i \in 1 .. Len(s) : s[i] = Page[(pos + 2) + i]
    BY <2>1, <2>4, <2>5
  <2>7. pos + 2 \in 0 .. 6 /\ pos + len + 2 = (pos + 2) + Len(s) /\ pos + len + 2 <= 6
    BY <1>3, <2>4
  <2>8. Shown(pos + 2) \o s = Shown(pos + len + 2)
    BY <2>3, <2>6, <2>7, ShownGrows
  <2> QED
    BY <2>8 DEF s
<1> QED
  BY <1>1, <1>2, <1>3

LEMMA PartsRead ==
  ASSUME PagesOK, NEW index, index = Fat[PageId + 1].data, NEW part, part = Fat[IdOf("part")].data
  PROVE  /\ Len(index) = 2 /\ SubSeq(index, 1, 1) = <<"offset">> /\ SubSeq(index, 2, 2) = <<"part">>
         /\ Len(part) = 1 /\ SubSeq(part, 1, 1) = <<"part">>
<1>1. /\ index \in Seq({"offset", "part"}) /\ Len(index) = 2
      /\ index[1] = "offset" /\ index[2] = "part"
      /\ part \in Seq({"offset", "part"}) /\ Len(part) = 1 /\ part[1] = "part"
  BY DEF PagesOK
<1>2. 1 \in 1 .. Len(index) /\ 2 \in 1 .. Len(index) /\ 1 \in 1 .. Len(part)
  BY <1>1
<1> QED
  BY <1>1, <1>2, CutOne

-----------------------------------------------------------------------------
(* What a step of the server does to the answers.                           *)

\* A step that does not spoil the history.
Unspoilt ==
  /\ ~ spoilt /\ (fs'.locked => OpenIn(fs) = {})
  /\ fs.locked => \A c \in Conns : sm[c] = "PARSE_REQUEST" => sm'[c] = sm[c]

LEMMA SpoiltNot ==
  ASSUME HTTPServer, ~ spoilt'
  PROVE  Unspoilt
<1>1. /\ ~ spoilt /\ ~ (fs'.locked /\ \E h \in Handles : IsOpen(fs, h))
      /\ ~ (fs.locked /\ \E c \in Conns : sm[c] = "PARSE_REQUEST" /\ sm'[c] # sm[c])
  BY Zenon DEF HTTPServer
<1>2. fs'.locked => OpenIn(fs) = {}
  BY <1>1 DEF OpenIn
<1> QED
  BY <1>1, <1>2, Zenon DEF Unspoilt

LEMMA AnswerAtWork ==
  ASSUME HTTPInv, RequestInv, AnswerInv, ~ spoilt, NEW c \in Conns, turn = <<c, "process">>
  PROVE  /\ client[c] \in Client
         /\ net[c].st # "open" => Left(client[c]) /\ Deaf(sm[c], net[c])
         /\ net[c].st = "open" =>
              /\ ~ net[c].wasReset /\ Stage(fs, sm[c], curHTTP, client[c])
              /\ ~ client[c].over /\ client[c].asked \in DOMAIN Request
              /\ Followed(sm[c], net[c], curHTTP, client[c].asked)
<1>1. curHTTP = Records[c] /\ (net[c].st = "open" => ~ net[c].wasReset)
  BY AtWork DEF RequestInv
<1>2. Answering(fs, sm[c], net[c], Records[c], client[c])
  BY DEF AnswerInv
<1> QED
  BY <1>1, <1>2, HearsAtWork, Zenon DEF Answering

LEMMA WorkAnswers ==
  ASSUME PagesOK, HTTPInv, RequestInv, AnswerInv, ~ spoilt, NEW c \in Conns,
         turn = <<c, "process">>, UNCHANGED Loaded,
         NEW s, Goto(c, s) \/ (s = sm[c] /\ UNCHANGED sm),
         NEW k, net' = [net EXCEPT ![c] = k], NEW a, client' = [client EXCEPT ![c] = a],
         \A d \in Conns : d # c => Kept(fs, fs', Records[d]),
         Answering(fs', s, k, curHTTP', a)
  PROVE  AnswerInv'
<1>1. /\ sm'[c] = s /\ Records'[c] = curHTTP'
      /\ \A d \in Conns : d # c => sm'[d] = sm[d] /\ Records'[d] = Records[d]
  BY WorkMoves
<1>2. net'[c] = k /\ \A d \in Conns : d # c => net'[d] = net[d]
  BY DEF HTTPInv, Sockets
<1>3. client'[c] = a /\ \A d \in Conns : d # c => client'[d] = client[d]
  BY DEF RequestInv
<1> QED
  BY <1>1, <1>2, <1>3, AnswerMoves

\* A step that answers nothing.
LEMMA SilentWork ==
  ASSUME PagesOK, HTTPInv, RequestInv, AnswerInv, ~ spoilt, NEW c \in Conns,
         turn = <<c, "process">>, UNCHANGED Loaded, client' = client,
         NEW s, Goto(c, s) \/ (s = sm[c] /\ UNCHANGED sm),
         NEW k, net' = [net EXCEPT ![c] = k], k.st = net[c].st, k.wasReset = net[c].wasReset,
         \A d \in Conns : d # c => Kept(fs, fs', Records[d]),
         net[c].st = "open" => Stage(fs', s, curHTTP', client[c])
  PROVE  AnswerInv'
<1>1. client' = [client EXCEPT ![c] = client[c]]
  BY StaysWhere
<1>2. Answering(fs', s, k, curHTTP', client[c])
  BY AnswerAtWork DEF Answering
<1> QED
  BY <1>1, <1>2, WorkAnswers

\* A step that answers some chunks.
LEMMA TellingWork ==
  ASSUME PagesOK, HTTPInv, RequestInv, AnswerInv, ~ spoilt, NEW c \in Conns,
         turn = <<c, "process">>, UNCHANGED Loaded, NEW chunks \in Seq(Words), Answer(c, chunks),
         NEW s, Goto(c, s) \/ (s = sm[c] /\ UNCHANGED sm),
         NEW k, net' = [net EXCEPT ![c] = k], k.st = net[c].st, k.wasReset = net[c].wasReset,
         \A d \in Conns : d # c => Kept(fs, fs', Records[d]),
         ASSUME NEW a, net[c].st = "open", a.asked = client[c].asked,
                a.answer = client[c].answer \o chunks
         PROVE  Stage(fs', s, curHTTP', a)
  PROVE  AnswerInv'
<1>1. PICK a \in Client : /\ client' = [client EXCEPT ![c] = a]
                          /\ a.asked = client[c].asked /\ a.over = client[c].over
                          /\ a.answer = IF net[c].st = "open"
                                        THEN client[c].answer \o chunks ELSE client[c].answer
  BY AnswerIs
<1>2. Answering(fs', s, k, curHTTP', a)
  <2>1. CASE net[c].st = "open"
    <3>1. Stage(fs', s, curHTTP', a)
      BY <1>1, <2>1
    <3> QED
      BY <2>1, <3>1, AnswerAtWork DEF Answering
  <2>2. CASE net[c].st # "open"
    <3>1. Left(client[c])
      BY <2>2, AnswerAtWork
    <3>2. Left(a)
      BY <1>1, <2>2, <3>1, Zenon DEF Left
    <3> QED
      BY <2>2, <3>2, Zenon DEF Answering
  <2> QED
    BY <2>1, <2>2
<1> QED
  BY <1>1, <1>2, WorkAnswers

\* A connection that is given up before it has answered.
LEMMA GivenUp ==
  ASSUME PagesOK, HTTPInv, RequestInv, AnswerInv, ~ spoilt, NEW c \in Conns,
         turn = <<c, "process">>, sm[c] \in Unanswered, UNCHANGED <<Loaded, fs, client>>,
         NEW s, Goto(c, s), net' = [net EXCEPT ![c] = TCPDisconnect(@)]
  PROVE  AnswerInv'
<1> DEFINE k == TCPDisconnect(net[c])
<1>1. client' = [client EXCEPT ![c] = client[c]] /\ net' = [net EXCEPT ![c] = k]
  BY StaysWhere
<1>2. k.st # "open"
  BY DEF TCPDisconnect, Reset, ClosedSocket
<1> HIDE DEF k
<1>3. Left(client[c])
  <2>1. client[c].asked \in DOMAIN Answers
    BY AnswerAtWork, Zenon DEF Client
  <2>2. CASE net[c].st = "open"
    BY <2>1, <2>2, AnswerAtWork DEF Stage, Left
  <2> QED
    BY <2>2, AnswerAtWork
<1>4. Answering(fs', s, k, curHTTP', client[c])
  BY <1>2, <1>3 DEF Answering
<1>5. \A d \in Conns : d # c => Kept(fs, fs', Records[d])
  BY DEF Kept
<1> QED
  BY <1>1, <1>4, <1>5, WorkAnswers

LEMMA FilesStill ==
  ASSUME fs' = fs
  PROVE  \A c \in Conns : Kept(fs, fs', Records[c])
BY DEF Kept

\* Where nothing was opened yet.
LEMMA StageYoung ==
  ASSUME NEW f, NEW s \in Young, NEW r, NEW a, a.answer = <<>>
  PROVE  Stage(f, s, r, a)
BY DEF Stage, Young, Unanswered, Headers, WithArgs, BeforePage, AtVariable, BehindVariable

\* Where the files that were opened are still the same.
LEMMA StageHeaders ==
  ASSUME NEW f, NEW s \in Headers, NEW r, NEW a, Stage(f, s, r, a),
         NEW s2 \in Headers \cup {"PROCESS_REQUEST"}, NEW r2,
         r2.file = r.file, r2.offsets = r.offsets,
         a.asked = "page" /\ s2 \in WithArgs => r2.hasArgs,
         a.asked = "config" /\ s2 = "PROCESS_REQUEST" => r2.httpStatus = "REDIRECT"
  PROVE  Stage(f, s2, r2, a)
<1>1. a.answer = <<>> /\ FilesFound(f, r, a.asked)
  BY DEF Stage, Unanswered, Receiving, Headers
<1>2. FilesFound(f, r2, a.asked)
  BY <1>1, Zenon DEF FilesFound
<1>3. s2 \notin {"SERVE_HEADERS", "SERVE_COOKIES", "SERVE_BODY", "SEND_FROM_CALLBACK", "DISCONNECT"}
  BY DEF Headers
<1> QED
  BY <1>1, <1>2, <1>3, Zenon DEF Stage

\* Where an image is received.
LEMMA StageUpload ==
  ASSUME NEW f, NEW s \in Headers, NEW r, NEW a, a.answer = <<>>,
         a.asked \notin {"page", "nothing", "lost", "config"}
  PROVE  Stage(f, s, r, a)
<1>1. FilesFound(f, r, a.asked)
  BY DEF FilesFound
<1>2. s \notin {"SERVE_HEADERS", "SERVE_COOKIES", "SERVE_BODY", "SEND_FROM_CALLBACK", "DISCONNECT"}
  BY DEF Headers
<1> QED
  BY <1>1, <1>2, Zenon DEF Stage

\* Where the answer is no more than a status.
LEMMA StageRefused ==
  ASSUME NEW f, NEW r, NEW a, a.answer = <<>>, a.asked # "page", Refused(r, a.asked)
  PROVE  Stage(f, "SERVE_HEADERS", r, a)
BY DEF Stage, Headers

LEMMA StageSays ==
  ASSUME NEW f, NEW s, NEW r, NEW a, Stage(f, s, r, a)
  PROVE  /\ s \in Receiving \cup Headers => a.answer = <<>>
         /\ s \in Headers \cup {"PROCESS_REQUEST"} =>
              FilesFound(f, r, a.asked) /\ a.answer = <<>>
BY DEF Stage, Unanswered, Receiving, Headers

-----------------------------------------------------------------------------
(* What each step of the server does to the answers.                        *)

LEMMA ForgetResetAnswers ==
  ASSUME PagesOK, HTTPInv, RequestInv, AnswerInv, ~ spoilt, NEW c \in Conns, ForgetReset(c)
  PROVE  AnswerInv'
<1>1. /\ HTTPLoadConn(c) /\ sm' = [sm EXCEPT ![c] = "IDLE"] /\ curHTTP' = ClosedFiles
      /\ net' = [net EXCEPT ![c].wasReset = FALSE] /\ client' = client /\ net[c].wasReset
  BY Zenon DEF ForgetReset
<1>2. /\ DOMAIN Records = Conns /\ Records' = [Records EXCEPT ![c] = ClosedFiles]
  BY <1>1, LoadIs, Zenon
<1>3. /\ sm'[c] = "IDLE" /\ net'[c].st = net[c].st /\ ~ net'[c].wasReset
      /\ \A d \in Conns : d # c => sm'[d] = sm[d] /\ net'[d] = net[d]
  BY <1>1 DEF HTTPInv, Control, Sockets, Socket
<1>4. \A d \in Conns : d # c => Kept(fs, fs', Records[d])
  BY ApartClose, ApartKept
<1>5. Answering(fs, sm[c], net[c], Records[c], client[c])
  BY DEF AnswerInv
<1>6. Answering(fs', sm'[c], net'[c], Records'[c], client'[c])
  <2>1. CASE net[c].st = "open"
    <3>1. client[c].answer = <<>>
      BY <1>1, <1>5, <2>1 DEF Answering
    <3>2. Stage(fs', "IDLE", Records'[c], client[c])
      BY <3>1, StageYoung DEF Young
    <3> QED
      BY <1>1, <1>3, <2>1, <3>2 DEF Answering
  <2>2. CASE net[c].st # "open"
    BY <1>1, <1>3, <1>5, <2>2 DEF Answering
  <2> QED
    BY <2>1, <2>2
<1>7. \A d \in Conns : d # c => Records'[d] = Records[d] /\ client'[d] = client[d]
  BY <1>1, <1>2
<1> QED
  BY <1>3, <1>4, <1>6, <1>7, AnswerMoves

LEMMA PassAnswers ==
  ASSUME PagesOK, HTTPInv, RequestInv, AnswerInv, ~ spoilt,
         StartPass \/ \E c \in Conns : Eligible(c) \/ Skip(c)
  PROVE  AnswerInv'
<1>1. CASE StartPass \/ \E c \in Conns : Skip(c)
  <2>1. UNCHANGED <<sm, curHTTP, curHTTPID, http_memory, fs, net, client>>
    BY <1>1, Zenon DEF StartPass, Skip
  <2>2. Records' = Records
    BY <2>1, RecordsStay
  <2> QED
    BY <2>1, <2>2 DEF AnswerInv
<1>2. ASSUME NEW c \in Conns, Eligible(c) PROVE AnswerInv'
  <2>1. /\ HTTPLoadConn(c) /\ curHTTP' = Conn(c)
        /\ UNCHANGED <<sm, fs, net, client>>
    BY <1>2, Zenon DEF Eligible
  <2>2. DOMAIN Records = Conns /\ Records' = [Records EXCEPT ![c] = Conn(c)]
    BY <2>1, LoadIs, Zenon
  <2>3. Records[c] = Conn(c)
    BY DEF Records
  <2>4. Records' = Records
    BY <2>2, <2>3 DEF Records
  <2> QED
    BY <2>1, <2>4 DEF AnswerInv
<1> QED
  BY <1>1, <1>2

LEMMA IdleAnswers ==
  ASSUME PagesOK, HTTPInv, RequestInv, AnswerInv, ~ spoilt, NEW c \in Conns, Idle(c)
  PROVE  AnswerInv'
<1>1. /\ turn = <<c, "process">> /\ sm[c] = "IDLE" /\ UNCHANGED Loaded /\ client' = client
      /\ Goto(c, "PARSE_REQUEST") /\ fs' = fs /\ net' = net
  BY Zenon DEF Idle, At
<1>2. net' = [net EXCEPT ![c] = net[c]]
  BY <1>1, StaysWhere
<1>3. net[c].st = "open" => Stage(fs', "PARSE_REQUEST", curHTTP', client[c])
  <2> SUFFICES ASSUME net[c].st = "open"
               PROVE  Stage(fs', "PARSE_REQUEST", curHTTP', client[c])
    OBVIOUS
  <2>1. client[c].answer = <<>>
    BY <1>1, AnswerAtWork, StageSays DEF Receiving
  <2> QED
    BY <2>1, StageYoung DEF Young
<1> QED
  BY <1>1, <1>2, <1>3, FilesStill, SilentWork

\* Nobody waits for room but for a line that never ends.
LEMMA FullIsEndless ==
  ASSUME HTTPInv, RequestInv, NEW c \in Conns, turn = <<c, "process">>, net[c].st = "open",
         sm[c] \in {"PARSE_REQUEST", "PARSE_HEADERS"}, LineEnds(c) = {}, RxFree(c) = 0
  PROVE  client[c].asked = "endless"
<1> DEFINE k == net[c]
           kind == client[c].asked
           S == Request[kind]
<1>1. /\ k.rx \in Stream /\ k.ask \in Stream /\ kind \in DOMAIN Request
      /\ Followed(sm[c], k, curHTTP, kind)
  BY HearsAtWork, AtWork DEF SocketOK, Socket
<1>2. Len(k.rx) \in Nat /\ Len(k.rx) > 1
  <2>1. Len(k.rx) \in Nat
    BY <1>1, LenProperties DEF Stream
  <2>2. RxSize - Len(k.rx) = 0 /\ RxSize \in Nat /\ RxSize > 1
    BY HTTPAssumption DEF RxFree, Ready
  <2> QED
    BY <2>1, <2>2
<1>3. \A i \in 1 .. Len(k.rx) : k.rx[i] = "half"
  BY DEF LineEnds, Ready
<1> SUFFICES ASSUME kind # "endless" PROVE FALSE
  OBVIOUS
<1>4. ASSUME NEW p, Heard(k, kind, p) PROVE k.rx[1] = S[p + 1]
  <2>1. \A i \in 1 .. Len(k.rx) : k.rx[i] = S[p + i]
    BY <1>1, <1>4, HeardHas
  <2>2. 1 \in 1 .. Len(k.rx)
    BY <1>2
  <2> QED
    BY <2>1, <2>2
<1>5. CASE sm[c] = "PARSE_REQUEST"
  <2>1. Heard(k, kind, 0)
    <3>1. Ahead(k) = S
      BY <1>1, <1>5 DEF Followed, Young
    <3> QED
      BY <1>1, <3>1, RestOfAll DEF Heard
  <2>2. \A i \in 1 .. Len(k.rx) : k.rx[i] = S[0 + i]
    BY <1>1, <2>1, HeardHas
  <2>3. LineAt(kind) \in 1 .. 2 /\ S[LineAt(kind)] # "half"
    BY <1>1, LineSays DEF LineAt
  <2>4. LineAt(kind) \in 1 .. Len(k.rx) /\ 0 + LineAt(kind) = LineAt(kind)
    BY <1>2, <2>3
  <2> QED
    BY <1>3, <2>2, <2>3, <2>4
<1>6. CASE sm[c] = "PARSE_HEADERS"
  <2>1. PICK p \in {LineAt(kind), BodyAt(kind) - 1} : Heard(k, kind, p)
    BY <1>1, <1>6, Zenon DEF Followed, AtHeaders, Counted
  <2>2. kind \in DOMAIN Method
    BY <1>1, <1>6, Zenon DEF Followed, AtHeaders, Understood
  <2>3. k.rx[1] = S[p + 1]
    BY <2>1, <1>4
  <2>4. S[p + 1] # "half"
    <3>1. /\ LineAt(kind) \in 1 .. 2 /\ BodyAt(kind) \in LineAt(kind) + 1 .. Len(S)
          /\ \A i \in LineAt(kind) + 1 .. BodyAt(kind) - 1 : S[i] = "length"
          /\ S[BodyAt(kind)] = "blank" /\ Len(S) \in Nat
      BY <2>2, RequestIs, LenProperties DEF Stream
    <3>2. p + 1 = BodyAt(kind) \/ p + 1 \in LineAt(kind) + 1 .. BodyAt(kind) - 1
      BY <2>1, <3>1
    <3> QED
      BY <3>1, <3>2
  <2>5. 1 \in 1 .. Len(k.rx)
    BY <1>2
  <2> QED
    BY <1>3, <2>3, <2>4, <2>5
<1> QED
  BY <1>5, <1>6

LEMMA WaitForLineAnswers ==
  ASSUME PagesOK, HTTPInv, RequestInv, AnswerInv, ~ spoilt, NEW c \in Conns, WaitForLine(c)
  PROVE  AnswerInv'
<1>1. /\ turn = <<c, "process">> /\ sm[c] \in {"PARSE_REQUEST", "PARSE_HEADERS"}
      /\ UNCHANGED Loaded /\ fs' = fs /\ client' = client /\ LineEnds(c) = {}
  BY Zenon DEF WaitForLine, At
<1>2. net = [net EXCEPT ![c] = net[c]]
  BY StaysWhere
<1>3. CASE UNCHANGED <<sm, curHTTP, net>>
  BY <1>1, <1>2, <1>3, FilesStill, SilentWork, AnswerAtWork
<1>4. CASE /\ RxFree(c) = 0 /\ curHTTP' = [curHTTP EXCEPT !.httpStatus = "OVERFLOW"]
           /\ Goto(c, "SERVE_HEADERS") /\ UNCHANGED net
  <2>1. ASSUME net[c].st = "open" PROVE Stage(fs', "SERVE_HEADERS", curHTTP', client[c])
    <3>1. client[c].asked = "endless"
      BY <1>1, <1>4, <2>1, FullIsEndless
    <3>2. client[c].answer = <<>>
      BY <1>1, <2>1, AnswerAtWork, StageSays DEF Receiving
    <3>3. curHTTP'.httpStatus = "OVERFLOW"
      BY <1>1, <1>4, AtWork, Zenon DEF RecordOK, Record
    <3>4. Refused(curHTTP', client[c].asked)
      BY <3>1, <3>3 DEF Refused, Answers
    <3> QED
      BY <3>1, <3>2, <3>4, StageRefused
  <2> QED
    BY <1>1, <1>2, <1>4, <2>1, FilesStill, SilentWork
<1>5. CASE net' = [net EXCEPT ![c] = TCPDisconnect(@)] /\ Goto(c, "DISCONNECT")
  <2>1. sm[c] \in Unanswered
    BY <1>1 DEF Unanswered, Receiving
  <2> QED
    BY <1>1, <1>5, <2>1, GivenUp
<1> QED
  BY <1>3, <1>4, <1>5, Zenon DEF WaitForLine

LEMMA DisconnectAnswers ==
  ASSUME PagesOK, HTTPInv, RequestInv, AnswerInv, ~ spoilt, NEW c \in Conns, Disconnect(c)
  PROVE  AnswerInv'
<1> DEFINE k == TCPDisconnect(net[c])
           a == IF net[c].st = "open" THEN [client[c] EXCEPT !.over = TRUE] ELSE NoClient
<1>1. /\ turn = <<c, "process">> /\ sm[c] = "DISCONNECT" /\ UNCHANGED Loaded
      /\ Goto(c, "IDLE") /\ net' = [net EXCEPT ![c] = k] /\ client' = [client EXCEPT ![c] = a]
  BY DEF Disconnect, At
<1>2. k.st # "open"
  BY DEF TCPDisconnect, Reset, ClosedSocket
<1>3. Left(a)
  <2>1. CASE net[c].st = "open"
    <3>1. client[c] \in Client /\ client[c].answer \in Answers[client[c].asked]
      BY <1>1, <2>1, AnswerAtWork DEF Stage
    <3>2. /\ a.asked = client[c].asked /\ a.answer = client[c].answer /\ a.over
          /\ client[c].asked \in DOMAIN Answers
      BY <2>1, <3>1 DEF Client
    <3> QED
      BY <3>1, <3>2, Zenon DEF Left
  <2>2. CASE net[c].st # "open"
    <3>1. a = NoClient
      BY <2>2
    <3>2. NoClient.asked \in DOMAIN Answers
      BY NoClientIs, Zenon DEF Client
    <3> QED
      BY <3>1, <3>2, NoClientIs, Zenon DEF Left
  <2> QED
    BY <2>1, <2>2
<1>4. \A d \in Conns : d # c => Kept(fs, fs', Records[d])
  BY ApartClose, ApartKept
<1> HIDE DEF k, a
<1>5. Answering(fs', "IDLE", k, curHTTP', a)
  BY <1>2, <1>3, Zenon DEF Answering
<1> QED
  BY <1>1, <1>4, <1>5, WorkAnswers

-----------------------------------------------------------------------------
(* What the clients do to the answers.                                      *)

LEMMA ClientAnswers ==
  ASSUME PagesOK, HTTPInv, RequestInv, AnswerInv, ~ spoilt, NEW c \in Conns, UNCHANGED ServerSide,
         NEW k, net' = [net EXCEPT ![c] = k], NEW a, client' = [client EXCEPT ![c] = a],
         Answering(fs, sm[c], k, Records[c], a)
  PROVE  AnswerInv'
<1>1. /\ UNCHANGED <<sm, curHTTP, curHTTPID, http_memory, fs>>
  BY Zenon DEF ServerSide
<1>2. Records' = Records
  BY <1>1, RecordsStay
<1>3. /\ net'[c] = k /\ client'[c] = a
      /\ \A d \in Conns : d # c => net'[d] = net[d] /\ client'[d] = client[d]
  BY DEF HTTPInv, Sockets, RequestInv
<1>4. \A d \in Conns : Kept(fs, fs', Records[d])
  BY <1>1, FilesStill
<1> QED
  BY <1>1, <1>2, <1>3, <1>4, AnswerMoves

LEMMA NoClientLeft ==
  Left(NoClient)
<1>1. NoClient.asked \in DOMAIN Answers
  BY NoClientIs, Zenon DEF Client
<1> QED
  BY <1>1, NoClientIs, Zenon DEF Left

LEMMA ConnectAnswers ==
  ASSUME PagesOK, HTTPInv, RequestInv, AnswerInv, ~ spoilt, NEW c \in Conns, Connect(c)
  PROVE  AnswerInv'
<1>1. PICK kind \in Kinds[c] :
        /\ UNCHANGED ServerSide /\ net[c].st = "closed"
        /\ net' = [net EXCEPT ![c].st = "open", ![c].ask = Request[kind], ![c].room = TxSize]
        /\ client' = [client EXCEPT ![c] = [NoClient EXCEPT !.asked = kind]]
  BY Zenon DEF Connect
<1> DEFINE k == [net[c] EXCEPT !.st = "open", !.ask = Request[kind], !.room = TxSize]
           a == [NoClient EXCEPT !.asked = kind]
<1>2. net' = [net EXCEPT ![c] = k] /\ client' = [client EXCEPT ![c] = a]
  BY <1>1 DEF HTTPInv, Sockets
<1>3. k.st = "open" /\ k.wasReset = net[c].wasReset
  BY DEF HTTPInv, Sockets, Socket
<1>4. a.answer = <<>>
  BY DEF NoClient
<1>5. net[c].wasReset \/ sm[c] = "IDLE"
  BY <1>1 DEF RequestInv, Hears, Deaf
<1>6. Answering(fs, sm[c], k, Records[c], a)
  <2>1. sm[c] = "IDLE" => Stage(fs, sm[c], Records[c], a)
    BY <1>4, StageYoung DEF Young
  <2> QED
    BY <1>3, <1>4, <1>5, <2>1, Zenon DEF Answering
<1> HIDE DEF k, a
<1> QED
  BY <1>1, <1>2, <1>6, ClientAnswers

LEMMA StayAnswers ==
  ASSUME PagesOK, HTTPInv, RequestInv, AnswerInv, ~ spoilt, NEW c \in Conns, UNCHANGED ServerSide,
         client' = client,
         NEW k, net' = [net EXCEPT ![c] = k], k.st = net[c].st, k.wasReset = net[c].wasReset
  PROVE  AnswerInv'
<1>1. client' = [client EXCEPT ![c] = client[c]]
  BY StaysWhere
<1>2. Answering(fs, sm[c], net[c], Records[c], client[c])
  BY DEF AnswerInv
<1>3. Answering(fs, sm[c], k, Records[c], client[c])
  BY <1>2, Zenon DEF Answering
<1> QED
  BY <1>1, <1>3, ClientAnswers

LEMMA SendAnswers ==
  ASSUME PagesOK, HTTPInv, RequestInv, AnswerInv, ~ spoilt, NEW c \in Conns,
         Send(c) \/ SendMore(c) \/ Drain(c)
  PROVE  AnswerInv'
<1>1. UNCHANGED ServerSide /\ client' = client
  BY Zenon DEF Send, SendMore, Drain, ServerSide
<1>2. \E k : net' = [net EXCEPT ![c] = k] /\ k.st = net[c].st /\ k.wasReset = net[c].wasReset
  <2>1. CASE Send(c)
    BY <2>1, SendIs
  <2>2. CASE SendMore(c)
    <3> DEFINE k == [net[c] EXCEPT !.rx = <<"half">>]
    <3>1. net' = [net EXCEPT ![c] = k] /\ k.st = net[c].st /\ k.wasReset = net[c].wasReset
      BY <2>2 DEF SendMore, HTTPInv, Sockets, Socket
    <3> QED
      BY <3>1
  <2>3. CASE Drain(c)
    <3> DEFINE k == [net[c] EXCEPT !.room = TxSize]
    <3>1. net' = [net EXCEPT ![c] = k] /\ k.st = net[c].st /\ k.wasReset = net[c].wasReset
      BY <2>3 DEF Drain, HTTPInv, Sockets, Socket
    <3> QED
      BY <3>1
  <2> QED
    BY <2>1, <2>2, <2>3
<1> QED
  BY <1>1, <1>2, StayAnswers

LEMMA LeaveAnswers ==
  ASSUME PagesOK, HTTPInv, RequestInv, AnswerInv, ~ spoilt, NEW c \in Conns,
         HalfClose(c) \/ Gone(c)
  PROVE  AnswerInv'
<1>1. UNCHANGED ServerSide /\ client' = [client EXCEPT ![c] = NoClient]
  BY Zenon DEF HalfClose, Gone, ServerSide
<1>2. \E k : net' = [net EXCEPT ![c] = k] /\ k.st # "open"
  <2>1. PICK k : net' = [net EXCEPT ![c] = k] /\ (k = TCPDisconnect(net[c]) \/ k = Reset(net[c]))
    BY Zenon DEF HalfClose, Gone
  <2>2. k.st # "open"
    BY <2>1 DEF TCPDisconnect, Reset, ClosedSocket
  <2> QED
    BY <2>1, <2>2
<1>3. PICK k : net' = [net EXCEPT ![c] = k] /\ k.st # "open"
  BY <1>2
<1>4. Answering(fs, sm[c], k, Records[c], NoClient)
  BY <1>3, NoClientLeft, Zenon DEF Answering
<1> QED
  BY <1>1, <1>3, <1>4, ClientAnswers

LEMMA AnswerInit ==
  HTTPInit => AnswerInv
<1> SUFFICES ASSUME HTTPInit PROVE AnswerInv
  OBVIOUS
<1>1. \A c \in Conns : net[c] = ClosedSocket /\ client[c] = NoClient
  BY DEF HTTPInit
<1>2. ClosedSocket.st # "open"
  BY DEF ClosedSocket
<1>3. \A c \in Conns : Answering(fs, sm[c], net[c], Records[c], client[c])
  BY <1>1, <1>2, NoClientLeft, Zenon DEF Answering
<1> QED
  BY <1>3, Zenon DEF AnswerInv

-----------------------------------------------------------------------------
(* The file that the first line of a request names.                         *)

\* The first line that is read is that of the request.
LEMMA LineAsked ==
  ASSUME HTTPInv, RequestInv, NEW c \in Conns, turn = <<c, "process">>, sm[c] = "PARSE_REQUEST",
         LineEnds(c) # {}, NEW kind, kind = client[c].asked
  PROVE  /\ net[c].st = "open" /\ kind \in DOMAIN Request /\ kind # "endless"
         /\ FirstLine(c) = Request[kind][LineAt(kind)]
<1>1. net[c].st = "open"
  BY HearsAtWork, DeafHasNoLine
<1>2. kind \in DOMAIN Request /\ Followed(sm[c], net[c], curHTTP, kind)
  BY <1>1, HearsAtWork
<1>3. Ahead(net[c]) = Request[kind]
  BY <1>2 DEF Followed, Young
<1>4. Heard(net[c], kind, 0)
  BY <1>2, <1>3, RestOfAll DEF Heard
<1>5. kind # "endless"
  BY <1>4, EndlessHas
<1>6. /\ LineAt(kind) \in 1 .. Len(Request[kind]) /\ LineAt(kind) > 0
      /\ \A i \in 0 + 1 .. LineAt(kind) - 1 : Request[kind][i] = "half"
      /\ Request[kind][LineAt(kind)] # "half"
  BY <1>2, <1>5, LineSays DEF LineAt
<1>7. PICK k : /\ k.rx = SubSeq(net[c].rx, Min(LineEnds(c)) + 1, Len(net[c].rx))
               /\ k.ask = net[c].ask
  <2> DEFINE k0 == [rx |-> SubSeq(net[c].rx, Min(LineEnds(c)) + 1, Len(net[c].rx)),
                    ask |-> net[c].ask]
  <2>1. k0.rx = SubSeq(net[c].rx, Min(LineEnds(c)) + 1, Len(net[c].rx)) /\ k0.ask = net[c].ask
    OBVIOUS
  <2> QED
    BY <2>1, Zenon
<1>8. FirstLine(c) = Request[kind][LineAt(kind)]
  BY <1>2, <1>4, <1>6, <1>7, LineHeard
<1> QED
  BY <1>1, <1>2, <1>5, <1>8

\* The kinds of requests that name a file, and the files.
FileOf == [page |-> "page", nothing |-> "nothing", config |-> "config", lost |-> "nothing"]

LEMMA NamesAre ==
  ASSUME NEW kind \in DOMAIN Request, kind # "endless",
         NEW line, line = Line[Request[kind][LineAt(kind)]]
  PROVE  /\ line.method = "PUT" => kind = "other"
         /\ line.method # "PUT" /\ line.name = "upload" =>
              kind \notin {"page", "nothing", "lost", "config"}
         /\ line.method # "PUT" /\ line.name # "upload" =>
              /\ kind \in DOMAIN FileOf /\ line.name = FileOf[kind]
              /\ kind = "page" => line.args
<1>1. /\ line.method = "PUT" => kind = "other"
      /\ line.method # "PUT" =>
           /\ kind \in DOMAIN Method
           /\ Method[kind] = IF line.name # "upload" THEN line.method
                             ELSE IF line.method = "GET" THEN "MPFS_FORM" ELSE "MPFS_UP"
  BY LineSays
<1>2. line.method # "PUT" /\ line.name = "upload" => Method[kind] \in {"MPFS_FORM", "MPFS_UP"}
  BY <1>1
<1>3. \A k \in {"page", "nothing", "lost", "config"} : Method[k] \in {"GET", "POST"}
  BY DEF Method
<1>4. line.method # "PUT" /\ line.name # "upload" => Method[kind] \in {"GET", "POST"}
  <2> SUFFICES ASSUME line.method # "PUT", line.name # "upload"
               PROVE  Method[kind] \in {"GET", "POST"}
    OBVIOUS
  <2>1. kind \in DOMAIN Method /\ Method[kind] = line.method
    BY <1>1
  <2>2. LineAt(kind) \in 1 .. Len(Request[kind])
    BY LineSays
  <2>3. \A t \in DOMAIN Line : Line[t].method \in {"GET", "POST", "PUT"}
    BY LinesAre
  <2>4. Method[kind] \in {"GET", "POST", "MPFS_FORM", "MPFS_UP"}
    BY <2>1 DEF Method
  <2>5. \A k \in DOMAIN Method : Method[k] \in {"MPFS_FORM", "MPFS_UP"} =>
           k \in {"form", "image", "badimage", "nolength"}
    BY DEF Method
  <2>6. CASE kind = "form"
    <3>1. Request.form = <<"form", "blank">>
      BY Zenon DEF Request
    <3>2. Request[kind][LineAt(kind)] = "form"
      BY <2>6, <3>1 DEF LineAt
    <3> QED
      BY <3>2 DEF Line
  <2>7. CASE kind \in {"image", "badimage", "nolength"}
    <3>1. Request[kind][1] = "image"
      <4>1. kind # "nolength" => Request[kind][1] = "image"
        BY <2>7, ImageIs
      <4>2. Request.nolength = <<"image", "blank", "data">>
        BY Zenon DEF Request
      <4>3. Request.nolength[1] = "image"
        BY <4>2
      <4> QED
        BY <4>1, <4>3
    <3>2. Request[kind][LineAt(kind)] = "image"
      BY <2>7, <3>1 DEF LineAt
    <3> QED
      BY <3>2 DEF Line
  <2> QED
    BY <2>1, <2>4, <2>5, <2>6, <2>7
<1>5. \A k \in DOMAIN Method : Method[k] \in {"GET", "POST"} => k \in DOMAIN FileOf
  BY DEF Method, FileOf
<1>6. \A k \in DOMAIN FileOf : /\ Line[Request[k][LineAt(k)]].name = FileOf[k]
                               /\ k = "page" => Line[Request[k][LineAt(k)]].args
  <2>1. /\ Request.page = <<"page", "blank">> /\ Request.nothing = <<"half", "nothing", "blank">>
        /\ Request.config = <<"config", "length", "blank", "pair", "pair", "pair">>
        /\ Request.lost = <<"lost", "length", "blank", "pair">>
    BY Zenon DEF Request
  <2>2. /\ Request.page[1] = "page" /\ Request.nothing[2] = "nothing"
        /\ Request.config[1] = "config" /\ Request.lost[1] = "lost"
    BY <2>1
  <2>3. /\ LineAt("page") = 1 /\ LineAt("nothing") = 2 /\ LineAt("config") = 1
        /\ LineAt("lost") = 1
    BY DEF LineAt
  <2>4. /\ Line["page"].name = "page" /\ Line["nothing"].name = "nothing"
        /\ Line["config"].name = "config" /\ Line["lost"].name = "nothing" /\ Line["page"].args
    BY DEF Line
  <2>5. \A k \in DOMAIN FileOf : k \in {"page", "nothing", "config", "lost"}
    BY DEF FileOf
  <2>6. /\ FileOf["page"] = "page" /\ FileOf["nothing"] = "nothing"
        /\ FileOf["config"] = "config" /\ FileOf["lost"] = "nothing"
    BY DEF FileOf
  <2> QED
    BY <2>2, <2>3, <2>4, <2>5, <2>6
<1> QED
  BY <1>1, <1>2, <1>3, <1>4, <1>5, <1>6

LEMMA NotFound ==
  ASSUME NEW name, IdOf(name) \notin Ids
  PROVE  IdOf(name) = Len(Fat) + 1
<1> DEFINE found == {id \in Ids : Fat[id].name = name}
<1>1. found # {} => Min(found) \in found
  BY HandlesAre, LeastNumber
<1>2. found # {} => IdOf(name) = Min(found)
  BY Zenon DEF IdOf
<1>3. found = {} => IdOf(name) = Len(Fat) + 1
  BY Zenon DEF IdOf
<1> QED
  BY <1>1, <1>2, <1>3

\* The page, its index and the settings are found, and what is none is not.
LEMMA FileIsFound ==
  ASSUME PagesOK, HandlesSuffice, HTTPInv, TagInv, ~ spoilt, ~ fs.locked, NEW c \in Conns,
         Records[c].file = MPFS_INVALID_HANDLE, Records[c].offsets = MPFS_INVALID_HANDLE,
         NEW kind \in DOMAIN FileOf, NEW name, name = FileOf[kind], NEW o, o = OpenFiles(name)
  PROVE  FilesFound(o.fs, o, kind)
<1> DEFINE f == MPFSOpen(fs, name)
           id == MPFSGetID(f.fs, f.h) + 1
           i == IF HasIndex(f.fs, f.h) THEN MPFSOpenID(f.fs, id)
                ELSE [fs |-> f.fs, h |-> MPFS_INVALID_HANDLE]
<1>1. o.fs = i.fs /\ o.file = f.h /\ o.offsets = i.h
  BY DEF OpenFiles
<1>2. f = Opened(fs, IdOf(name)) /\ FilesOK(fs) /\ fs.numFiles = Len(Fat)
  BY DEF MPFSOpen, HTTPInv, TagInv
<1>3. HasIndex(f.fs, f.h) => i = Opened(f.fs, id)
  BY Zenon DEF MPFSOpenID
<1>4. ~ HasIndex(f.fs, f.h) => i.fs = f.fs /\ i.h = MPFS_INVALID_HANDLE
  <2> SUFFICES ASSUME ~ HasIndex(f.fs, f.h) PROVE i.fs = f.fs /\ i.h = MPFS_INVALID_HANDLE
    OBVIOUS
  <2>1. i = [fs |-> f.fs, h |-> MPFS_INVALID_HANDLE]
    BY Zenon
  <2> HIDE DEF i
  <2> QED
    BY <2>1
<1> HIDE DEF i, f
<1>5. \A h \in OpenIn(fs) : \E d \in Conns : d # c /\ h \in Own(Records[d])
  <2> SUFFICES ASSUME NEW h \in OpenIn(fs) PROVE \E d \in Conns : d # c /\ h \in Own(Records[d])
    OBVIOUS
  <2>1. PICK d \in Conns : h \in HandlesOf(Records[d])
    BY DEF HTTPInv, Shared
  <2>2. d # c
    BY <2>1, HandlesAre DEF HandlesOf
  <2> QED
    BY <2>1, <2>2 DEF HandlesOf, Own
<1>6. CASE kind \in {"nothing", "lost"}
  <2>1. name = "nothing" /\ IdOf(name) = Len(Fat) + 1
    BY <1>6, NotFound DEF FileOf, PagesOK
  <2>2. f.h = MPFS_INVALID_HANDLE
    BY <1>2, <2>1, OpenMisses
  <2> QED
    BY <1>1, <1>6, <2>2 DEF FilesFound
<1>7. ASSUME IdOf(name) \in Ids
      PROVE  /\ FilesOK(f.fs) /\ OpenDone(fs, IdOf(name), f) /\ Reads(f.fs, f.h, IdOf(name), 0)
             /\ ~ f.fs.locked /\ f.fs.numFiles = Len(Fat)
             /\ Reads(i.fs, f.h, IdOf(name), 0)
  <2>1. \A h \in OpenIn(fs) : \E d \in Conns : h \in Own(Records[d])
    BY <1>5
  <2>2. PICK h \in Handles : h # MAX_MPFS_HANDLES /\ h \notin OpenIn(fs)
    BY <2>1, HandleLeft
  <2>3. ~ IsOpen(fs, h)
    BY <2>2 DEF OpenIn
  <2>4. FilesOK(f.fs) /\ OpenDone(fs, IdOf(name), f) /\ Reads(f.fs, f.h, IdOf(name), 0)
    BY <1>2, <1>7, <2>2, <2>3, OpenFinds
  <2>5. Apart(fs, f.fs, {})
    BY <1>2, ApartOpened
  <2>6. ~ f.fs.locked /\ f.fs.numFiles = Len(Fat)
    BY <1>2, <2>5 DEF Apart
  <2>7. f.h \in OpenIn(f.fs)
    BY <1>7, <2>4, ReadsOpen
  <2>8. HasIndex(f.fs, f.h) => Apart(f.fs, i.fs, {})
    BY <1>3, <2>4, ApartOpened
  <2>9. i.fs.stubs[f.h] = f.fs.stubs[f.h]
    BY <1>4, <2>7, <2>8 DEF Apart
  <2> QED
    BY <2>4, <2>6, <2>9 DEF Reads
<1>8. CASE kind = "config"
  <2>1. name = "config" /\ IdOf(name) \in Ids
    BY <1>8 DEF FileOf, PagesOK
  <2> QED
    BY <1>1, <1>7, <1>8, <2>1 DEF FilesFound
<1>9. CASE kind = "page"
  <2>1. name = "page" /\ IdOf(name) = PageId /\ PageId \in Ids /\ PageId + 1 \in Ids
        /\ Fat[PageId].hasIndex
    BY <1>9 DEF FileOf, PagesOK, PageId
  <2>2. /\ FilesOK(f.fs) /\ OpenDone(fs, PageId, f) /\ Reads(f.fs, f.h, PageId, 0)
        /\ ~ f.fs.locked /\ f.fs.numFiles = Len(Fat) /\ Reads(i.fs, f.h, PageId, 0)
    BY <1>7, <2>1
  <2>3. IsOpen(f.fs, f.h) /\ f.fs.stubs[f.h].id = PageId
    BY <2>1, <2>2, ReadsOpen
  <2>4. id = PageId + 1 /\ HasIndex(f.fs, f.h)
    BY <2>1, <2>3 DEF HasIndex, MPFSGetID
  <2>5. PICK h \in Handles : h # MAX_MPFS_HANDLES /\ h \notin OpenIn(f.fs)
    <3> DEFINE record == [file |-> f.h, offsets |-> MPFS_INVALID_HANDLE]
               records == [d \in Conns |-> IF d = c THEN record ELSE Records[d]]
    <3>1. OpenIn(f.fs) = OpenIn(fs) \cup {f.h}
      BY <2>2 DEF OpenDone
    <3>2. \A h \in OpenIn(f.fs) : \E d \in Conns : h \in Own(records[d])
      <4> SUFFICES ASSUME NEW h \in OpenIn(f.fs) PROVE \E d \in Conns : h \in Own(records[d])
        OBVIOUS
      <4>1. CASE h = f.h
        <5>1. records[c] = record /\ record.file = f.h
          OBVIOUS
        <5> QED
          BY <4>1, <5>1 DEF Own
      <4>2. CASE h \in OpenIn(fs)
        <5>1. PICK d \in Conns : d # c /\ h \in Own(Records[d])
          BY <1>5, <4>2
        <5>2. records[d] = Records[d]
          BY <5>1
        <5> QED
          BY <5>1, <5>2
      <4> QED
        BY <3>1, <4>1, <4>2
    <3>3. records[c].offsets = MPFS_INVALID_HANDLE
      OBVIOUS
    <3> HIDE DEF records
    <3> QED
      BY <3>2, <3>3, HandleLeft
  <2>6. ~ IsOpen(f.fs, h)
    BY <2>5 DEF OpenIn
  <2>7. i = Opened(f.fs, PageId + 1)
    BY <1>3, <2>4
  <2>8. Reads(i.fs, i.h, PageId + 1, 0)
    BY <2>1, <2>2, <2>5, <2>6, <2>7, OpenFinds
  <2> QED
    BY <1>1, <1>9, <2>2, <2>8 DEF FilesFound
<1> QED
  BY <1>6, <1>8, <1>9 DEF FileOf

LEMMA ParseRequestAnswers ==
  ASSUME PagesOK, HandlesSuffice, HTTPInv, RequestInv, TagInv, AnswerInv, Unspoilt,
         NEW c \in Conns, ParseRequest(c)
  PROVE  AnswerInv'
<1> DEFINE line == Line[FirstLine(c)]
           kind == client[c].asked
<1>1. /\ turn = <<c, "process">> /\ sm[c] = "PARSE_REQUEST" /\ LineEnds(c) # {}
      /\ UNCHANGED Loaded /\ client' = client /\ ~ spoilt
  BY Zenon DEF ParseRequest, At, Unspoilt
<1>2. /\ net[c].st = "open" /\ kind \in DOMAIN Request /\ kind # "endless"
      /\ line = Line[Request[kind][LineAt(kind)]]
  BY <1>1, LineAsked
<1>3. client[c].answer = <<>> /\ curHTTP \in Record
  BY <1>1, <1>2, AnswerAtWork, AtWork, StageSays DEF Receiving, RecordOK
<1> HIDE DEF line, kind
<1>4. /\ line.method = "PUT" => kind = "other"
      /\ line.method # "PUT" /\ line.name = "upload" =>
           kind \notin {"page", "nothing", "lost", "config"}
      /\ line.method # "PUT" /\ line.name # "upload" =>
           /\ kind \in DOMAIN FileOf /\ line.name = FileOf[kind]
           /\ kind = "page" => line.args
  BY <1>2, NamesAre
<1>5. line.method = "PUT" => line.name # "upload"
  BY <1>2, LineSays
<1>6. \A d \in Conns : d # c => Kept(fs, fs', Records[d])
  <2>1. Apart(fs, fs', {}) /\ {} \subseteq Own(Records[c])
    BY ApartParse
  <2> QED
    BY <1>1, <2>1, ApartKept
<1>7. CASE /\ line.method = "PUT"
           /\ \E status \in {"NOT_IMPLEMENTED", "OVERFLOW"} :
                curHTTP' = [curHTTP EXCEPT !.httpStatus = status]
           /\ Goto(c, "SERVE_HEADERS") /\ UNCHANGED net
  <2>1. PICK status \in {"NOT_IMPLEMENTED", "OVERFLOW"} :
          curHTTP' = [curHTTP EXCEPT !.httpStatus = status]
    BY <1>7
  <2>2. curHTTP'.httpStatus = status
    BY <1>3, <2>1, Zenon DEF Record
  <2>3. kind = "other"
    BY <1>4, <1>7
  <2>4. Refused(curHTTP', kind)
    BY <2>2, <2>3 DEF Refused, Answers
  <2>5. Stage(fs', "SERVE_HEADERS", curHTTP', client[c])
    BY <1>3, <2>3, <2>4, StageRefused DEF kind
  <2>6. net' = [net EXCEPT ![c] = net[c]]
    BY <1>7, StaysWhere
  <2> QED
    BY <1>1, <1>6, <1>7, <2>5, <2>6, SilentWork
<1>8. ASSUME Goto(c, "PARSE_HEADERS"), TakeLine(c),
             Stage(fs', "PARSE_HEADERS", curHTTP', client[c])
      PROVE  AnswerInv'
  <2>1. PICK k : net' = [net EXCEPT ![c] = k] /\ k.st = net[c].st /\ k.wasReset = net[c].wasReset
    BY <1>1, <1>8, LineTaken
  <2> QED
    BY <1>1, <1>6, <1>8, <2>1, SilentWork
<1>9. CASE line.name = "upload" /\ Goto(c, "PARSE_HEADERS") /\ TakeLine(c)
  <2>1. Stage(fs', "PARSE_HEADERS", curHTTP', client[c])
    BY <1>3, <1>4, <1>5, <1>9, StageUpload DEF kind, Headers
  <2> QED
    BY <1>8, <1>9, <2>1
<1>10. CASE /\ line.method # "PUT" /\ line.name # "upload"
            /\ LET opened == OpenFiles(line.name) IN
                 /\ fs' = opened.fs
                 /\ curHTTP' = [curHTTP EXCEPT !.httpStatus = line.method,
                                  !.file = opened.file, !.offsets = opened.offsets,
                                  !.hasArgs = line.args]
            /\ Goto(c, "PARSE_HEADERS") /\ TakeLine(c)
  <2> DEFINE opened == OpenFiles(line.name)
  <2>1. /\ curHTTP'.file = opened.file /\ curHTTP'.offsets = opened.offsets
        /\ curHTTP'.hasArgs = line.args
    BY <1>3, <1>10, Zenon DEF Record
  <2>2. ~ fs.locked
    <3>1. sm'[c] = "PARSE_HEADERS"
      BY <1>1, <1>10, WorkMoves
    <3> QED
      BY <1>1, <3>1 DEF Unspoilt
  <2>3. Records[c].file = MPFS_INVALID_HANDLE /\ Records[c].offsets = MPFS_INVALID_HANDLE
    BY <1>1 DEF HTTPInv, Fresh, Young
  <2>4. kind \in DOMAIN FileOf /\ line.name = FileOf[kind] /\ (kind = "page" => line.args)
    BY <1>4, <1>10
  <2>5. FilesFound(opened.fs, opened, kind)
    BY <1>1, <2>2, <2>3, <2>4, FileIsFound
  <2>6. fs' = opened.fs
    BY <1>10
  <2> HIDE DEF opened
  <2>7. FilesFound(fs', curHTTP', kind)
    BY <2>1, <2>5, <2>6, Zenon DEF FilesFound
  <2>8. Stage(fs', "PARSE_HEADERS", curHTTP', client[c])
    BY <1>3, <2>1, <2>4, <2>7 DEF Stage, kind
  <2> QED
    BY <1>8, <1>10, <2>8
<1>11. CASE /\ line.method = "PUT"
            /\ \E opened : curHTTP' = [curHTTP EXCEPT !.httpStatus = "OVERFLOW",
                              !.file = opened.file, !.offsets = opened.offsets,
                              !.hasArgs = TRUE]
            /\ Goto(c, "SERVE_HEADERS") /\ UNCHANGED net
  <2>1. PICK opened : curHTTP' = [curHTTP EXCEPT !.httpStatus = "OVERFLOW",
                                    !.file = opened.file, !.offsets = opened.offsets,
                                    !.hasArgs = TRUE]
    BY <1>11
  <2>2. curHTTP'.httpStatus = "OVERFLOW"
    BY <1>3, <2>1, Zenon DEF Record
  <2>3. kind = "other"
    BY <1>4, <1>11
  <2>4. Refused(curHTTP', kind)
    BY <2>2, <2>3 DEF Refused, Answers
  <2>5. Stage(fs', "SERVE_HEADERS", curHTTP', client[c])
    BY <1>3, <2>3, <2>4, StageRefused DEF kind
  <2>6. net' = [net EXCEPT ![c] = net[c]]
    BY <1>11, StaysWhere
  <2> QED
    BY <1>1, <1>6, <1>11, <2>5, <2>6, SilentWork
<1> QED
  BY <1>7, <1>9, <1>10, <1>11, Zenon DEF ParseRequest, line

LEMMA ParseHeadersAnswers ==
  ASSUME PagesOK, HTTPInv, RequestInv, AnswerInv, ~ spoilt, NEW c \in Conns, ParseHeaders(c)
  PROVE  AnswerInv'
<1>1. /\ turn = <<c, "process">> /\ sm[c] = "PARSE_HEADERS" /\ LineEnds(c) # {}
      /\ UNCHANGED Loaded /\ client' = client /\ TakeLine(c) /\ fs' = fs
  BY Zenon DEF ParseHeaders, At
<1>2. \E s \in Headers : /\ Goto(c, s) \/ (s = sm[c] /\ UNCHANGED sm)
                         /\ s = "AUTHENTICATE" \/ s = "PARSE_HEADERS"
  BY <1>1, Zenon DEF ParseHeaders, Headers
<1>3. PICK s \in Headers : /\ Goto(c, s) \/ (s = sm[c] /\ UNCHANGED sm)
                           /\ s = "AUTHENTICATE" \/ s = "PARSE_HEADERS"
  BY <1>2
<1>4. /\ curHTTP'.file = curHTTP.file /\ curHTTP'.offsets = curHTTP.offsets
      /\ curHTTP'.hasArgs = curHTTP.hasArgs
  <2>1. curHTTP \in Record
    BY <1>1, AtWork DEF RecordOK
  <2>2. curHTTP' = curHTTP \/ \E n : curHTTP' = [curHTTP EXCEPT !.byteCount = n]
    BY Zenon DEF ParseHeaders
  <2> QED
    BY <2>1, <2>2, Zenon DEF Record
<1>5. PICK k : net' = [net EXCEPT ![c] = k] /\ k.st = net[c].st /\ k.wasReset = net[c].wasReset
  BY <1>1, LineTaken
<1>6. net[c].st = "open" => Stage(fs', s, curHTTP', client[c])
  <2> SUFFICES ASSUME net[c].st = "open" PROVE Stage(fs', s, curHTTP', client[c])
    OBVIOUS
  <2>1. Stage(fs, "PARSE_HEADERS", curHTTP, client[c])
    BY <1>1, AnswerAtWork
  <2>2. client[c].asked = "page" => curHTTP'.hasArgs
    BY <1>4, <2>1 DEF Stage, WithArgs
  <2>3. s # "PROCESS_REQUEST" /\ s \in Headers /\ "PARSE_HEADERS" \in Headers
    BY <1>3 DEF Headers
  <2> QED
    BY <1>1, <1>4, <2>1, <2>2, <2>3, StageHeaders
<1> QED
  BY <1>1, <1>3, <1>5, <1>6, FilesStill, SilentWork

LEMMA AuthenticateAnswers ==
  ASSUME PagesOK, HTTPInv, RequestInv, AnswerInv, ~ spoilt, NEW c \in Conns, Authenticate(c)
  PROVE  AnswerInv'
<1> DEFINE s == IF curHTTP.httpStatus = "MPFS_FORM" THEN "SERVE_HEADERS"
                ELSE IF curHTTP.hasArgs THEN "PROCESS_GET" ELSE "PROCESS_POST"
<1>1. /\ turn = <<c, "process">> /\ sm[c] = "AUTHENTICATE" /\ Goto(c, s)
      /\ UNCHANGED Loaded /\ client' = client /\ net' = net /\ fs' = fs
      /\ curHTTP' = [curHTTP EXCEPT !.hasArgs = FALSE]
  BY Zenon DEF Authenticate, At
<1>2. /\ curHTTP'.file = curHTTP.file /\ curHTTP'.offsets = curHTTP.offsets
      /\ curHTTP'.httpStatus = curHTTP.httpStatus
  BY <1>1, AtWork, Zenon DEF RecordOK, Record
<1>3. net' = [net EXCEPT ![c] = net[c]]
  BY <1>1, StaysWhere
<1>4. ASSUME net[c].st = "open" PROVE Stage(fs', s, curHTTP', client[c])
  <2>1. /\ Stage(fs, "AUTHENTICATE", curHTTP, client[c])
        /\ Followed("AUTHENTICATE", net[c], curHTTP, client[c].asked)
    BY <1>1, <1>4, AnswerAtWork
  <2>2. client[c].asked \in DOMAIN Method /\ curHTTP.httpStatus = Method[client[c].asked]
    BY <2>1, Zenon DEF Followed, AtBody, Understood
  <2>3. client[c].answer = <<>>
    BY <2>1, StageSays DEF Receiving
  <2>4. CASE curHTTP.httpStatus = "MPFS_FORM"
    <3>1. client[c].asked = "form"
      BY <2>2, <2>4 DEF Method
    <3>2. Refused(curHTTP', client[c].asked)
      BY <1>2, <2>4, <3>1 DEF Refused, Answers
    <3>3. Stage(fs', "SERVE_HEADERS", curHTTP', client[c])
      BY <2>3, <3>1, <3>2, StageRefused
    <3> QED
      BY <2>4, <3>3
  <2>5. CASE curHTTP.httpStatus # "MPFS_FORM"
    <3>1. client[c].asked = "page" => curHTTP.hasArgs
      BY <2>1 DEF Stage, WithArgs
    <3>2. s \in Headers /\ s # "PROCESS_REQUEST" /\ "AUTHENTICATE" \in Headers
      BY <2>5 DEF Headers
    <3>3. client[c].asked = "page" => s \notin WithArgs
      BY <2>5, <3>1 DEF WithArgs
    <3> HIDE DEF s
    <3> QED
      BY <1>1, <1>2, <2>1, <3>2, <3>3, StageHeaders
  <2> QED
    BY <2>4, <2>5
<1> HIDE DEF s
<1> QED
  BY <1>1, <1>3, <1>4, FilesStill, SilentWork

LEMMA ProcessGetAnswers ==
  ASSUME PagesOK, HTTPInv, RequestInv, AnswerInv, ~ spoilt, NEW c \in Conns, ProcessGet(c)
  PROVE  AnswerInv'
<1>1. /\ turn = <<c, "process">> /\ sm[c] = "PROCESS_GET" /\ Goto(c, "PROCESS_POST")
      /\ UNCHANGED Loaded /\ client' = client /\ net' = net /\ fs' = fs
  BY Zenon DEF ProcessGet, At
<1>2. PICK cookies : /\ curHTTP' = [curHTTP EXCEPT !.hasArgs = cookies]
                     /\ IsOpen(fs, curHTTP.file) => cookies = TRUE
  BY DEF ProcessGet
<1>3. /\ curHTTP'.file = curHTTP.file /\ curHTTP'.offsets = curHTTP.offsets
      /\ curHTTP'.hasArgs = cookies
  BY <1>1, <1>2, AtWork, Zenon DEF RecordOK, Record
<1>4. net' = [net EXCEPT ![c] = net[c]]
  BY <1>1, StaysWhere
<1>5. ASSUME net[c].st = "open" PROVE Stage(fs', "PROCESS_POST", curHTTP', client[c])
  <2>1. Stage(fs, "PROCESS_GET", curHTTP, client[c])
    BY <1>1, <1>5, AnswerAtWork
  <2>2. client[c].asked = "page" => curHTTP'.hasArgs
    <3> SUFFICES ASSUME client[c].asked = "page" PROVE curHTTP'.hasArgs
      OBVIOUS
    <3>1. Reads(fs, curHTTP.file, PageId, 0)
      BY <2>1, StageSays DEF Headers, FilesFound
    <3>2. IsOpen(fs, curHTTP.file)
      BY <3>1, ReadsOpen DEF PagesOK, HTTPInv
    <3> QED
      BY <1>2, <1>3, <3>2
  <2> QED
    BY <1>1, <1>3, <2>1, <2>2, StageHeaders DEF Headers
<1> QED
  BY <1>1, <1>4, <1>5, FilesStill, SilentWork

\* More is awaited of a POST, and it fits the RX FIFO; or it has all come.
LEMMA PostAwaits ==
  ASSUME PagesOK, HTTPInv, RequestInv, AnswerInv, ~ spoilt, NEW c \in Conns,
         turn = <<c, "process">>, sm[c] = "PROCESS_POST", UNCHANGED Loaded, client' = client,
         NEW record \in Record, NEW rx \in Stream,
         \/ Waiting(c, record, rx)
         \/ NeedData(c, record, rx) /\ record.byteCount > Len(rx) /\ Len(rx) < RxSize,
         \A d \in Conns : d # c => Kept(fs, fs', Records[d]),
         net[c].st = "open" => Stage(fs', "PROCESS_POST", record, client[c])
  PROVE  AnswerInv'
<1> DEFINE k == [net[c] EXCEPT !.rx = rx]
<1>1. /\ net' = [net EXCEPT ![c].rx = rx] /\ UNCHANGED sm
      /\ \E n : curHTTP' = [record EXCEPT !.lastReady = n]
  BY Zenon DEF Waiting, NeedData
<1>2. /\ curHTTP'.file = record.file /\ curHTTP'.offsets = record.offsets
      /\ curHTTP'.hasArgs = record.hasArgs
  BY <1>1, Zenon DEF Record
<1>3. net' = [net EXCEPT ![c] = k] /\ k.st = net[c].st /\ k.wasReset = net[c].wasReset
  BY <1>1, SocketReads DEF HTTPInv, Sockets
<1>4. net[c].st = "open" => Stage(fs', "PROCESS_POST", curHTTP', client[c])
  <2> SUFFICES ASSUME net[c].st = "open" PROVE Stage(fs', "PROCESS_POST", curHTTP', client[c])
    OBVIOUS
  <2>1. Stage(fs', "PROCESS_POST", record, client[c])
    OBVIOUS
  <2>2. client[c].asked = "page" => curHTTP'.hasArgs
    BY <1>2, <2>1 DEF Stage, WithArgs
  <2> QED
    BY <1>2, <2>1, <2>2, StageHeaders DEF Headers
<1> HIDE DEF k
<1> QED
  BY <1>1, <1>3, <1>4, SilentWork

LEMMA PostEnds ==
  ASSUME PagesOK, HTTPInv, RequestInv, AnswerInv, ~ spoilt, NEW c \in Conns,
         turn = <<c, "process">>, UNCHANGED Loaded, client' = client,
         NEW record, NEW rx \in Stream, NEW s, PostDone(c, record, rx, s),
         \A d \in Conns : d # c => Kept(fs, fs', Records[d]),
         net[c].st = "open" => Stage(fs', s, record, client[c])
  PROVE  AnswerInv'
<1> DEFINE k == [net[c] EXCEPT !.rx = rx]
<1>1. net' = [net EXCEPT ![c].rx = rx] /\ Goto(c, s) /\ curHTTP' = record
  BY Zenon DEF PostDone
<1>2. net' = [net EXCEPT ![c] = k] /\ k.st = net[c].st /\ k.wasReset = net[c].wasReset
  BY <1>1, SocketReads DEF HTTPInv, Sockets
<1> HIDE DEF k
<1> QED
  BY <1>1, <1>2, SilentWork

LEMMA NoPostAnswers ==
  ASSUME PagesOK, HTTPInv, RequestInv, AnswerInv, ~ spoilt, NEW c \in Conns, NoPost(c)
  PROVE  AnswerInv'
<1>1. /\ turn = <<c, "process">> /\ sm[c] = "PROCESS_POST" /\ Goto(c, "PROCESS_REQUEST")
      /\ UNCHANGED Loaded /\ client' = client /\ net' = net /\ fs' = fs /\ curHTTP' = curHTTP
      /\ ~ PostCallback
  BY Zenon DEF NoPost, At
<1>2. net' = [net EXCEPT ![c] = net[c]]
  BY <1>1, StaysWhere
<1>3. ASSUME net[c].st = "open" PROVE Stage(fs', "PROCESS_REQUEST", curHTTP', client[c])
  <2>1. /\ Stage(fs, "PROCESS_POST", curHTTP, client[c])
        /\ Followed("PROCESS_POST", net[c], curHTTP, client[c].asked)
    BY <1>1, <1>3, AnswerAtWork
  <2>2. AtPost(net[c], curHTTP, client[c].asked)
    BY <2>1 DEF Followed
  <2>3. client[c].asked # "config"
    <3> SUFFICES ASSUME client[c].asked = "config" PROVE FALSE
      OBVIOUS
    <3>1. Understood(curHTTP, "config")
      BY <2>2, Zenon DEF AtPost, AtBody
    <3> QED
      BY <1>1, <3>1 DEF Understood, Method, PostCallback
  <2>4. client[c].asked = "page" => curHTTP'.hasArgs
    BY <1>1, <2>1 DEF Stage, WithArgs
  <2> QED
    BY <1>1, <2>1, <2>3, <2>4, StageHeaders DEF Headers
<1> QED
  BY <1>1, <1>2, <1>3, FilesStill, SilentWork

LEMMA ExecutePostAnswers ==
  ASSUME PagesOK, HTTPInv, RequestInv, AnswerInv, ~ spoilt, NEW c \in Conns, ExecutePost(c)
  PROVE  AnswerInv'
<1>1. /\ turn = <<c, "process">> /\ sm[c] = "PROCESS_POST" /\ curHTTP.httpStatus = "POST"
      /\ UNCHANGED Loaded /\ client' = client /\ fs' = fs
  BY Zenon DEF ExecutePost, At
<1>2. PICK r \in Record :
        /\ r.file = curHTTP.file /\ r.offsets = curHTTP.offsets /\ r.hasArgs = curHTTP.hasArgs
        /\ \/ \E s \in Stream : \/ Waiting(c, r, s)
                                \/ NeedData(c, r, s) /\ s = <<>> /\ r.byteCount > 0
           \/ /\ IsOpen(fs, curHTTP.file) /\ NameOf(fs, curHTTP.file) = "config"
                   => r.httpStatus = "REDIRECT"
              /\ PostDone(c, r, net[c].rx, "PROCESS_REQUEST")
  BY ExecutePostIs
<1>3. \A d \in Conns : d # c => Kept(fs, fs', Records[d])
  BY <1>1, FilesStill
<1>4. net[c].st = "open" => /\ Stage(fs, "PROCESS_POST", curHTTP, client[c])
                            /\ (client[c].asked = "page" => r.hasArgs)
  <2> SUFFICES ASSUME net[c].st = "open"
               PROVE  /\ Stage(fs, "PROCESS_POST", curHTTP, client[c])
                      /\ (client[c].asked = "page" => r.hasArgs)
    OBVIOUS
  <2>1. Stage(fs, "PROCESS_POST", curHTTP, client[c])
    BY <1>1, AnswerAtWork
  <2>2. client[c].asked = "page" => curHTTP.hasArgs
    BY <2>1 DEF Stage, WithArgs
  <2> QED
    BY <1>2, <2>1, <2>2
<1>5. ASSUME NEW s \in Stream,
             Waiting(c, r, s) \/ (NeedData(c, r, s) /\ s = <<>> /\ r.byteCount > 0)
      PROVE  AnswerInv'
  <2>1. net[c].st = "open" => Stage(fs', "PROCESS_POST", r, client[c])
    BY <1>1, <1>2, <1>4, StageHeaders DEF Headers
  <2>2. \/ Waiting(c, r, s)
        \/ NeedData(c, r, s) /\ r.byteCount > Len(s) /\ Len(s) < RxSize
    <3>1. s = <<>> => Len(s) = 0
      OBVIOUS
    <3>2. 0 < RxSize
      BY HTTPAssumption
    <3> QED
      BY <1>5, <3>1, <3>2
  <2> QED
    BY <1>1, <1>3, <2>1, <2>2, PostAwaits
<1>6. CASE /\ IsOpen(fs, curHTTP.file) /\ NameOf(fs, curHTTP.file) = "config"
                => r.httpStatus = "REDIRECT"
           /\ PostDone(c, r, net[c].rx, "PROCESS_REQUEST")
  <2>1. ASSUME net[c].st = "open" PROVE Stage(fs', "PROCESS_REQUEST", r, client[c])
    <3>1. Stage(fs, "PROCESS_POST", curHTTP, client[c])
      BY <1>4, <2>1
    <3>2. ASSUME client[c].asked = "config" PROVE r.httpStatus = "REDIRECT"
      <4>1. Reads(fs, curHTTP.file, IdOf("config"), 0)
        BY <3>1, <3>2, StageSays DEF Headers, FilesFound
      <4>2. IdOf("config") \in Ids
        BY DEF PagesOK
      <4>3. IsOpen(fs, curHTTP.file) /\ fs.stubs[curHTTP.file].id = IdOf("config")
        BY <4>1, <4>2, ReadsOpen DEF HTTPInv
      <4>4. Fat[IdOf("config")].name = "config"
        <5> DEFINE found == {id \in Ids : Fat[id].name = "config"}
        <5>1. found # {} => Min(found) \in found
          BY HandlesAre, LeastNumber
        <5>2. found # {} => IdOf("config") = Min(found)
          BY Zenon DEF IdOf
        <5>3. found = {} => IdOf("config") = Len(Fat) + 1
          BY Zenon DEF IdOf
        <5>4. Len(Fat) + 1 \notin Ids
          BY HandlesAre DEF Ids
        <5> QED
          BY <4>2, <5>1, <5>2, <5>3, <5>4
      <4>5. NameOf(fs, curHTTP.file) = "config"
        BY <4>3, <4>4, Zenon DEF NameOf
      <4> QED
        BY <1>6, <4>3, <4>5
    <3> QED
      BY <1>1, <1>2, <1>4, <2>1, <3>1, <3>2, StageHeaders DEF Headers
  <2>2. net[c].rx \in Stream
    BY <1>1, AtWork DEF SocketOK, Socket
  <2> QED
    BY <1>1, <1>3, <1>6, <2>1, <2>2, PostEnds
<1> QED
  BY <1>2, <1>5, <1>6

\* What an upload is at, and that it has neither a file nor an answer.
LEMMA UploadAtWork ==
  ASSUME HTTPInv, RequestInv, AnswerInv, ~ spoilt, NEW c \in Conns, turn = <<c, "process">>,
         sm[c] = "PROCESS_POST", net[c].st = "open",
         curHTTP.httpStatus \in {"MPFS_UP", "MPFS_OK", "MPFS_ERROR"},
         NEW kind, kind = client[c].asked
  PROVE  /\ AtPost(net[c], curHTTP, kind) /\ client[c].answer = <<>>
         /\ kind \in {"image", "badimage", "nolength"}
         /\ \A f, r : Stage(f, "PROCESS_POST", r, client[c])
<1>1. /\ Stage(fs, "PROCESS_POST", curHTTP, client[c])
      /\ Followed("PROCESS_POST", net[c], curHTTP, kind)
  BY AnswerAtWork
<1>2. AtPost(net[c], curHTTP, kind) /\ client[c].answer = <<>>
  BY <1>1, StageSays DEF Followed, Receiving
<1>3. kind \in {"image", "badimage", "nolength"}
  BY <1>2, PostIs
<1>4. \A f, r : Stage(f, "PROCESS_POST", r, client[c])
  BY <1>2, <1>3, StageUpload DEF Headers
<1> QED
  BY <1>2, <1>3, <1>4

\* Only a form that does not say how long it is may need more than it gets.
LEMMA PostNeeds ==
  ASSUME PagesOK, HTTPInv, RequestInv, AnswerInv, ~ spoilt, NEW c \in Conns,
         turn = <<c, "process">>, sm[c] = "PROCESS_POST", UNCHANGED Loaded, client' = client,
         NEW record \in Record, NEW rx \in Stream, NeedData(c, record, rx),
         \A d \in Conns : d # c => Kept(fs, fs', Records[d]),
         net[c].st = "open" =>
           /\ Stage(fs', "PROCESS_POST", record, client[c])
           /\ (record.byteCount > Len(rx) /\ Len(rx) < RxSize) \/ client[c].asked = "nolength"
  PROVE  AnswerInv'
<1>1. CASE record.byteCount > Len(rx) /\ Len(rx) < RxSize
  BY <1>1, PostAwaits
<1>2. CASE ~ (record.byteCount > Len(rx) /\ Len(rx) < RxSize)
  <2> DEFINE k == [net[c] EXCEPT !.rx = rx]
  <2>1. /\ net' = [net EXCEPT ![c].rx = rx] /\ Goto(c, "SERVE_HEADERS")
        /\ curHTTP' = [record EXCEPT !.lastReady = Len(rx), !.httpStatus = "INTERNAL_SERVER_ERROR"]
    BY <1>2, Zenon DEF NeedData
  <2>2. curHTTP'.httpStatus = "INTERNAL_SERVER_ERROR"
    BY <2>1, Zenon DEF Record
  <2>3. net' = [net EXCEPT ![c] = k] /\ k.st = net[c].st /\ k.wasReset = net[c].wasReset
    BY <2>1, SocketReads DEF HTTPInv, Sockets
  <2>4. ASSUME net[c].st = "open" PROVE Stage(fs', "SERVE_HEADERS", curHTTP', client[c])
    <3>1. client[c].asked = "nolength" /\ client[c].answer = <<>>
      BY <1>2, <2>4, StageSays DEF Receiving
    <3>2. Refused(curHTTP', "nolength")
      BY <2>2 DEF Refused, Answers
    <3> QED
      BY <3>1, <3>2, StageRefused
  <2> HIDE DEF k
  <2> QED
    BY <2>1, <2>3, <2>4, SilentWork
<1> QED
  BY <1>1, <1>2

LEMMA UploadWriteAnswers ==
  ASSUME PagesOK, HTTPInv, RequestInv, AnswerInv, ~ spoilt, NEW c \in Conns, UploadWrite(c)
  PROVE  AnswerInv'
<1> DEFINE rx == net[c].rx
           n == Min({Len(rx), curHTTP.byteCount})
           m == Minus(curHTTP.byteCount, n)
           r == [curHTTP EXCEPT !.byteCount = m]
           rest == SubSeq(rx, n + 1, Len(rx))
           written == MPFSPutArray(fs, SubSeq(rx, 1, n))
           kind == client[c].asked
<1>1. /\ turn = <<c, "process">> /\ sm[c] = "PROCESS_POST" /\ UNCHANGED Loaded
      /\ client' = client /\ curHTTP.httpStatus = "MPFS_OK"
  BY Zenon DEF UploadWrite, At
<1>2. /\ curHTTP \in Record /\ curHTTP.byteCount \in Nat
      /\ rx \in Stream /\ Len(rx) \in Nat /\ net[c].ask \in Stream
  <2>1. RecordOK(curHTTP) /\ rx \in Stream /\ net[c].ask \in Stream
    BY <1>1, AtWork DEF SocketOK, Socket
  <2> QED
    BY <2>1, LenProperties DEF Stream, RecordOK, Record
<1>3. n \in 0 .. Len(rx) /\ m \in Nat
  <2>1. n \in Nat /\ n <= Len(rx)
    BY <1>2, LesserOfTwo
  <2> HIDE DEF n
  <2>2. m \in Nat
    BY <1>2, <2>1, MinusIs
  <2> QED
    BY <1>2, <2>1, <2>2
<1>4. rest \in Stream
  BY <1>2, <1>3, PrefixIs
<1>5. fs'.stubs = fs.stubs
  <2>1. fs' = written \/ fs' = MPFSPutEnd(written)
    BY Zenon DEF UploadWrite
  <2>2. \A chunks : MPFSPutArray(fs, chunks).stubs = fs.stubs
    BY Zenon DEF MPFSPutArray, HTTPInv, FilesOK, FileSystem
  <2>3. MPFSPutEnd(written).stubs = written.stubs
    <3>1. written = [fs EXCEPT !.image = @ \o SubSeq(rx, 1, n)]
      BY DEF MPFSPutArray
    <3> HIDE DEF written
    <3>2. \E x : written = [fs EXCEPT !.image = x]
      BY <3>1
    <3> QED
      BY <3>2 DEF MPFSPutEnd, HTTPInv, FilesOK, FileSystem
  <2> QED
    BY <2>1, <2>2, <2>3
<1>6. \A d \in Conns : Kept(fs, fs', Records[d])
  BY <1>5 DEF Kept
<1>7. \/ r.byteCount = 0 /\ PostDone(c, r, rest, "SERVE_HEADERS")
      \/ r.byteCount # 0 /\ NeedData(c, r, rest)
  BY Zenon DEF UploadWrite
<1>8. net[c].st = "open" => /\ client[c].answer = <<>> /\ kind = "image" /\ rest = <<>>
                            /\ \A f, g : Stage(f, "PROCESS_POST", g, client[c])
  <2> SUFFICES ASSUME net[c].st = "open"
               PROVE  /\ client[c].answer = <<>> /\ kind = "image" /\ rest = <<>>
                      /\ \A f, g : Stage(f, "PROCESS_POST", g, client[c])
    OBVIOUS
  <2>1. /\ AtPost(net[c], curHTTP, kind) /\ client[c].answer = <<>>
        /\ \A f, g : Stage(f, "PROCESS_POST", g, client[c])
    BY <1>1, UploadAtWork
  <2> HIDE DEF kind
  <2>2. /\ kind = "image" /\ curHTTP.byteCount < ImageLen
        /\ Heard(net[c], kind, Len(Request.image) - curHTTP.byteCount)
    BY <1>1, <2>1, PostIs
  <2>3. Len(rx) <= curHTTP.byteCount
    BY <1>2, <2>2, UploadTakes
  <2>4. n = Len(rx)
    <3>1. n \in {Len(rx), curHTTP.byteCount} /\ n <= Len(rx) /\ n \in Nat
      BY <1>2, LesserOfTwo
    <3> HIDE DEF n
    <3> QED
      BY <1>2, <2>3, <3>1
  <2>5. rest = <<>>
    BY <1>2, <2>4, SubSeqEmpty
  <2> QED
    BY <2>1, <2>2, <2>5
<1> HIDE DEF rest, kind
<1>9. r \in Record /\ r.httpStatus = "MPFS_OK" /\ r.byteCount \in Nat
  <2> HIDE DEF m
  <2> QED
    BY <1>1, <1>2, <1>3, Zenon DEF Record
<1> HIDE DEF r
<1>10. CASE PostDone(c, r, rest, "SERVE_HEADERS")
  <2>1. ASSUME net[c].st = "open" PROVE Stage(fs', "SERVE_HEADERS", r, client[c])
    <3>1. Refused(r, "image")
      BY <1>9 DEF Refused, Answers
    <3>2. client[c].asked = "image" /\ client[c].answer = <<>>
      BY <1>8, <2>1 DEF kind
    <3> QED
      BY <3>1, <3>2, StageRefused
  <2> QED
    BY <1>1, <1>4, <1>6, <1>10, <2>1, PostEnds
<1>11. CASE r.byteCount # 0 /\ NeedData(c, r, rest)
  <2>1. net[c].st = "open" => r.byteCount > Len(rest) /\ Len(rest) < RxSize
    BY <1>8, <1>9, <1>11, HTTPAssumption
  <2> QED
    BY <1>1, <1>4, <1>6, <1>8, <1>9, <1>11, <2>1, PostNeeds
<1> QED
  BY <1>7, <1>10, <1>11

LEMMA UploadRefusedAnswers ==
  ASSUME PagesOK, HTTPInv, RequestInv, AnswerInv, ~ spoilt, NEW c \in Conns, UploadRefused(c)
  PROVE  AnswerInv'
<1> DEFINE m == Minus(curHTTP.byteCount, Ready(c))
           r == [curHTTP EXCEPT !.byteCount = m]
<1>1. /\ turn = <<c, "process">> /\ sm[c] = "PROCESS_POST" /\ UNCHANGED Loaded
      /\ client' = client /\ curHTTP.httpStatus = "MPFS_ERROR" /\ fs' = fs
  BY Zenon DEF UploadRefused, At
<1>2. /\ curHTTP \in Record /\ curHTTP.byteCount \in Nat /\ Ready(c) \in Nat
  <2>1. RecordOK(curHTTP) /\ net[c].rx \in Stream
    BY <1>1, AtWork DEF SocketOK, Socket
  <2> QED
    BY <2>1, LenProperties DEF Stream, RecordOK, Record, Ready
<1>3. m \in Nat
  BY <1>2, MinusIs
<1>4. \/ PostDone(c, r, <<>>, "SERVE_HEADERS")
      \/ r.byteCount # 0 /\ NeedData(c, r, <<>>)
  BY Zenon DEF UploadRefused
<1> HIDE DEF m
<1>5. r \in Record /\ r.httpStatus = "MPFS_ERROR" /\ r.byteCount \in Nat
  BY <1>1, <1>2, <1>3, Zenon DEF Record
<1> HIDE DEF r
<1>6. <<>> \in Stream /\ Len(<<>>) = 0
  BY DEF Stream
<1>7. \A d \in Conns : d # c => Kept(fs, fs', Records[d])
  BY <1>1, FilesStill
<1>8. net[c].st = "open" => /\ client[c].answer = <<>> /\ client[c].asked = "badimage"
                            /\ \A f, g : Stage(f, "PROCESS_POST", g, client[c])
  BY <1>1, UploadAtWork, PostIs
<1>9. CASE PostDone(c, r, <<>>, "SERVE_HEADERS")
  <2>1. Refused(r, "badimage")
    BY <1>5 DEF Refused, Answers
  <2>2. net[c].st = "open" => Stage(fs', "SERVE_HEADERS", r, client[c])
    BY <1>8, <2>1, StageRefused
  <2> QED
    BY <1>1, <1>6, <1>7, <1>9, <2>2, PostEnds
<1>10. CASE r.byteCount # 0 /\ NeedData(c, r, <<>>)
  <2>1. r.byteCount > Len(<<>>) /\ Len(<<>>) < RxSize
    BY <1>5, <1>6, <1>10, HTTPAssumption
  <2> QED
    BY <1>1, <1>5, <1>6, <1>7, <1>8, <1>10, <2>1, PostNeeds
<1> QED
  BY <1>4, <1>9, <1>10

LEMMA UploadStartAnswers ==
  ASSUME PagesOK, HTTPInv, RequestInv, AnswerInv, Unspoilt, NEW c \in Conns, UploadStart(c)
  PROVE  AnswerInv'
<1> DEFINE rx == net[c].rx
           starts == SelectInSeq(rx, IsStart)
           kind == client[c].asked
           first == [curHTTP EXCEPT !.byteCount = Minus(@, Len(rx))]
           second == [curHTTP EXCEPT !.byteCount = Minus(@, starts - 1)]
           third == [curHTTP EXCEPT !.byteCount = Minus(@, starts + 1),
                                    !.httpStatus = "MPFS_OK", !.file = 0]
           fourth == [curHTTP EXCEPT !.byteCount = Minus(@, starts + 1),
                                     !.httpStatus = "MPFS_ERROR"]
<1>1. /\ turn = <<c, "process">> /\ sm[c] = "PROCESS_POST" /\ UNCHANGED Loaded
      /\ curHTTP.httpStatus = "MPFS_UP" /\ client' = client /\ ~ spoilt
  BY Zenon DEF UploadStart, At, Unspoilt
<1>2. /\ curHTTP \in Record /\ rx \in Stream /\ net[c].ask \in Stream /\ Len(rx) \in Nat
      /\ curHTTP.byteCount \in Nat
  <2>1. RecordOK(curHTTP) /\ rx \in Stream /\ net[c].ask \in Stream
    BY <1>1, AtWork DEF SocketOK, Socket
  <2> QED
    BY <2>1, LenProperties DEF RecordOK, Record, Stream
<1>3. starts \in 0 .. Len(rx)
  BY <1>2, StartFirst
<1>4. net[c].st = "open" =>
        /\ \A f, g : Stage(f, "PROCESS_POST", g, client[c])
        /\ \/ /\ kind \in {"image", "badimage"} /\ Heard(net[c], kind, 3)
              /\ curHTTP.byteCount = ContentLength
           \/ kind = "nolength" /\ \E p \in 2 .. 3 : Heard(net[c], kind, p)
  <2>1. net[c].st = "open" => /\ AtPost(net[c], curHTTP, kind)
                              /\ \A f, g : Stage(f, "PROCESS_POST", g, client[c])
    BY <1>1, UploadAtWork
  <2>2. kind \in {"image", "badimage"} => BodyAt(kind) = 3 /\ CountAt(kind, 3) = ContentLength
    BY DEF BodyAt, LineAt, Measured, CountAt
  <2> QED
    BY <1>1, <2>1, <2>2, PostIs DEF AtBody, Counted
<1> HIDE DEF kind
<1>5. ContentLength \in Nat /\ ContentLength > 1 /\ RxSize \in Nat /\ RxSize > 1
  BY HTTPAssumption, MPFSAssumption DEF ContentLength
<1>6. \A d \in Conns : d # c => Kept(fs, fs', Records[d])
  <2>1. CASE fs' = fs
    BY <2>1, FilesStill
  <2>2. CASE fs' = MPFSPutArray(MPFSFormat(fs), <<"tag">>)
    <3>1. MPFSFormat(fs).locked /\ FilesOK(MPFSFormat(fs))
      BY FormatIs DEF HTTPInv
    <3>2. <<"tag">> \in Stream
      BY DEF Stream, Tokens
    <3>3. fs'.locked
      BY <2>2, <3>1, <3>2, PutArrayIs
    <3>4. OpenIn(fs) = {}
      BY <3>3 DEF Unspoilt
    <3> QED
      BY <3>4, NothingKept
  <2> QED
    BY <2>1, <2>2, Zenon DEF UploadStart
<1>7. \/ starts = 0 /\ NeedData(c, first, <<>>)
      \/ starts > 0 /\ starts = Len(rx) /\ NeedData(c, second, SubSeq(rx, starts, Len(rx)))
      \/ starts > 0 /\ starts < Len(rx) /\ Waiting(c, third, SubSeq(rx, starts + 2, Len(rx)))
      \/ starts > 0 /\ starts < Len(rx) /\ Waiting(c, fourth, SubSeq(rx, starts + 2, Len(rx)))
  BY Zenon DEF UploadStart
<1>8. CASE starts = 0 /\ NeedData(c, first, <<>>)
  <2> DEFINE n == Minus(curHTTP.byteCount, Len(rx))
  <2>1. n \in Nat
    BY <1>2, MinusIs
  <2>2. first \in Record /\ first.byteCount = n
    <3> HIDE DEF n
    <3>1. first = [curHTTP EXCEPT !.byteCount = n]
      BY DEF n
    <3> QED
      BY <1>2, <2>1, <3>1, Zenon DEF Record
  <2> HIDE DEF first
  <2>3. <<>> \in Stream /\ Len(<<>>) = 0
    BY DEF Stream
  <2>4. net[c].st = "open" => \/ first.byteCount > Len(<<>>) /\ Len(<<>>) < RxSize
                              \/ kind = "nolength"
    <3> SUFFICES ASSUME net[c].st = "open", kind # "nolength"
                 PROVE  first.byteCount > Len(<<>>) /\ Len(<<>>) < RxSize
      OBVIOUS
    <3>1. /\ kind \in {"image", "badimage"} /\ Heard(net[c], kind, 3)
          /\ curHTTP.byteCount = ContentLength
      BY <1>4
    <3>2. Len(rx) = 0
      BY <1>2, <1>8, <3>1, ImageStarts
    <3>3. n = ContentLength
      BY <3>1, <3>2, CountOfImage
    <3> HIDE DEF n
    <3> QED
      BY <1>5, <2>2, <2>3, <3>3
  <2> HIDE DEF n
  <2> QED
    BY <1>1, <1>4, <1>6, <1>8, <2>2, <2>3, <2>4, PostNeeds DEF kind
<1>9. CASE starts > 0 /\ starts = Len(rx) /\ NeedData(c, second, SubSeq(rx, starts, Len(rx)))
  <2> DEFINE n == Minus(curHTTP.byteCount, starts - 1)
             cut == SubSeq(rx, starts, Len(rx))
  <2>1. n \in Nat
    <3>1. starts - 1 \in Nat
      BY <1>2, <1>3, <1>9
    <3> QED
      BY <1>2, <3>1, MinusIs
  <2>2. second \in Record /\ second.byteCount = n
    <3> HIDE DEF n
    <3>1. second = [curHTTP EXCEPT !.byteCount = n]
      BY DEF n
    <3> QED
      BY <1>2, <2>1, <3>1, Zenon DEF Record
  <2> HIDE DEF second
  <2>3. cut \in Stream /\ Len(cut) = 1
    <3>1. starts \in 1 .. Len(rx)
      BY <1>2, <1>3, <1>9
    <3>2. cut = <<rx[starts]>> /\ rx[starts] \in Tokens
      BY <1>2, <1>9, <3>1, CutOne, ElementOfSeq DEF Stream
    <3> QED
      BY <3>2 DEF Stream
  <2>4. net[c].st = "open" => second.byteCount > Len(cut) /\ Len(cut) < RxSize
    <3> SUFFICES ASSUME net[c].st = "open"
                 PROVE  second.byteCount > Len(cut) /\ Len(cut) < RxSize
      OBVIOUS
    <3>1. /\ kind \in {"image", "badimage"} /\ Heard(net[c], kind, 3)
          /\ curHTTP.byteCount = ContentLength
      <4>1. ASSUME kind = "nolength", NEW p \in 2 .. 3, Heard(net[c], kind, p) PROVE FALSE
        <5>1. starts = 0
          BY <1>2, <4>1, NoImageStarts
        <5> QED
          BY <1>9, <5>1
      <4> QED
        BY <1>4, <4>1
    <3>2. starts \in 0 .. 1
      BY <1>2, <3>1, ImageStarts
    <3>3. starts - 1 = 0
      BY <1>9, <3>2
    <3>4. n = ContentLength
      BY <3>1, <3>3, CountOfImage
    <3> HIDE DEF n, cut
    <3> QED
      BY <1>5, <2>2, <2>3, <3>4
  <2>5. NeedData(c, second, cut)
    BY <1>9
  <2> HIDE DEF n, cut
  <2> QED
    BY <1>1, <1>4, <1>6, <2>2, <2>3, <2>4, <2>5, PostNeeds
<1>10. ASSUME starts > 0, starts < Len(rx), NEW record \in Record,
              Waiting(c, record, SubSeq(rx, starts + 2, Len(rx)))
       PROVE  AnswerInv'
  <2> DEFINE cut == SubSeq(rx, starts + 2, Len(rx))
  <2>1. cut \in Stream
    <3>1. starts + 1 \in 0 .. Len(rx) /\ (starts + 1) + 1 = starts + 2
      BY <1>2, <1>3, <1>10
    <3> QED
      BY <1>2, <3>1, PrefixIs
  <2>2. Waiting(c, record, cut)
    BY <1>10
  <2> HIDE DEF cut
  <2> QED
    BY <1>1, <1>4, <1>6, <2>1, <2>2, PostAwaits
<1>11. starts > 0 => Minus(curHTTP.byteCount, starts + 1) \in Nat
  <2>1. starts + 1 \in Nat
    BY <1>2, <1>3
  <2> QED
    BY <1>2, <2>1, MinusIs
<1>12. starts > 0 => third \in Record /\ fourth \in Record
  BY <1>2, <1>11, StatesAre, Zenon DEF Record, Status
<1> HIDE DEF third, fourth, starts, rx
<1> QED
  BY <1>7, <1>8, <1>9, <1>10, <1>12

LEMMA PostTimeoutAnswers ==
  ASSUME PagesOK, HTTPInv, RequestInv, AnswerInv, ~ spoilt, NEW c \in Conns, PostTimeout(c)
  PROVE  AnswerInv'
<1>1. /\ turn = <<c, "process">> /\ sm[c] = "PROCESS_POST" /\ Goto(c, "DISCONNECT")
      /\ net' = [net EXCEPT ![c] = TCPDisconnect(@)] /\ UNCHANGED <<Loaded, fs, client>>
  BY Zenon DEF PostTimeout, At
<1>2. sm[c] \in Unanswered
  BY <1>1 DEF Unanswered, Receiving
<1> QED
  BY <1>1, <1>2, GivenUp

\* What is done to one of the two files of a page is not done to the other.
LEMMA PageApart ==
  ASSUME PagesOK, NEW f, FilesOK(f), NEW h, NEW i, NEW p, NEW q,
         Reads(f, h, PageId, p), Reads(f, i, PageId + 1, q), NEW g
  PROVE  /\ h # i
         /\ Apart(f, g, {h}) => Reads(g, i, PageId + 1, q)
         /\ Apart(f, g, {i}) => Reads(g, h, PageId, p)
<1>1. PageId \in Ids /\ PageId + 1 \in Ids /\ PageId \in Nat
  BY HandlesAre DEF PagesOK
<1>2. h \in OpenIn(f) /\ f.stubs[h].id = PageId
  BY <1>1, ReadsOpen
<1>3. i \in OpenIn(f) /\ f.stubs[i].id = PageId + 1
  BY <1>1, ReadsOpen
<1>4. h # i
  BY <1>1, <1>2, <1>3
<1>5. ASSUME Apart(f, g, {h}) PROVE Reads(g, i, PageId + 1, q)
  BY <1>3, <1>4, <1>5 DEF Reads, Apart
<1>6. ASSUME Apart(f, g, {i}) PROVE Reads(g, h, PageId, p)
  BY <1>2, <1>4, <1>6 DEF Reads, Apart
<1> QED
  BY <1>4, <1>5, <1>6

\* The first offset of the index of a page, and what is left of it.
LEMMA FirstOffset ==
  ASSUME PagesOK, HTTPInv, NEW c \in Conns, turn = <<c, "process">>,
         Reads(fs, curHTTP.offsets, PageId + 1, 0),
         NEW g, g = MPFSGetArray(fs, curHTTP.offsets, 1)
  PROVE  /\ Apart(fs, g.fs, {curHTTP.offsets}) /\ Reads(g.fs, curHTTP.offsets, PageId + 1, 1)
         /\ \A next \in NextOffsets : next = 1
<1> DEFINE index == Fat[PageId + 1].data
           h == curHTTP.offsets
<1>1. FilesOK(fs) /\ PageId + 1 \in Ids
  BY DEF HTTPInv, PagesOK
<1>2. IsOpen(fs, h) /\ h # MPFS_INVALID_HANDLE /\ fs.stubs[h].id = PageId + 1 /\ fs.stubs[h].pos = 0
  BY <1>1, ReadsOpen
<1>3. Len(index) = 2 /\ SubSeq(index, 1, 1) = <<"offset">>
  BY PartsRead
<1> HIDE DEF index
<1>4. Remaining(fs, h) = 2
  <2>1. Remaining(fs, h) = Len(index) - 0
    BY <1>2, Zenon DEF Remaining, index
  <2> QED
    BY <1>3, <2>1
<1>5. PICK len \in 0 .. 1 :
        /\ 0 + len <= Len(index) /\ (len = 1 \/ 0 + len = Len(index))
        /\ g.data = SubSeq(index, 0 + 1, 0 + len) /\ Len(g.data) = len
        /\ Reads(g.fs, h, PageId + 1, 0 + len)
  <2>1. 1 \in Nat
    OBVIOUS
  <2> QED
    BY <1>1, <2>1, ReadIs DEF index
<1>6. Apart(fs, g.fs, {h})
  BY <1>1, ApartRead
<1>7. len = 1
  BY <1>3, <1>5
<1>8. g.data = <<"offset">> /\ Reads(g.fs, h, PageId + 1, 1)
  <2>1. 0 + 1 = 1 /\ 0 + len = 1
    BY <1>7
  <2> QED
    BY <1>3, <1>5, <2>1, Zenon
<1>9. ASSUME NEW next \in NextOffsets PROVE next = 1
  <2>1. next = Offset(Head(g.data))
    BY <1>2, <1>4 DEF NextOffsets
  <2>2. Head(g.data) = "offset"
    BY <1>8
  <2> QED
    BY <2>1, <2>2 DEF Offset
<1> QED
  BY <1>6, <1>8, <1>9

LEMMA ProcessRequestAnswers ==
  ASSUME PagesOK, HTTPInv, RequestInv, AnswerInv, ~ spoilt, NEW c \in Conns, ProcessRequest(c)
  PROVE  AnswerInv'
<1> DEFINE kind == client[c].asked
           g == MPFSGetArray(fs, curHTTP.offsets, 1)
<1>1. /\ turn = <<c, "process">> /\ sm[c] = "PROCESS_REQUEST" /\ Goto(c, "SERVE_HEADERS")
      /\ UNCHANGED Loaded /\ client' = client /\ net' = net
  BY Zenon DEF ProcessRequest, At
<1>2. net' = [net EXCEPT ![c] = net[c]] /\ curHTTP \in Record
  BY <1>1, StaysWhere, AtWork DEF RecordOK
<1>3. \A d \in Conns : d # c => Kept(fs, fs', Records[d])
  <2>1. Apart(fs, fs', Own(Records[c])) /\ Own(Records[c]) \subseteq Own(Records[c])
    BY ApartServe
  <2> QED
    BY <2>1, ApartKept
<1>4. ASSUME net[c].st = "open" PROVE Stage(fs', "SERVE_HEADERS", curHTTP', client[c])
  <2>1. /\ Stage(fs, "PROCESS_REQUEST", curHTTP, client[c])
        /\ Followed("PROCESS_REQUEST", net[c], curHTTP, kind)
    BY <1>1, <1>4, AnswerAtWork
  <2>2. FilesFound(fs, curHTTP, kind) /\ client[c].answer = <<>>
    BY <2>1, StageSays
  <2>3. AtRequest(curHTTP, kind)
    BY <2>1 DEF Followed
  <2>4. /\ kind = "page" => curHTTP.hasArgs
        /\ kind = "config" => curHTTP.httpStatus = "REDIRECT"
    BY <2>1 DEF Stage, WithArgs
  <2>5. CASE curHTTP.file = MPFS_INVALID_HANDLE
    <3>1. curHTTP' = [curHTTP EXCEPT !.httpStatus = "NOT_FOUND"]
      BY <2>5, Zenon DEF ProcessRequest
    <3>2. curHTTP'.httpStatus = "NOT_FOUND"
      BY <1>2, <3>1, Zenon DEF Record
    <3>3. kind \in {"nothing", "lost"}
      <4>1. kind \in {"page", "nothing", "config", "lost"}
        BY <2>3 DEF AtRequest
      <4>2. ASSUME NEW id \in Ids, Reads(fs, curHTTP.file, id, 0) PROVE FALSE
        BY <2>5, <4>2, ReadsOpen DEF HTTPInv
      <4>3. kind # "page" /\ kind # "config"
        BY <2>2, <4>2 DEF FilesFound, PagesOK
      <4> QED
        BY <4>1, <4>3
    <3>4. Refused(curHTTP', kind)
      BY <3>2, <3>3 DEF Refused, Answers
    <3> QED
      BY <2>2, <3>3, <3>4, StageRefused
  <2>6. CASE curHTTP.file # MPFS_INVALID_HANDLE
    <3>1. PICK next \in NextOffsets :
            curHTTP' = [curHTTP EXCEPT !.byteCount = 0, !.nextCallback = next]
      BY <2>6, Zenon DEF ProcessRequest
    <3>2. fs' = g.fs
      BY <2>6, Zenon DEF ProcessRequest
    <3>3. /\ curHTTP'.file = curHTTP.file /\ curHTTP'.offsets = curHTTP.offsets
          /\ curHTTP'.httpStatus = curHTTP.httpStatus /\ curHTTP'.byteCount = 0
          /\ curHTTP'.nextCallback = next /\ curHTTP'.hasArgs = curHTTP.hasArgs
      BY <1>2, <3>1, Zenon DEF Record
    <3>4. kind \in {"page", "config"}
      <4>1. kind \notin {"nothing", "lost"}
        BY <2>2, <2>6 DEF FilesFound
      <4> QED
        BY <2>3, <4>1 DEF AtRequest
    <3>5. CASE kind = "config"
      <4>1. curHTTP'.httpStatus = "REDIRECT"
        BY <2>4, <3>3, <3>5
      <4>2. Refused(curHTTP', kind)
        BY <3>5, <4>1 DEF Refused, Answers
      <4> QED
        BY <2>2, <3>5, <4>2, StageRefused
    <3>6. CASE kind = "page"
      <4>1. /\ Reads(fs, curHTTP.file, PageId, 0) /\ Reads(fs, curHTTP.offsets, PageId + 1, 0)
            /\ curHTTP.httpStatus = "GET"
        BY <2>2, <2>3, <3>6 DEF FilesFound, AtRequest
      <4>2. /\ Apart(fs, g.fs, {curHTTP.offsets}) /\ Reads(g.fs, curHTTP.offsets, PageId + 1, 1)
            /\ next = 1
        BY <1>1, <4>1, FirstOffset
      <4> HIDE DEF g
      <4>3. Reads(g.fs, curHTTP.file, PageId, 0)
        <5>1. FilesOK(fs)
          BY DEF HTTPInv
        <5> QED
          BY <4>1, <4>2, <5>1, PageApart
      <4>4. BeforePage(fs', curHTTP', client[c])
        BY <3>2, <3>3, <3>6, <4>1, <4>2, <4>3, Zenon DEF BeforePage, kind
      <4>5. curHTTP'.hasArgs
        BY <2>4, <3>3, <3>6
      <4> QED
        BY <2>2, <3>6, <4>4, <4>5 DEF Stage, kind, Headers, Unanswered
    <3> QED
      BY <3>4, <3>5, <3>6
  <2> QED
    BY <2>5, <2>6
<1> QED
  BY <1>1, <1>2, <1>3, <1>4, SilentWork

\* The status is all of the answer, or the first word of a page.
LEMMA ServeHeadersAnswers ==
  ASSUME PagesOK, HTTPInv, RequestInv, AnswerInv, ~ spoilt, NEW c \in Conns, ServeHeaders(c)
  PROVE  AnswerInv'
<1> DEFINE k == [net[c] EXCEPT !.rx = <<>>]
           status == curHTTP.httpStatus
           s == IF status \notin {"GET", "POST"} THEN "DISCONNECT"
                ELSE IF curHTTP.hasArgs THEN "SERVE_COOKIES" ELSE "SERVE_BODY"
<1>1. /\ turn = <<c, "process">> /\ sm[c] = "SERVE_HEADERS" /\ UNCHANGED Loaded
      /\ net' = [net EXCEPT ![c] = k] /\ Answer(c, <<status>>)
      /\ curHTTP' = curHTTP /\ fs' = fs
  BY Zenon DEF ServeHeaders, At
<1>2. Goto(c, s)
  BY Zenon DEF ServeHeaders
<1>3. <<status>> \in Seq(Words)
  <2>1. status \in Status
    BY <1>1, AtWork DEF RecordOK, Record
  <2> QED
    BY <2>1, WordsAre
<1>4. k.st = net[c].st /\ k.wasReset = net[c].wasReset
  <2>1. <<>> \in Stream
    BY DEF Stream
  <2> QED
    BY <2>1, SocketReads
<1>5. ASSUME NEW a, net[c].st = "open", a.asked = client[c].asked,
             a.answer = client[c].answer \o <<status>>
      PROVE  Stage(fs', s, curHTTP', a)
  <2>1. Stage(fs, "SERVE_HEADERS", curHTTP, client[c])
    BY <1>1, <1>5, AnswerAtWork
  <2>2. /\ client[c].answer = <<>>
        /\ BeforePage(fs, curHTTP, client[c]) \/ Refused(curHTTP, client[c].asked)
        /\ client[c].asked = "page" => curHTTP.hasArgs
    BY <2>1 DEF Stage, Unanswered, WithArgs
  <2>3. a.answer = <<status>>
    BY <1>3, <1>5, <2>2
  <2>4. CASE BeforePage(fs, curHTTP, client[c])
    <3>1. client[c].asked = "page" /\ status = "GET"
      BY <2>4, Zenon DEF BeforePage
    <3>2. s = "SERVE_COOKIES"
      BY <2>2, <3>1
    <3>3. a.answer = Shown(1)
      <4>1. Shown(0) \o <<Page[0 + 1]>> = Shown(0 + 1) /\ Shown(0) = <<>>
        BY ShownNext
      <4>2. Page[0 + 1] = "GET" /\ 0 + 1 = 1
        BY PageIs
      <4> QED
        BY <2>3, <3>1, <4>1, <4>2
    <3>4. BeforePage(fs', curHTTP', a)
      BY <1>1, <1>5, <2>4, Zenon DEF BeforePage
    <3>5. curHTTP'.hasArgs
      BY <1>1, <2>2, <3>1
    <3> HIDE DEF s
    <3> QED
      BY <1>5, <3>1, <3>2, <3>3, <3>4, <3>5 DEF Stage, Unanswered, Receiving, Headers
  <2>5. CASE Refused(curHTTP, client[c].asked)
    <3>1. s = "DISCONNECT" /\ a.answer \in Answers[a.asked]
      BY <1>5, <2>3, <2>5 DEF Refused
    <3> HIDE DEF s
    <3> QED
      BY <3>1 DEF Stage, Unanswered, Receiving, Headers, WithArgs
  <2> QED
    BY <2>2, <2>4, <2>5
<1> HIDE DEF k, s
<1> QED
  BY <1>1, <1>2, <1>3, <1>4, <1>5, FilesStill, TellingWork

LEMMA ServeCookiesAnswers ==
  ASSUME PagesOK, HTTPInv, RequestInv, AnswerInv, ~ spoilt, NEW c \in Conns, ServeCookies(c)
  PROVE  AnswerInv'
<1>1. /\ turn = <<c, "process">> /\ sm[c] = "SERVE_COOKIES" /\ UNCHANGED Loaded
      /\ net' = net /\ Answer(c, <<"cookie">>) /\ Goto(c, "SERVE_BODY")
      /\ curHTTP' = [curHTTP EXCEPT !.hasArgs = FALSE] /\ fs' = fs
  BY Zenon DEF ServeCookies, At
<1>2. net' = [net EXCEPT ![c] = net[c]] /\ <<"cookie">> \in Seq(Words)
  BY <1>1, StaysWhere, WordsAre
<1>3. /\ curHTTP'.file = curHTTP.file /\ curHTTP'.offsets = curHTTP.offsets
      /\ curHTTP'.httpStatus = curHTTP.httpStatus /\ curHTTP'.byteCount = curHTTP.byteCount
      /\ curHTTP'.nextCallback = curHTTP.nextCallback
  BY <1>1, AtWork, Zenon DEF RecordOK, Record
<1>4. ASSUME NEW a, net[c].st = "open", a.asked = client[c].asked,
             a.answer = client[c].answer \o <<"cookie">>
      PROVE  Stage(fs', "SERVE_BODY", curHTTP', a)
  <2>1. BeforePage(fs, curHTTP, client[c]) /\ client[c].answer = Shown(1)
    <3>1. Stage(fs, "SERVE_COOKIES", curHTTP, client[c])
      BY <1>1, <1>4, AnswerAtWork
    <3> QED
      BY <3>1 DEF Stage
  <2>2. a.answer = Shown(2)
    <3>1. Shown(1) \o <<Page[1 + 1]>> = Shown(1 + 1)
      BY ShownNext
    <3>2. Page[1 + 1] = "cookie" /\ 1 + 1 = 2
      BY PageIs
    <3> QED
      BY <1>4, <2>1, <3>1, <3>2
  <2>3. BeforePage(fs', curHTTP', a)
    BY <1>1, <1>3, <1>4, <2>1, Zenon DEF BeforePage
  <2> QED
    BY <2>2, <2>3 DEF Stage, Unanswered, Receiving, Headers, WithArgs
<1> QED
  BY <1>1, <1>2, <1>4, FilesStill, TellingWork

-----------------------------------------------------------------------------
(* The page is sent.                                                        *)

\* How much of a page is asked for: nothing of it lies behind the end, and
\* before the variable no more than one word.
LEMMA WantedIs ==
  ASSUME HTTPInv, NEW c \in Conns, turn = <<c, "process">>
  PROVE  /\ curHTTP.byteCount = 0 /\ curHTTP.nextCallback = 1 =>
              /\ Wanted(c) \in 0 .. 1 /\ Sent(c) = Wanted(c)
         /\ curHTTP.byteCount \in 2 .. MaxCount => Sent(c) \in 2 .. MaxCount
<1>1. PutReady(c) \in Nat /\ Wanted(c) \in Nat /\ MaxCount = 8
  BY SendsWhat DEF MaxCount
<1>2. ASSUME curHTTP.byteCount = 0, curHTTP.nextCallback = 1
      PROVE  Wanted(c) \in 0 .. 1 /\ Sent(c) = Wanted(c)
  <2> DEFINE m == Min({PutReady(c), 1})
             n == Min({Wanted(c), 8})
  <2>1. m \in Nat /\ m <= 1
    BY <1>1, LesserOfTwo
  <2>2. Wanted(c) = m
    <3>1. ~ (1 < 0) /\ 1 - 0 = 1
      OBVIOUS
    <3> QED
      BY <1>2, <3>1 DEF Wanted
  <2> HIDE DEF m
  <2>3. Wanted(c) \in 0 .. 1
    BY <2>1, <2>2
  <2>4. n \in {Wanted(c), 8} /\ n <= Wanted(c)
    BY <1>1, LesserOfTwo
  <2>5. Sent(c) = n
    <3>1. 0 + Wanted(c) = Wanted(c)
      BY <1>1
    <3> QED
      BY <1>1, <1>2, <3>1 DEF Sent
  <2> HIDE DEF n
  <2>6. n = Wanted(c)
    BY <2>3, <2>4
  <2> QED
    BY <2>3, <2>5, <2>6
<1>3. ASSUME curHTTP.byteCount \in 2 .. MaxCount PROVE Sent(c) \in 2 .. MaxCount
  <2> DEFINE total == curHTTP.byteCount + Wanted(c)
             n == Min({total, MaxCount})
  <2>1. total \in Nat /\ total >= 2
    BY <1>1, <1>3
  <2>2. Sent(c) = n
    BY DEF Sent
  <2> HIDE DEF total
  <2>3. n \in {total, MaxCount} /\ n <= MaxCount /\ n \in Nat
    BY <1>1, <2>1, LesserOfTwo
  <2> HIDE DEF n
  <2> QED
    BY <1>1, <2>1, <2>2, <2>3
<1> QED
  BY <1>2, <1>3

\* A page is read before its variable.
LEMMA ReadsBefore ==
  ASSUME PagesOK, HTTPInv, NEW c \in Conns, turn = <<c, "process">>, NEW a,
         BeforePage(fs, curHTTP, a), NEW n \in 0 .. 1, NEW g, g = MPFSGetArray(fs, curHTTP.file, n)
  PROVE  /\ FilesOK(g.fs) /\ Len(g.data) = n /\ g.data = IF n = 0 THEN <<>> ELSE <<"head">>
         /\ Reads(g.fs, curHTTP.file, PageId, n) /\ Reads(g.fs, curHTTP.offsets, PageId + 1, 1)
<1> DEFINE data == Fat[PageId].data
<1>1. /\ Reads(fs, curHTTP.file, PageId, 0) /\ Reads(fs, curHTTP.offsets, PageId + 1, 1)
  BY Zenon DEF BeforePage
<1>2. FilesOK(fs) /\ PageId \in Ids /\ PageId + 1 \in Ids /\ n \in Nat
  BY DEF HTTPInv, PagesOK
<1>3. Len(data) = 4 /\ SubSeq(data, 1, 1) = <<"head">>
  BY PageRead
<1> HIDE DEF data
<1>4. /\ FilesOK(g.fs) /\ Apart(fs, g.fs, {curHTTP.file}) /\ data \in Seq(Chunks)
      /\ \E len \in 0 .. n :
           /\ 0 + len <= Len(data) /\ (len = n \/ 0 + len = Len(data))
           /\ g.data = SubSeq(data, 0 + 1, 0 + len) /\ Len(g.data) = len
           /\ Reads(g.fs, curHTTP.file, PageId, 0 + len)
  BY <1>1, <1>2, ReadIs DEF data
<1>5. PICK len \in 0 .. n :
        /\ 0 + len <= Len(data) /\ (len = n \/ 0 + len = Len(data))
        /\ g.data = SubSeq(data, 0 + 1, 0 + len) /\ Len(g.data) = len
        /\ Reads(g.fs, curHTTP.file, PageId, 0 + len)
  BY <1>4
<1>6. len = n /\ 0 + len = n /\ 0 + 1 = 1
  BY <1>3, <1>5
<1>7. Len(g.data) = n /\ g.data = SubSeq(data, 1, n) /\ Reads(g.fs, curHTTP.file, PageId, n)
  BY <1>5, <1>6, Zenon
<1>8. g.data = IF n = 0 THEN <<>> ELSE <<"head">>
  <2>1. CASE n = 0
    <3>1. 0 \in 0 .. Len(data) /\ 0 + 1 = 1
      BY <1>3
    <3>2. SubSeq(data, 0 + 1, 0) = <<>>
      BY <1>4, <3>1, NothingCut
    <3> QED
      BY <1>7, <2>1, <3>1, <3>2
  <2>2. CASE n # 0
    <3>1. n = 1
      BY <2>2
    <3> QED
      BY <1>3, <1>7, <3>1
  <2> QED
    BY <2>1, <2>2
<1>9. Reads(g.fs, curHTTP.offsets, PageId + 1, 1)
  BY <1>1, <1>2, <1>4, PageApart
<1> QED
  BY <1>4, <1>7, <1>8, <1>9

\* Before its variable a page does not end, behind it the rest of it is sent.
LEMMA SendLastAnswers ==
  ASSUME PagesOK, HTTPInv, RequestInv, AnswerInv, ~ spoilt, NEW c \in Conns, SendLast(c)
  PROVE  AnswerInv'
<1> DEFINE n == Wanted(c)
           g == MPFSGetArray(fs, curHTTP.file, n)
<1>1. /\ turn = <<c, "process">> /\ sm[c] = "SERVE_BODY" /\ UNCHANGED Loaded
      /\ Goto(c, "DISCONNECT") /\ Answer(c, g.data) /\ Fill(c, Len(g.data)) /\ Len(g.data) < n
  BY Zenon DEF SendLast, At, Got
<1>2. n \in Nat /\ g.data \in Seq(Words)
  BY <1>1, SendsWhat, WordsAre DEF Got
<1>3. PICK k : net' = [net EXCEPT ![c] = k] /\ k.st = net[c].st /\ k.wasReset = net[c].wasReset
  BY <1>1, FillIs
<1>4. \A d \in Conns : d # c => Kept(fs, fs', Records[d])
  <2>1. Apart(fs, fs', Own(Records[c])) /\ Own(Records[c]) \subseteq Own(Records[c])
    BY ApartServe
  <2> QED
    BY <2>1, ApartKept
<1>5. ASSUME NEW a, net[c].st = "open", a.asked = client[c].asked,
             a.answer = client[c].answer \o g.data
      PROVE  Stage(fs', "DISCONNECT", curHTTP', a)
  <2>1. Stage(fs, "SERVE_BODY", curHTTP, client[c])
    BY <1>1, <1>5, AnswerAtWork
  <2>2. ~ BeforePage(fs, curHTTP, client[c])
    <3> SUFFICES ASSUME BeforePage(fs, curHTTP, client[c]) PROVE FALSE
      OBVIOUS
    <3>1. n \in 0 .. 1
      BY <1>1, WantedIs DEF BeforePage
    <3> HIDE DEF n
    <3>2. Len(g.data) = n
      BY <1>1, <3>1, ReadsBefore
    <3> HIDE DEF g
    <3> QED
      BY <1>1, <1>2, <3>2
  <2>3. BehindVariable(fs, curHTTP, client[c])
    BY <2>1, <2>2 DEF Stage
  <2>4. PICK pos \in 2 .. 4 : Reads(fs, curHTTP.file, PageId, pos) /\ client[c].answer = Shown(pos + 2)
    BY <2>3 DEF BehindVariable
  <2> HIDE DEF n
  <2> DEFINE data == Fat[PageId].data
  <2>5. FilesOK(fs) /\ PageId \in Ids
    BY DEF HTTPInv, PagesOK
  <2>6. PICK len \in 0 .. n :
          /\ pos + len <= Len(data) /\ (len = n \/ pos + len = Len(data))
          /\ g.data = SubSeq(data, pos + 1, pos + len) /\ Len(g.data) = len
    <3>1. n \in Nat /\ Reads(fs, curHTTP.file, PageId, pos)
      BY <1>2, <2>4
    <3>2. \E len \in 0 .. n :
            /\ pos + len <= Len(data) /\ (len = n \/ pos + len = Len(data))
            /\ g.data = SubSeq(data, pos + 1, pos + len) /\ Len(g.data) = len
            /\ Reads(g.fs, curHTTP.file, PageId, pos + len)
      BY <2>5, <3>1, ReadIs
    <3> QED
      BY <3>2
  <2>7. /\ Len(data) = 4
        /\ \A p \in 2 .. 4, l \in 0 .. 4 :
             p + l <= 4 => Shown(p + 2) \o SubSeq(data, p + 1, p + l) = Shown(p + l + 2)
    BY PageRead
  <2> HIDE DEF data, g
  <2>8. len # n
    BY <1>1, <1>2, <2>6
  <2>9. pos + len = 4 /\ len \in 0 .. 4 /\ pos + len <= 4 /\ pos + len + 2 = 6
    BY <2>6, <2>7, <2>8
  <2>10. a.answer = Shown(6)
    BY <1>5, <2>4, <2>6, <2>7, <2>9, Zenon
  <2>11. a.answer \in Answers[a.asked]
    <3>1. a.asked = "page"
      BY <1>5, <2>3, Zenon DEF BehindVariable
    <3>2. Shown(6) = Page
      BY ShownNext
    <3> QED
      BY <2>10, <3>1, <3>2 DEF Answers
  <2> QED
    BY <2>11 DEF Stage, Unanswered, Receiving, Headers, WithArgs
<1> HIDE DEF g, n
<1> QED
  BY <1>1, <1>2, <1>3, <1>4, <1>5, TellingWork

\* Nothing of the page is sent yet, or more of what comes behind its variable.
LEMMA SendSomeAnswers ==
  ASSUME PagesOK, HTTPInv, RequestInv, AnswerInv, ~ spoilt, NEW c \in Conns, SendSome(c)
  PROVE  AnswerInv'
<1> DEFINE n == Wanted(c)
           g == MPFSGetArray(fs, curHTTP.file, n)
<1>1. /\ turn = <<c, "process">> /\ sm[c] = "SERVE_BODY" /\ UNCHANGED Loaded
      /\ UNCHANGED sm /\ Answer(c, g.data) /\ Fill(c, n) /\ Len(g.data) = n
      /\ Sent(c) # curHTTP.nextCallback
      /\ fs' = g.fs /\ curHTTP' = [curHTTP EXCEPT !.byteCount = Sent(c)]
  BY Zenon DEF SendSome, At, Got
<1>2. n \in Nat /\ g.data \in Seq(Words)
  BY <1>1, SendsWhat, WordsAre DEF Got
<1>3. PICK k : net' = [net EXCEPT ![c] = k] /\ k.st = net[c].st /\ k.wasReset = net[c].wasReset
  BY <1>1, FillIs
<1>4. \A d \in Conns : d # c => Kept(fs, fs', Records[d])
  <2>1. Apart(fs, fs', Own(Records[c])) /\ Own(Records[c]) \subseteq Own(Records[c])
    BY ApartServe
  <2> QED
    BY <2>1, ApartKept
<1>5. /\ curHTTP'.file = curHTTP.file /\ curHTTP'.offsets = curHTTP.offsets
      /\ curHTTP'.httpStatus = curHTTP.httpStatus /\ curHTTP'.byteCount = Sent(c)
      /\ curHTTP'.nextCallback = curHTTP.nextCallback
  BY <1>1, AtWork, Zenon DEF RecordOK, Record
<1>6. ASSUME NEW a, net[c].st = "open", a.asked = client[c].asked,
             a.answer = client[c].answer \o g.data
      PROVE  Stage(fs', "SERVE_BODY", curHTTP', a)
  <2>1. Stage(fs, "SERVE_BODY", curHTTP, client[c])
    BY <1>1, <1>6, AnswerAtWork
  <2>2. CASE BeforePage(fs, curHTTP, client[c]) /\ client[c].answer = Shown(2)
    <3>1. n \in 0 .. 1 /\ Sent(c) = n /\ curHTTP.nextCallback = 1
      BY <1>1, <2>2, WantedIs DEF BeforePage
    <3> HIDE DEF n
    <3>2. n = 0
      BY <1>1, <3>1
    <3>3. /\ g.data = <<>>
          /\ Reads(g.fs, curHTTP.file, PageId, 0) /\ Reads(g.fs, curHTTP.offsets, PageId + 1, 1)
      BY <1>1, <2>2, <3>1, <3>2, ReadsBefore
    <3> HIDE DEF g
    <3>4. a.answer = Shown(2)
      BY <1>6, <2>2, <3>3, ShownNext
    <3>5. BeforePage(fs', curHTTP', a)
      BY <1>1, <1>5, <1>6, <2>2, <3>1, <3>2, <3>3, Zenon DEF BeforePage
    <3> QED
      BY <3>4, <3>5 DEF Stage, Unanswered, Receiving, Headers, WithArgs
  <2>3. CASE BehindVariable(fs, curHTTP, client[c])
    <3>1. PICK pos \in 2 .. 4 :
            Reads(fs, curHTTP.file, PageId, pos) /\ client[c].answer = Shown(pos + 2)
      BY <2>3 DEF BehindVariable
    <3> HIDE DEF n
    <3> DEFINE data == Fat[PageId].data
    <3>2. FilesOK(fs) /\ PageId \in Ids
      BY DEF HTTPInv, PagesOK
    <3>3. PICK len \in 0 .. n :
            /\ pos + len <= Len(data)
            /\ g.data = SubSeq(data, pos + 1, pos + len)
            /\ Reads(g.fs, curHTTP.file, PageId, pos + len)
      BY <1>2, <3>1, <3>2, ReadIs
    <3>4. /\ Len(data) = 4
          /\ \A p \in 2 .. 4, l \in 0 .. 4 :
               p + l <= 4 => Shown(p + 2) \o SubSeq(data, p + 1, p + l) = Shown(p + l + 2)
      BY PageRead
    <3> HIDE DEF data, g
    <3>5. len \in 0 .. 4 /\ pos + len <= 4 /\ pos + len \in 2 .. 4
      BY <1>2, <3>3, <3>4
    <3>6. a.answer = Shown(pos + len + 2)
      BY <1>6, <3>1, <3>3, <3>4, <3>5, Zenon
    <3>7. curHTTP'.byteCount \in 2 .. MaxCount
      BY <1>1, <1>5, <2>3, WantedIs DEF BehindVariable
    <3>8. a.asked = "page" /\ curHTTP'.nextCallback = Never
      BY <1>5, <1>6, <2>3, Zenon DEF BehindVariable
    <3>9. Reads(fs', curHTTP'.file, PageId, pos + len)
      BY <1>1, <1>5, <3>3, Zenon
    <3>10. BehindVariable(fs', curHTTP', a)
      BY <3>5, <3>6, <3>7, <3>8, <3>9, Zenon DEF BehindVariable
    <3> QED
      BY <3>10 DEF Stage, Unanswered, Receiving, Headers, WithArgs
  <2> QED
    BY <2>1, <2>2, <2>3 DEF Stage
<1> HIDE DEF g, n
<1> QED
  BY <1>1, <1>2, <1>3, <1>4, <1>6, TellingWork

\* The variable is reached: its name, and all of the index, are read.
LEMMA SendToCallbackAnswers ==
  ASSUME PagesOK, HTTPInv, RequestInv, AnswerInv, ~ spoilt, NEW c \in Conns, SendToCallback(c)
  PROVE  AnswerInv'
<1> DEFINE n == Wanted(c)
           g == MPFSGetArray(fs, curHTTP.file, n)
           over == MPFSGetArray(g.fs, curHTTP.file, 1)
           index == MPFSGetArray(over.fs, curHTTP.offsets, 2)
           more == Len(index.data) = 2
<1>1. /\ turn = <<c, "process">> /\ sm[c] = "SERVE_BODY" /\ UNCHANGED Loaded
      /\ Goto(c, "SEND_FROM_CALLBACK") /\ Answer(c, g.data) /\ Fill(c, n) /\ Len(g.data) = n
      /\ Sent(c) = curHTTP.nextCallback
  BY Zenon DEF SendToCallback, At, Got
<1>2. /\ fs' = IF more THEN index.fs ELSE MPFSClose(index.fs, curHTTP.offsets)
      /\ curHTTP' = [curHTTP EXCEPT !.byteCount = Sent(c) + 1,
                       !.callbackPos = [id |-> 0, pos |-> 0],
                       !.callbackID = IF index.data = <<>> THEN @ ELSE Head(index.data),
                       !.nextCallback = IF more THEN Offset(index.data[2]) ELSE Never,
                       !.offsets = IF more THEN @ ELSE MPFS_INVALID_HANDLE]
  BY Zenon DEF SendToCallback, Got
<1>3. n \in Nat /\ g.data \in Seq(Words) /\ curHTTP \in Record
  BY <1>1, SendsWhat, WordsAre, AtWork DEF Got, RecordOK
<1>4. PICK k : net' = [net EXCEPT ![c] = k] /\ k.st = net[c].st /\ k.wasReset = net[c].wasReset
  BY <1>1, FillIs
<1>5. \A d \in Conns : d # c => Kept(fs, fs', Records[d])
  <2>1. Apart(fs, fs', Own(Records[c])) /\ Own(Records[c]) \subseteq Own(Records[c])
    BY ApartServe
  <2> QED
    BY <2>1, ApartKept
<1>6. ASSUME NEW a, net[c].st = "open", a.asked = client[c].asked,
             a.answer = client[c].answer \o g.data
      PROVE  Stage(fs', "SEND_FROM_CALLBACK", curHTTP', a)
  <2>1. Stage(fs, "SERVE_BODY", curHTTP, client[c])
    BY <1>1, <1>6, AnswerAtWork
  <2>2. ~ BehindVariable(fs, curHTTP, client[c])
    <3> SUFFICES ASSUME BehindVariable(fs, curHTTP, client[c]) PROVE FALSE
      OBVIOUS
    <3>1. Sent(c) \in 2 .. MaxCount /\ curHTTP.nextCallback = Never
      BY <1>1, WantedIs DEF BehindVariable
    <3> QED
      BY <1>1, <3>1 DEF MaxCount, Never
  <2>3. BeforePage(fs, curHTTP, client[c]) /\ client[c].answer = Shown(2)
    BY <2>1, <2>2 DEF Stage
  <2>4. n \in 0 .. 1 /\ Sent(c) = n /\ curHTTP.nextCallback = 1
    BY <1>1, <2>3, WantedIs DEF BeforePage
  <2> HIDE DEF n
  <2>5. n = 1 /\ Sent(c) = 1
    BY <1>1, <2>4
  <2>6. /\ FilesOK(g.fs) /\ g.data = <<"head">>
        /\ Reads(g.fs, curHTTP.file, PageId, 1) /\ Reads(g.fs, curHTTP.offsets, PageId + 1, 1)
    BY <1>1, <2>3, <2>4, <2>5, ReadsBefore
  <2> HIDE DEF g
  <2>7. PageId \in Ids /\ PageId + 1 \in Ids
    BY DEF PagesOK
  <2> DEFINE data == Fat[PageId].data
             parts == Fat[PageId + 1].data
  <2>8. /\ FilesOK(over.fs) /\ Reads(over.fs, curHTTP.file, PageId, 2)
        /\ Reads(over.fs, curHTTP.offsets, PageId + 1, 1)
    <3>1. 1 \in Nat
      OBVIOUS
    <3>2. /\ FilesOK(over.fs) /\ Apart(g.fs, over.fs, {curHTTP.file})
          /\ \E len \in 0 .. 1 :
               /\ 1 + len <= Len(data) /\ (len = 1 \/ 1 + len = Len(data))
               /\ over.data = SubSeq(data, 1 + 1, 1 + len) /\ Len(over.data) = len
               /\ Reads(over.fs, curHTTP.file, PageId, 1 + len)
      BY <2>6, <2>7, <3>1, ReadIs
    <3>3. Len(data) = 4
      BY PageRead
    <3> HIDE DEF data, over
    <3>4. PICK len \in 0 .. 1 : /\ (len = 1 \/ 1 + len = Len(data))
                                /\ Reads(over.fs, curHTTP.file, PageId, 1 + len)
      BY <3>2
    <3>5. 1 + len = 2
      BY <3>3, <3>4
    <3>6. Reads(over.fs, curHTTP.file, PageId, 2)
      BY <3>4, <3>5, Zenon
    <3>7. Reads(over.fs, curHTTP.offsets, PageId + 1, 1)
      BY <2>6, <3>2, PageApart
    <3> QED
      BY <3>2, <3>6, <3>7
  <2> HIDE DEF over
  <2>9. /\ FilesOK(index.fs) /\ index.data = <<"part">> /\ Len(index.data) = 1
        /\ Reads(index.fs, curHTTP.file, PageId, 2)
        /\ Reads(index.fs, curHTTP.offsets, PageId + 1, 2)
    <3>1. 2 \in Nat
      OBVIOUS
    <3>2. /\ FilesOK(index.fs) /\ Apart(over.fs, index.fs, {curHTTP.offsets})
          /\ \E len \in 0 .. 2 :
               /\ 1 + len <= Len(parts) /\ (len = 2 \/ 1 + len = Len(parts))
               /\ index.data = SubSeq(parts, 1 + 1, 1 + len) /\ Len(index.data) = len
               /\ Reads(index.fs, curHTTP.offsets, PageId + 1, 1 + len)
      BY <2>7, <2>8, <3>1, ReadIs
    <3>3. Len(parts) = 2 /\ SubSeq(parts, 2, 2) = <<"part">>
      BY PartsRead
    <3> HIDE DEF parts, index
    <3>4. PICK len \in 0 .. 2 :
               /\ 1 + len <= Len(parts) /\ (len = 2 \/ 1 + len = Len(parts))
               /\ index.data = SubSeq(parts, 1 + 1, 1 + len) /\ Len(index.data) = len
               /\ Reads(index.fs, curHTTP.offsets, PageId + 1, 1 + len)
      BY <3>2
    <3>5. len = 1 /\ 1 + len = 2 /\ 1 + 1 = 2
      BY <3>3, <3>4
    <3>6. /\ index.data = <<"part">> /\ Len(index.data) = 1
          /\ Reads(index.fs, curHTTP.offsets, PageId + 1, 2)
      BY <3>3, <3>4, <3>5, Zenon
    <3>7. Reads(index.fs, curHTTP.file, PageId, 2)
      BY <2>8, <3>2, PageApart
    <3> QED
      BY <3>2, <3>6, <3>7
  <2> HIDE DEF index
  <2>10. ~ more /\ index.data # <<>> /\ Head(index.data) = "part"
    BY <2>9
  <2> HIDE DEF more
  <2>11. Reads(fs', curHTTP.file, PageId, 2)
    <3>1. fs' = MPFSClose(index.fs, curHTTP.offsets)
      BY <1>2, <2>10, Zenon
    <3>2. Apart(index.fs, fs', {curHTTP.offsets})
      BY <2>9, <3>1, ApartClosed
    <3> QED
      BY <2>9, <3>2, PageApart
  <2>12. /\ curHTTP'.file = curHTTP.file /\ curHTTP'.callbackID = "part"
         /\ curHTTP'.nextCallback = Never /\ curHTTP'.offsets = MPFS_INVALID_HANDLE
    BY <1>2, <1>3, <2>10, Zenon DEF Record
  <2>13. curHTTP'.byteCount = Sent(c) + 1 /\ curHTTP'.callbackPos = [id |-> 0, pos |-> 0]
    BY <1>2, <1>3, Zenon DEF Record
  <2>14. curHTTP'.byteCount = 2 /\ curHTTP'.callbackPos.pos = 0
    BY <2>5, <2>13
  <2>15. a.answer = Shown(3) /\ a.asked = "page"
    <3>1. Shown(2) \o <<Page[2 + 1]>> = Shown(2 + 1)
      BY ShownNext
    <3>2. Page[2 + 1] = "head" /\ 2 + 1 = 3
      BY PageIs
    <3>3. a.asked = "page"
      BY <1>6, <2>3, Zenon DEF BeforePage
    <3> QED
      BY <1>6, <2>3, <2>6, <3>1, <3>2, <3>3
  <2>16. AtVariable(fs', curHTTP', a)
    BY <2>11, <2>12, <2>14, <2>15, Zenon DEF AtVariable
  <2> QED
    BY <2>16 DEF Stage, Unanswered, Receiving, Headers, WithArgs
<1> HIDE DEF index, over, g, n, more
<1> QED
  BY <1>1, <1>3, <1>4, <1>5, <1>6, TellingWork

-----------------------------------------------------------------------------
(* The variable of the page.                                                *)

LEMMA CallbackUnknownAnswers ==
  ASSUME PagesOK, HTTPInv, RequestInv, AnswerInv, ~ spoilt, NEW c \in Conns, CallbackUnknown(c)
  PROVE  AnswerInv'
<1>1. /\ turn = <<c, "process">> /\ sm[c] = "SEND_FROM_CALLBACK" /\ UNCHANGED Loaded
      /\ curHTTP.callbackID = "none" /\ Goto(c, "SERVE_BODY") /\ Answer(c, <<"!DEF">>)
      /\ Fill(c, 1) /\ fs' = fs
  BY Zenon DEF CallbackUnknown, At
<1>2. PICK k : net' = [net EXCEPT ![c] = k] /\ k.st = net[c].st /\ k.wasReset = net[c].wasReset
  BY <1>1, FillIs
<1>3. net[c].st # "open"
  <2> SUFFICES ASSUME net[c].st = "open" PROVE FALSE
    OBVIOUS
  <2>1. Stage(fs, "SEND_FROM_CALLBACK", curHTTP, client[c])
    BY <1>1, AnswerAtWork
  <2> QED
    BY <1>1, <2>1 DEF Stage, AtVariable
<1> QED
  BY <1>1, <1>2, <1>3, WordsAre, FilesStill, TellingWork

\* The part that a variable stands for is always there to be opened.
LEMMA PartOpens ==
  ASSUME PagesOK, HandlesSuffice, HTTPInv, TagInv, ~ spoilt, NEW c \in Conns,
         turn = <<c, "process">>, NEW a, AtVariable(fs, curHTTP, a),
         NEW at, at = curHTTP.callbackPos.pos,
         NEW open, open = MPFSSeek(Included.fs, Included.h, at)
  PROVE  /\ Included.h # MPFS_INVALID_HANDLE /\ FilesOK(open)
         /\ Reads(open, Included.h, IdOf("part"), at)
         /\ at \in 0 .. 1
<1> DEFINE id == IdOf("part")
           r == Included
           h == Included.h
<1>1. /\ FilesOK(fs) /\ fs.numFiles = Len(Fat) /\ id \in Ids /\ PageId \in Ids
      /\ Shared(OpenIn(fs), Records)
  BY DEF HTTPInv, TagInv, PagesOK
<1>2. ~ fs.locked
  <2>1. Reads(fs, curHTTP.file, PageId, 2)
    BY Zenon DEF AtVariable
  <2> QED
    BY <1>1, <2>1, ReadsOpen
<1>3. PICK i \in Handles : i # MAX_MPFS_HANDLES /\ i \notin OpenIn(fs)
  <2>1. \A i \in OpenIn(fs) : \E d \in Conns : i \in Own(Records[d])
    BY <1>1 DEF Shared, HandlesOf, Own
  <2>2. Records[c].offsets = MPFS_INVALID_HANDLE
    BY AtWork, Zenon DEF AtVariable
  <2> QED
    BY <2>1, <2>2, HandleLeft
<1>4. ~ IsOpen(fs, i)
  BY <1>3 DEF OpenIn
<1>5. at \in 0 .. 1 /\ (~ FirstCall => curHTTP.callbackPos.id = id) /\ curHTTP.callbackID = "part"
  <2>1. CASE curHTTP.callbackPos.pos = 0
    <3>1. 0 \in 0 .. 1
      OBVIOUS
    <3> QED
      BY <2>1, <3>1, Zenon DEF AtVariable, FirstCall
  <2>2. CASE curHTTP.callbackPos = [id |-> id, pos |-> 1]
    BY <2>2 DEF AtVariable
  <2> QED
    BY <2>1, <2>2 DEF AtVariable
<1>6. r = Opened(fs, id)
  BY <1>5, Zenon DEF Included, MPFSOpen, MPFSOpenID
<1> HIDE DEF id, r, h
<1>7. OpenDone(fs, id, r) /\ Reads(r.fs, r.h, id, 0) /\ FilesOK(r.fs)
  BY <1>1, <1>2, <1>3, <1>4, <1>6, OpenFinds
<1>8. IsOpen(r.fs, r.h) /\ r.h # MPFS_INVALID_HANDLE /\ r.h \in Handles /\ r.fs.stubs[r.h].id = id
  BY <1>1, <1>7, ReadsOpen
<1>9. at \in Nat /\ at <= Size(id)
  <2>1. Size(id) = 1
    <3>1. Len(Fat[id].data) = 1
      BY PartsRead DEF id
    <3>2. id # 0
      BY <1>1, HandlesAre
    <3> QED
      BY <3>1, <3>2 DEF Size
  <2> QED
    BY <1>5, <2>1
<1>10. open = MPFSSeek(r.fs, r.h, at)
  BY DEF r
<1>11. FilesOK(open) /\ IsOpen(open, r.h) /\ open.stubs[r.h].id = id /\ open.stubs[r.h].pos = at
  BY <1>7, <1>8, <1>9, <1>10, SeekIs
<1>12. open.stubs[r.h] = [id |-> id, pos |-> at]
  <2>1. open.stubs[r.h] \in File
    BY <1>8, <1>11, OpenHasFile
  <2> QED
    BY <1>11, <2>1 DEF File
<1> QED
  BY <1>5, <1>8, <1>11, <1>12 DEF Reads, r, id

\* What is read of the part, and what it makes of the answer.
LEMMA PartIsRead ==
  ASSUME PagesOK, HandlesSuffice, HTTPInv, TagInv, ~ spoilt, NEW c \in Conns,
         turn = <<c, "process">>, NEW a, AtVariable(fs, curHTTP, a),
         NEW at, at = curHTTP.callbackPos.pos,
         NEW open, open = MPFSSeek(Included.fs, Included.h, at),
         NEW n \in Nat, NEW part, part = MPFSGetArray(open, Included.h, n)
  PROVE  /\ Included.h # MPFS_INVALID_HANDLE /\ part.data \in Seq(Words)
         /\ Len(part.data) < n => a.answer \o part.data = Shown(4)
         /\ Len(part.data) = n /\ n # 0 =>
              /\ a.answer \o part.data = Shown(4)
              /\ Reads(part.fs, Included.h, IdOf("part"), 1)
<1> DEFINE id == IdOf("part")
           data == Fat[id].data
           h == Included.h
<1>1. /\ h # MPFS_INVALID_HANDLE /\ FilesOK(open) /\ Reads(open, h, id, at) /\ at \in 0 .. 1
  BY PartOpens
<1>2. id \in Ids
  BY DEF PagesOK
<1>3. Len(data) = 1 /\ SubSeq(data, 1, 1) = <<"part">> /\ data \in Seq(Chunks)
  BY <1>2, PartsRead, MPFSAssumption DEF Ids
<1> HIDE DEF h
<1>4. PICK len \in 0 .. n :
        /\ at + len <= Len(data) /\ (len = n \/ at + len = Len(data))
        /\ part.data = SubSeq(data, at + 1, at + len) /\ Len(part.data) = len
        /\ Reads(part.fs, h, id, at + len)
  <2>1. \E len \in 0 .. n :
          /\ at + len <= Len(data) /\ (len = n \/ at + len = Len(data))
          /\ part.data = SubSeq(data, at + 1, at + len) /\ Len(part.data) = len
          /\ Reads(part.fs, h, id, at + len)
    BY <1>1, <1>2, ReadIs DEF h
  <2> QED
    BY <2>1
<1> HIDE DEF data, id
<1>5. part.data \in Seq(Words)
  <2>1. part.data \in Seq(Chunks)
    BY <1>1, GetArrayIs DEF h
  <2> QED
    BY <2>1, WordsAre
<1>6. CASE at = 0
  <2>1. a.answer = Shown(3)
    <3>1. ASSUME NEW i, NEW p, p = [id |-> i, pos |-> 1] PROVE p.pos # 0
      BY <3>1
    <3>2. curHTTP.callbackPos.pos = 0
      BY <1>6, Zenon
    <3>3. curHTTP.callbackPos # [id |-> IdOf("part"), pos |-> 1]
      BY <3>1, <3>2, Zenon
    <3> QED
      BY <3>3, Zenon DEF AtVariable
  <2>2. len \in 0 .. 1 /\ 0 + len = len /\ 0 + 1 = 1 /\ (len # n => len = 1)
    BY <1>3, <1>4, <1>6
  <2>3. ASSUME len = 1
        PROVE  a.answer \o part.data = Shown(4) /\ Reads(part.fs, h, id, 1)
    <3>1. part.data = <<"part">> /\ Reads(part.fs, h, id, 1)
      BY <1>3, <1>4, <1>6, <2>2, <2>3, Zenon
    <3>2. Shown(3) \o <<Page[3 + 1]>> = Shown(3 + 1) /\ Page[3 + 1] = "part" /\ 3 + 1 = 4
      BY ShownNext, PageIs
    <3> QED
      BY <2>1, <3>1, <3>2
  <2>4. len = n /\ n # 0 => len = 1
    BY <2>2
  <2>5. Len(part.data) < n => len # n
    <3> SUFFICES ASSUME len < n PROVE len # n
      BY <1>4, Zenon
    <3> QED
      BY <1>4
  <2> QED
    BY <1>1, <1>4, <1>5, <2>2, <2>3, <2>4, <2>5, Zenon DEF h, id
<1>7. CASE at = 1
  <2>1. a.answer = Shown(4)
    BY <1>7 DEF AtVariable
  <2>2. len = 0 /\ 1 + len = 1
    BY <1>3, <1>4, <1>7
  <2>3. part.data = <<>>
    <3>1. 1 \in 0 .. Len(data)
      BY <1>3
    <3>2. SubSeq(data, 1 + 1, 1) = <<>>
      BY <1>3, <3>1, NothingCut
    <3> QED
      BY <1>4, <1>7, <2>2, <3>2, Zenon
  <2>4. a.answer \o part.data = Shown(4)
    BY <2>1, <2>3, ShownNext
  <2> QED
    BY <1>1, <1>4, <1>5, <2>2, <2>4, Zenon DEF h
<1>8. at = 0 \/ at = 1
  BY <1>1
<1> QED
  BY <1>6, <1>7, <1>8, Zenon

LEMMA CallbackEndsAnswers ==
  ASSUME PagesOK, HandlesSuffice, HTTPInv, RequestInv, TagInv, AnswerInv, ~ spoilt,
         NEW c \in Conns, CallbackEnds(c)
  PROVE  AnswerInv'
<1> DEFINE at == curHTTP.callbackPos.pos
           n == PutReady(c)
           open == MPFSSeek(Included.fs, Included.h, at)
           part == MPFSGetArray(open, Included.h, n)
<1>1. /\ turn = <<c, "process">> /\ sm[c] = "SEND_FROM_CALLBACK" /\ UNCHANGED Loaded
      /\ Goto(c, "SERVE_BODY") /\ fs' = fs
      /\ curHTTP' = [curHTTP EXCEPT !.callbackPos = [id |-> 0, pos |-> 0]]
  BY Zenon DEF CallbackEnds, At
<1>2. IF Included.h = MPFS_INVALID_HANDLE THEN Answer(c, <<>>) /\ net' = net
      ELSE Len(part.data) < n /\ Answer(c, part.data) /\ Fill(c, Len(part.data))
  BY Zenon DEF CallbackEnds
<1>3. n \in Nat
  BY <1>1, SendsWhat
<1>4. /\ curHTTP'.file = curHTTP.file /\ curHTTP'.byteCount = curHTTP.byteCount
      /\ curHTTP'.nextCallback = curHTTP.nextCallback
  BY <1>1, AtWork, Zenon DEF RecordOK, Record
<1>5. \A d \in Conns : d # c => Kept(fs, fs', Records[d])
  BY <1>1, FilesStill
<1>6. ASSUME NEW a, a.asked = client[c].asked, AtVariable(fs, curHTTP, client[c]),
             a.answer = Shown(4)
      PROVE  Stage(fs', "SERVE_BODY", curHTTP', a)
  <2>1. /\ a.asked = "page" /\ curHTTP'.byteCount = 2 /\ curHTTP'.nextCallback = Never
        /\ Reads(fs', curHTTP'.file, PageId, 2)
    BY <1>1, <1>4, <1>6, Zenon DEF AtVariable
  <2>2. 2 \in 2 .. MaxCount /\ 2 \in 2 .. 4 /\ 2 + 2 = 4
    BY DEF MaxCount
  <2>3. BehindVariable(fs', curHTTP', a)
    BY <1>6, <2>1, <2>2, Zenon DEF BehindVariable
  <2> QED
    BY <2>3 DEF Stage, Unanswered, Receiving, Headers, WithArgs
<1>7. ASSUME net[c].st = "open"
      PROVE  /\ AtVariable(fs, curHTTP, client[c]) /\ Included.h # MPFS_INVALID_HANDLE
             /\ Len(part.data) < n => client[c].answer \o part.data = Shown(4)
  <2>1. Stage(fs, "SEND_FROM_CALLBACK", curHTTP, client[c])
    BY <1>1, <1>7, AnswerAtWork
  <2>2. AtVariable(fs, curHTTP, client[c])
    BY <2>1 DEF Stage
  <2> HIDE DEF n
  <2> QED
    BY <1>1, <1>3, <2>2, PartIsRead
<1>8. CASE Included.h = MPFS_INVALID_HANDLE
  <2>1. net' = [net EXCEPT ![c] = net[c]] /\ <<>> \in Seq(Words) /\ Answer(c, <<>>)
    BY <1>2, <1>8, StaysWhere, WordsAre
  <2>2. net[c].st # "open"
    BY <1>7, <1>8
  <2> QED
    BY <1>1, <1>5, <2>1, <2>2, TellingWork
<1>9. CASE Included.h # MPFS_INVALID_HANDLE
  <2>1. PICK k : net' = [net EXCEPT ![c] = k] /\ k.st = net[c].st /\ k.wasReset = net[c].wasReset
    BY <1>2, <1>9, FillIs
  <2>2. part.data \in Seq(Words)
    <3>1. part.data \in Seq(Chunks)
      BY <1>1, <1>3, <1>9, IncludedIs
    <3> QED
      BY <3>1, WordsAre
  <2> HIDE DEF part, n
  <2>3. Len(part.data) < n /\ Answer(c, part.data)
    BY <1>2, <1>9
  <2>4. ASSUME NEW a, net[c].st = "open", a.asked = client[c].asked,
               a.answer = client[c].answer \o part.data
        PROVE  Stage(fs', "SERVE_BODY", curHTTP', a)
    BY <1>6, <1>7, <2>3, <2>4
  <2> QED
    BY <1>1, <1>5, <2>1, <2>2, <2>3, <2>4, TellingWork
<1> QED
  BY <1>8, <1>9

LEMMA CallbackPausesAnswers ==
  ASSUME PagesOK, HandlesSuffice, HTTPInv, RequestInv, TagInv, AnswerInv, ~ spoilt,
         NEW c \in Conns, CallbackPauses(c)
  PROVE  AnswerInv'
<1> DEFINE at == curHTTP.callbackPos.pos
           n == PutReady(c)
           open == MPFSSeek(Included.fs, Included.h, at)
           part == MPFSGetArray(open, Included.h, n)
           pos == [id |-> MPFSGetID(open, Included.h), pos |-> MPFSTell(part.fs, Included.h)]
<1>1. /\ turn = <<c, "process">> /\ sm[c] = "SEND_FROM_CALLBACK" /\ UNCHANGED <<sm, Loaded>>
      /\ fs' = fs
  BY Zenon DEF CallbackPauses, At
<1>2. \/ curHTTP' = curHTTP /\ net' = net /\ client' = client
      \/ /\ n > 0 /\ Included.h # MPFS_INVALID_HANDLE /\ Len(part.data) = n
         /\ Answer(c, part.data) /\ Fill(c, n)
         /\ curHTTP' = [curHTTP EXCEPT !.callbackPos = pos]
  BY Zenon DEF CallbackPauses
<1>3. n \in Nat
  BY <1>1, SendsWhat
<1>4. \A d \in Conns : d # c => Kept(fs, fs', Records[d])
  BY <1>1, FilesStill
<1>5. CASE curHTTP' = curHTTP /\ net' = net /\ client' = client
  <2>1. net' = [net EXCEPT ![c] = net[c]]
    BY <1>5, StaysWhere
  <2>2. net[c].st = "open" => Stage(fs', "SEND_FROM_CALLBACK", curHTTP', client[c])
    BY <1>1, <1>5, AnswerAtWork
  <2> QED
    BY <1>1, <1>4, <1>5, <2>1, <2>2, SilentWork
<1>6. CASE /\ n > 0 /\ Included.h # MPFS_INVALID_HANDLE /\ Len(part.data) = n
           /\ Answer(c, part.data) /\ Fill(c, n)
           /\ curHTTP' = [curHTTP EXCEPT !.callbackPos = pos]
  <2>1. PICK k : net' = [net EXCEPT ![c] = k] /\ k.st = net[c].st /\ k.wasReset = net[c].wasReset
    BY <1>6, FillIs
  <2>2. part.data \in Seq(Words)
    <3>1. part.data \in Seq(Chunks)
      BY <1>1, <1>3, <1>6, IncludedIs
    <3> QED
      BY <3>1, WordsAre
  <2>3. ASSUME NEW a, net[c].st = "open", a.asked = client[c].asked,
               a.answer = client[c].answer \o part.data
        PROVE  Stage(fs', "SEND_FROM_CALLBACK", curHTTP', a)
    <3>1. Stage(fs, "SEND_FROM_CALLBACK", curHTTP, client[c])
      BY <1>1, <2>3, AnswerAtWork
    <3>2. AtVariable(fs, curHTTP, client[c])
      BY <3>1 DEF Stage
    <3> HIDE DEF n
    <3>3. n # 0
      BY <1>3, <1>6
    <3>4. /\ client[c].answer \o part.data = Shown(4)
          /\ Reads(part.fs, Included.h, IdOf("part"), 1)
      BY <1>1, <1>3, <1>6, <3>2, <3>3, PartIsRead
    <3>5. open.stubs[Included.h].id = IdOf("part")
      <4>1. Reads(open, Included.h, IdOf("part"), at)
        BY <1>1, <3>2, PartOpens
      <4> HIDE DEF open
      <4> QED
        BY <4>1 DEF Reads
    <3> HIDE DEF part, open
    <3>6. pos = [id |-> IdOf("part"), pos |-> 1]
      <4>1. part.fs.stubs[Included.h].pos = 1
        BY <3>4 DEF Reads
      <4> QED
        BY <3>5, <4>1, Zenon DEF MPFSGetID, MPFSTell
    <3> HIDE DEF pos
    <3>7. /\ curHTTP'.file = curHTTP.file /\ curHTTP'.byteCount = curHTTP.byteCount
          /\ curHTTP'.nextCallback = curHTTP.nextCallback
          /\ curHTTP'.callbackID = curHTTP.callbackID /\ curHTTP'.callbackPos = pos
          /\ curHTTP'.offsets = curHTTP.offsets
      BY <1>1, <1>6, AtWork, Zenon DEF RecordOK, Record
    <3>8. AtVariable(fs', curHTTP', a)
      BY <1>1, <2>3, <3>2, <3>4, <3>6, <3>7, Zenon DEF AtVariable
    <3> QED
      BY <3>8 DEF Stage, Unanswered, Receiving, Headers, WithArgs
  <2> HIDE DEF part, pos, n
  <2> QED
    BY <1>1, <1>4, <1>6, <2>1, <2>2, <2>3, TellingWork
<1> QED
  BY <1>2, <1>5, <1>6

-----------------------------------------------------------------------------
(* Every client gets the start of its answer, or all of it.                 *)

LEMMA AnswerNext ==
  ASSUME PagesOK, HandlesSuffice, HTTPInv, RequestInv, TagInv, AnswerInv, [HTTPNext]_httpVars
  PROVE  AnswerInv'
<1>1. ASSUME ~ spoilt', HTTPServer PROVE AnswerInv'
  <2>1. Unspoilt /\ ~ spoilt
    BY <1>1, SpoiltNot DEF Unspoilt
  <2>2. CASE StartPass
    BY <2>1, <2>2, PassAnswers
  <2>3. ASSUME NEW c \in Conns, Check(c) PROVE AnswerInv'
    <3>1. CASE ForgetReset(c)
      BY <2>1, <3>1, ForgetResetAnswers
    <3>2. CASE Eligible(c) \/ Skip(c)
      BY <2>1, <3>2, PassAnswers
    <3> QED
      BY <2>3, <3>1, <3>2 DEF Check
  <2>4. ASSUME NEW c \in Conns, Parse(c) PROVE AnswerInv'
    BY <2>1, <2>4, IdleAnswers, WaitForLineAnswers, ParseRequestAnswers, ParseHeadersAnswers,
       AuthenticateAnswers, ProcessGetAnswers DEF Parse
  <2>5. ASSUME NEW c \in Conns, Post(c) PROVE AnswerInv'
    BY <2>1, <2>5, PostTimeoutAnswers, NoPostAnswers, ExecutePostAnswers, UploadStartAnswers,
       UploadWriteAnswers, UploadRefusedAnswers DEF Post
  <2>6. ASSUME NEW c \in Conns, Serve(c) PROVE AnswerInv'
    BY <2>1, <2>6, ProcessRequestAnswers, ServeHeadersAnswers, ServeCookiesAnswers,
       SendLastAnswers, SendSomeAnswers, SendToCallbackAnswers, CallbackUnknownAnswers,
       CallbackEndsAnswers, CallbackPausesAnswers, DisconnectAnswers DEF Serve
  <2> QED
    BY <1>1, <2>2, <2>3, <2>4, <2>5, <2>6, Zenon DEF HTTPServer
<1>2. ASSUME ~ spoilt', NEW c \in Conns, Clients(c) PROVE AnswerInv'
  <2>1. ~ spoilt
    BY <1>2, Zenon DEF Clients, Connect, Send, SendMore, Drain, HalfClose, Gone, ServerSide
  <2> QED
    BY <1>2, <2>1, ConnectAnswers, SendAnswers, LeaveAnswers DEF Clients
<1>3. CASE UNCHANGED httpVars
  BY <1>3, AnswersStay DEF httpVars
<1>4. CASE spoilt'
  BY <1>4 DEF AnswerInv
<1> QED
  BY <1>1, <1>2, <1>3, <1>4, Zenon DEF HTTPNext

AnswerWords == PageWords \cup
  {"NOT_FOUND", "MPFS_FORM", "MPFS_OK", "MPFS_ERROR", "INTERNAL_SERVER_ERROR", "REDIRECT",
   "NOT_IMPLEMENTED", "OVERFLOW"}

\* Every kind of request has an answer, and all its answers are sequences of words.
LEMMA AnswersAreWords ==
  ASSUME NEW kind \in DOMAIN Answers
  PROVE  Answers[kind] # {} /\ \A whole \in Answers[kind] : whole \in Seq(AnswerWords)
<1>1. ASSUME NEW w \in AnswerWords PROVE <<w>> \in Seq(AnswerWords)
  BY <1>1
<1>2. Page \in Seq(AnswerWords)
  BY DEF Page, AnswerWords, PageWords
<1>3. <<>> \in Seq(AnswerWords)
  OBVIOUS
<1> DEFINE Fine(A) == A # {} /\ \A whole \in A : whole \in Seq(AnswerWords)
<1>4. ASSUME NEW w \in AnswerWords PROVE Fine({<<w>>})
  BY <1>1, <1>4, Zenon
<1>5. Fine({Page}) /\ Fine({<<>>})
  BY <1>2, <1>3, Zenon
<1>6. /\ "NOT_FOUND" \in AnswerWords /\ "MPFS_FORM" \in AnswerWords
      /\ "MPFS_OK" \in AnswerWords /\ "MPFS_ERROR" \in AnswerWords
      /\ "INTERNAL_SERVER_ERROR" \in AnswerWords /\ "REDIRECT" \in AnswerWords
      /\ "NOT_IMPLEMENTED" \in AnswerWords /\ "OVERFLOW" \in AnswerWords
  BY DEF AnswerWords
<1>7. Fine({<<"NOT_IMPLEMENTED">>, <<"OVERFLOW">>})
  BY <1>1, <1>6, Zenon
<1> HIDE DEF Fine
<1>8. /\ Fine(Answers.page) /\ Fine(Answers.none) /\ Fine(Answers.other)
      /\ Fine(Answers.nothing) /\ Fine(Answers.lost) /\ Fine(Answers.form)
      /\ Fine(Answers.image) /\ Fine(Answers.badimage) /\ Fine(Answers.nolength)
      /\ Fine(Answers.config) /\ Fine(Answers.endless)
  BY <1>4, <1>5, <1>6, <1>7, Zenon DEF Answers
<1>9. DOMAIN Answers = {"page", "nothing", "lost", "form", "image", "badimage", "nolength",
                        "config", "other", "endless", "none"}
  BY DEF Answers
<1>10. kind \in {"page", "nothing", "lost", "form", "image", "badimage", "nolength", "config",
                 "other", "endless", "none"}
  BY <1>9
<1>11. Fine(Answers[kind])
  BY <1>8, <1>10, Zenon
<1> QED
  BY <1>11 DEF Fine

\* Every answer starts with nothing, and with itself.
LEMMA AnswersStart ==
  ASSUME NEW kind \in DOMAIN Answers
  PROVE  /\ \E whole \in Answers[kind] : IsPrefix(<<>>, whole)
         /\ \A whole \in Answers[kind] : IsPrefix(whole, whole)
<1>1. ASSUME NEW S, NEW whole \in Seq(S) PROVE IsPrefix(<<>>, whole) /\ IsPrefix(whole, whole)
  <2>1. Len(whole) \in Nat /\ 0 \in 0 .. Len(whole)
    BY LenProperties
  <2>2. SubSeq(whole, 0 + 1, 0) = <<>>
    BY <2>1, NothingCut
  <2>3. SubSeq(<<>>, 1, 0) = <<>> /\ Len(<<>>) = 0 /\ 0 + 1 = 1 /\ 0 <= Len(whole)
    BY <2>1
  <2> QED
    BY <2>1, <2>2, <2>3 DEF IsPrefix
<1> QED
  BY <1>1, AnswersAreWords

LEMMA StageIsStart ==
  ASSUME NEW f, NEW s \in States, NEW r, NEW a, a.asked \in DOMAIN Answers, Stage(f, s, r, a)
  PROVE  \E whole \in Answers[a.asked] : IsPrefix(a.answer, whole)
<1>1. CASE s \in Unanswered
  BY <1>1, AnswersStart DEF Stage
<1>2. CASE s = "DISCONNECT"
  BY <1>2, AnswersStart DEF Stage
<1>3. CASE s \in {"SERVE_COOKIES", "SERVE_BODY", "SEND_FROM_CALLBACK"}
  <2>1. a.asked = "page" /\ \E n \in 0 .. 6 : a.answer = Shown(n)
    <3>1. CASE s = "SERVE_COOKIES"
      BY <3>1 DEF Stage, BeforePage
    <3>2. CASE s = "SERVE_BODY"
      <4>1. CASE BeforePage(f, r, a) /\ a.answer = Shown(2)
        BY <4>1 DEF BeforePage
      <4>2. CASE BehindVariable(f, r, a)
        <5>1. PICK pos \in 2 .. 4 : a.answer = Shown(pos + 2)
          BY <4>2 DEF BehindVariable
        <5>2. pos + 2 \in 0 .. 6
          OBVIOUS
        <5> QED
          BY <4>2, <5>1, <5>2, Zenon DEF BehindVariable
      <4> QED
        BY <3>2, <4>1, <4>2 DEF Stage
    <3>3. CASE s = "SEND_FROM_CALLBACK"
      BY <3>3 DEF Stage, AtVariable
    <3> QED
      BY <1>3, <3>1, <3>2, <3>3
  <2>2. Page \in Answers[a.asked]
    BY <2>1 DEF Answers
  <2> QED
    BY <2>1, <2>2, ShownStarts
<1> QED
  BY <1>1, <1>2, <1>3, StatesAre DEF Unanswered, Receiving

LEMMA AnswersAre ==
  ASSUME HTTPInv, RequestInv, AnswerInv
  PROVE  AnswerIsWhole
<1> SUFFICES ASSUME ~ spoilt, NEW c \in Conns
             PROVE  \E whole \in Answers[client[c].asked] :
                      IF client[c].over THEN client[c].answer = whole
                      ELSE IsPrefix(client[c].answer, whole)
  BY DEF AnswerIsWhole
<1> DEFINE a == client[c]
<1>1. a.asked \in DOMAIN Answers /\ a.over \in BOOLEAN /\ sm[c] \in States
  BY DEF RequestInv, Client, HTTPInv, Control
<1>2. Answering(fs, sm[c], net[c], Records[c], a) /\ (net[c].st = "open" => ~ a.over)
  BY DEF AnswerInv, RequestInv, Hears
<1> HIDE DEF a
<1>3. CASE net[c].st = "open"
  <2>1. a.answer = <<>> \/ Stage(fs, sm[c], Records[c], a)
    BY <1>2, <1>3 DEF Answering
  <2>2. \E whole \in Answers[a.asked] : IsPrefix(a.answer, whole)
    BY <1>1, <2>1, AnswersStart, StageIsStart
  <2> QED
    BY <1>2, <1>3, <2>2 DEF a
<1>4. CASE net[c].st # "open"
  <2>1. Left(a)
    BY <1>2, <1>4 DEF Answering
  <2>2. CASE a.over
    BY <2>1, <2>2 DEF Left, a
  <2>3. CASE ~ a.over
    <3>1. a.answer = <<>>
      BY <2>1, <2>3 DEF Left
    <3>2. \E whole \in Answers[a.asked] : IsPrefix(a.answer, whole)
      BY <1>1, <3>1, AnswersStart
    <3> QED
      BY <2>3, <3>2 DEF a
  <2> QED
    BY <2>2, <2>3
<1> QED
  BY <1>3, <1>4

\* What a client has got is the start of the answer to its own request, and all
\* of it when the server closes the connection, for every number of connections
\* and however they take turns with curHTTP, the handles and the FIFOs, where
\* the files that are asked for are in the image, and no more connections are
\* served than there are handles for (HTTPProcess(), HTTPSendFile(), MPFSOpen()).
THEOREM AnswersAreWhole ==
  PagesOK /\ HandlesSuffice => (HTTPSpec => []AnswerIsWhole)
<1>1. CASE PagesOK /\ HandlesSuffice
  <2>1. HTTPInv /\ RequestInv /\ TagInv /\ AnswerInv /\ [HTTPNext]_httpVars => AnswerInv'
    BY <1>1, AnswerNext
  <2>2. HTTPInv /\ RequestInv /\ AnswerInv => AnswerIsWhole
    BY AnswersAre
  <2> QED
    BY <2>1, <2>2, HTTPInvariant, RequestsAreHeard, TagInvariance, AnswerInit, PTL DEF HTTPSpec
<1> QED
  BY <1>1
=============================================================================
