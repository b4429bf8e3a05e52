---------------------------- MODULE HTTP2Proofs ----------------------------
(***************************************************************************)
(* Proofs about the web server and its file system: whatever the           *)
(* connections ask for, however they take turns and however they end, the  *)
(* records keep their types, every open handle belongs to exactly one      *)
(* connection, the server reads of each client the request that it sent,   *)
(* and an image that can be read is whole.  What the clients are answered  *)
(* is in HTTPAnswerProofs.                                                 *)
(***************************************************************************)
EXTENDS HTTP2, SequenceTheorems, FiniteSetTheorems, WellFoundedInduction, TLAPS

-----------------------------------------------------------------------------
(* The least of some numbers.                                               *)

Below == {ss \in Nat \X Nat : ss[1] < ss[2]}

LEMMA LeastNumber ==
  ASSUME NEW S, S \subseteq Nat, S # {}
  PROVE  Min(S) \in S /\ \A y \in S : Min(S) <= y
<1>1. IsWellFoundedOn(Below, Nat)
  BY NatLessThanWellFounded DEF OpToRel, Below
<1>2. PICK x \in S : \A y \in S : ~ (<<y, x>> \in Below)
  BY <1>1, WFMin
<1>3. \A w \in S, y \in S : ~ (<<y, w>> \in Below) => w =< y
  BY DEF Below
<1>4. \A y \in S : x =< y
  BY <1>2, <1>3, Zenon
<1> QED
  BY <1>4, Zenon DEF Min

LEMMA LesserOfTwo ==
  ASSUME NEW a \in Nat, NEW b \in Nat
  PROVE  /\ Min({a, b}) \in Nat /\ Min({a, b}) <= a /\ Min({a, b}) <= b
         /\ Min({a, b}) \in {a, b}
<1>1. Min({a, b}) \in {a, b} /\ \A y \in {a, b} : Min({a, b}) <= y
  BY LeastNumber
<1> QED
  BY <1>1

-----------------------------------------------------------------------------
(* The file system.                                                         *)

Tokens == {"page", "nothing", "form", "image", "config", "lost", "other", "half", "blank",
           "length", "mime", "tag", "badtag", "data", "pair"}

File == [id : {0} \cup Ids, pos : Nat]
Size(id) == IF id = 0 THEN 0 ELSE Len(Fat[id].data)
Stream == Seq(Tokens)
FileSystem == [stubs : [Handles -> File], locked : BOOLEAN, image : Stream,
               numFiles : {0, Len(Fat)}]

OpenIn(f) == {h \in Handles : IsOpen(f, h)}

\* No position lies behind the end of its file, the last handle is never
\* handed out, and nothing is open while an image is written.
FilesOK(f) ==
  /\ f \in FileSystem
  /\ \A h \in Handles : f.stubs[h].pos <= Size(f.stubs[h].id)
  /\ f.stubs[MAX_MPFS_HANDLES] = Closed
  /\ f.locked => OpenIn(f) = {}

LEMMA HandlesAre ==
  /\ MAX_MPFS_HANDLES \in Handles /\ Handles \subseteq Nat
  /\ 0 \notin Handles /\ MPFS_INVALID_HANDLE \notin Handles
  /\ Len(Fat) \in Nat /\ Ids \subseteq Nat /\ 0 \notin Ids
BY MPFSAssumption DEF Handles, MPFS_INVALID_HANDLE, Ids

LEMMA SizeIs ==
  ASSUME NEW id \in {0} \cup Ids
  PROVE  Size(id) \in Nat
BY MPFSAssumption, LenProperties, HandlesAre DEF Size, Ids

\* A handle that is open has a file.
LEMMA OpenHasFile ==
  ASSUME NEW f, FilesOK(f), NEW h
  PROVE  /\ IsOpen(f, h) <=> h \in Handles /\ f.stubs[h].id # 0
         /\ h \in Handles => f.stubs[h] \in File /\ f.stubs[h].pos <= Size(f.stubs[h].id)
         /\ IsOpen(f, h) => f.stubs[h].id \in Ids
<1> SUFFICES ASSUME h \in Handles PROVE
      /\ f.stubs[h] # Closed <=> f.stubs[h].id # 0
      /\ f.stubs[h] \in File /\ f.stubs[h].pos <= Size(f.stubs[h].id)
  BY DEF IsOpen, File
<1>1. f.stubs[h] \in File /\ f.stubs[h].pos <= Size(f.stubs[h].id)
  BY DEF FilesOK, FileSystem
<1>2. f.stubs[h].id = 0 => f.stubs[h] = Closed
  <2> SUFFICES ASSUME f.stubs[h].id = 0 PROVE f.stubs[h] = Closed
    OBVIOUS
  <2>1. f.stubs[h].pos = 0
    BY <1>1 DEF File, Size
  <2> QED
    BY <1>1, <2>1 DEF File, Closed
<1> QED
  BY <1>1, <1>2 DEF Closed

\* Replacing the stub of one handle.
WithStub(f, h, stub) == [f EXCEPT !.stubs[h] = stub]

LEMMA StubSet ==
  ASSUME NEW f, FilesOK(f), NEW h \in Handles, NEW stub \in File,
         stub.pos <= Size(stub.id),
         h = MAX_MPFS_HANDLES => stub = Closed,
         f.locked => stub = Closed,
         NEW g, g = WithStub(f, h, stub)
  PROVE  /\ FilesOK(g) /\ g.stubs[h] = stub
         /\ \A k \in Handles : k # h => g.stubs[k] = f.stubs[k]
         /\ g.locked = f.locked /\ g.image = f.image /\ g.numFiles = f.numFiles
         /\ OpenIn(g) = IF stub.id = 0 THEN OpenIn(f) \ {h} ELSE OpenIn(f) \cup {h}
<1> DEFINE stubs == [f.stubs EXCEPT ![h] = stub]
<1>1. f \in FileSystem /\ f.stubs \in [Handles -> File]
  BY DEF FilesOK, FileSystem
<1>2. g = [f EXCEPT !.stubs = stubs]
  BY DEF WithStub
<1>3. stubs \in [Handles -> File] /\ stubs[h] = stub /\ \A k \in Handles : k # h => stubs[k] = f.stubs[k]
  BY <1>1
<1> HIDE DEF stubs
<1>4. g \in FileSystem
  BY <1>1, <1>2, <1>3, SMT DEF FileSystem
<1>5. g.stubs = stubs /\ g.locked = f.locked /\ g.image = f.image /\ g.numFiles = f.numFiles
  BY <1>1, <1>2, Zenon DEF FileSystem
<1>6. stub = Closed <=> stub.id = 0
  BY SMT DEF File, Size, Closed
<1>7. OpenIn(g) = IF stub.id = 0 THEN OpenIn(f) \ {h} ELSE OpenIn(f) \cup {h}
  BY <1>3, <1>5, <1>6, Zenon DEF OpenIn, IsOpen
<1>8. \A k \in Handles : g.stubs[k].pos <= Size(g.stubs[k].id)
  BY <1>3, <1>5, Zenon DEF FilesOK
<1>9. g.stubs[MAX_MPFS_HANDLES] = Closed
  BY <1>3, <1>5, HandlesAre, Zenon DEF FilesOK
<1>10. g.locked => OpenIn(g) = {}
  BY <1>5, <1>6, <1>7, Zenon DEF FilesOK
<1> QED
  BY <1>3, <1>4, <1>5, <1>7, <1>8, <1>9, <1>10, Zenon DEF FilesOK

LEMMA FreeHandleIs ==
  ASSUME NEW f, FilesOK(f), NEW h, h = FreeHandle(f)
  PROVE  \/ h = MPFS_INVALID_HANDLE
         \/ h \in Handles /\ h # MAX_MPFS_HANDLES /\ h # MPFS_INVALID_HANDLE /\ ~ IsOpen(f, h)
<1> DEFINE Free == {i \in Handles : i = MAX_MPFS_HANDLES \/ ~ IsOpen(f, i)}
<1>1. Min(Free) \in Free
  <2>1. Free \subseteq Nat /\ Free # {}
    BY HandlesAre
  <2> QED
    BY <2>1, LeastNumber
<1>2. h = IF Min(Free) = MAX_MPFS_HANDLES THEN MPFS_INVALID_HANDLE ELSE Min(Free)
  BY Zenon DEF FreeHandle
<1> HIDE DEF Free
<1>3. Min(Free) # MAX_MPFS_HANDLES =>
        Min(Free) \in Handles /\ Min(Free) # MPFS_INVALID_HANDLE /\ ~ IsOpen(f, Min(Free))
  BY <1>1, HandlesAre DEF Free
<1> QED
  BY <1>2, <1>3, Zenon

\* An open fails and changes nothing, or it opens a handle that was free.
OpenFailed(f, r) == r.fs = f /\ r.h = MPFS_INVALID_HANDLE
OpenDone(f, id, r) ==
  /\ r.h \in Handles /\ ~ IsOpen(f, r.h) /\ id \in Ids /\ ~ f.locked
  /\ OpenIn(r.fs) = OpenIn(f) \cup {r.h}
  /\ r.fs.stubs[r.h] = [id |-> id, pos |-> 0]
  /\ r.fs.locked = f.locked /\ r.fs.image = f.image

LEMMA OpenedIs ==
  ASSUME NEW f, FilesOK(f), NEW id \in Nat \ {0}, NEW r, r = Opened(f, id)
  PROVE  FilesOK(r.fs) /\ (OpenFailed(f, r) \/ OpenDone(f, id, r))
<1> DEFINE h == FreeHandle(f)
           stub == [id |-> id, pos |-> 0]
<1>1. CASE f.locked \/ id > f.numFiles \/ h = MPFS_INVALID_HANDLE
  <2>1. r = [fs |-> f, h |-> MPFS_INVALID_HANDLE]
    BY <1>1, Zenon DEF Opened
  <2> QED
    BY <2>1 DEF OpenFailed
<1>2. CASE ~ (f.locked \/ id > f.numFiles \/ h = MPFS_INVALID_HANDLE)
  <2>1. h \in Handles /\ h # MAX_MPFS_HANDLES /\ ~ IsOpen(f, h)
    BY <1>2, FreeHandleIs
  <2>2. r = [fs |-> [f EXCEPT !.stubs[h] = stub], h |-> h]
    BY <1>2, Zenon DEF Opened
  <2> HIDE DEF h
  <2>3. f.numFiles \in {0, Len(Fat)}
    BY DEF FilesOK, FileSystem
  <2>4. id \in Ids
    BY <1>2, <2>3, HandlesAre DEF Ids
  <2>5. stub \in File /\ stub.id = id /\ stub.pos = 0 /\ 0 <= Size(id) /\ id # 0
    BY <2>4, SizeIs, HandlesAre DEF File
  <2> HIDE DEF stub
  <2> DEFINE g == WithStub(f, h, stub)
  <2> HIDE DEF g
  <2>9. r = [fs |-> g, h |-> h]
    BY <2>2, Zenon DEF g, WithStub
  <2>6. r.h = h /\ r.fs = g /\ g = WithStub(f, h, stub)
    BY <2>9 DEF g
  <2>7. /\ FilesOK(r.fs) /\ r.fs.stubs[h] = stub
        /\ r.fs.locked = f.locked /\ r.fs.image = f.image
        /\ OpenIn(r.fs) = OpenIn(f) \cup {h}
    BY <1>2, <2>1, <2>5, <2>6, StubSet
  <2>8. r.fs.stubs[h] = [id |-> id, pos |-> 0]
    BY <2>7 DEF stub
  <2> QED
    BY <1>2, <2>1, <2>4, <2>6, <2>7, <2>8, Zenon DEF OpenDone
<1> QED
  BY <1>1, <1>2

LEMMA CloseIs ==
  ASSUME NEW f, FilesOK(f), NEW h, NEW g, g = MPFSClose(f, h)
  PROVE  /\ FilesOK(g) /\ OpenIn(g) = OpenIn(f) \ {h}
         /\ g.locked = f.locked /\ g.image = f.image
<1>1. CASE h \in Handles
  <2>1. g = WithStub(f, h, Closed)
    BY <1>1, Zenon DEF MPFSClose, WithStub
  <2>2. Closed \in File /\ Closed.id = 0 /\ Closed.pos <= Size(Closed.id)
    BY DEF Closed, File, Size
  <2> QED
    BY <1>1, <2>1, <2>2, StubSet
<1>2. CASE h \notin Handles
  <2>1. g = f
    BY <1>2, Zenon DEF MPFSClose
  <2> QED
    BY <1>2, <2>1, Zenon DEF OpenIn
<1> QED
  BY <1>1, <1>2

\* What is read is part of the file; which handles are open does not change.
LEMMA GetArrayIs ==
  ASSUME NEW f, FilesOK(f), NEW h, NEW n \in Nat, NEW r, r = MPFSGetArray(f, h, n)
  PROVE  /\ FilesOK(r.fs) /\ OpenIn(r.fs) = OpenIn(f)
         /\ r.fs.locked = f.locked /\ r.fs.image = f.image
         /\ r.data \in Seq(Chunks) /\ Len(r.data) <= n
         /\ IsOpen(f, h) => r.fs.stubs[h].id = f.stubs[h].id
<1> DEFINE rem == Remaining(f, h)
           len == Min({n, rem})
           pos == f.stubs[h].pos
           data == Fat[f.stubs[h].id].data
<1>1. CASE ~ IsOpen(f, h)
  <2>1. rem = 0
    BY <1>1, Zenon DEF Remaining
  <2>2. len = 0
    BY <2>1, LesserOfTwo
  <2>3. r = [fs |-> f, data |-> <<>>]
    BY <2>2, Zenon DEF MPFSGetArray
  <2> QED
    BY <1>1, <2>3
<1>2. CASE IsOpen(f, h)
  <2>1. /\ h \in Handles /\ f.stubs[h] \in File /\ f.stubs[h].id \in Ids /\ pos \in Nat
        /\ pos <= Len(data) /\ Len(data) \in Nat /\ data \in Seq(Chunks)
    <3>1. h \in Handles /\ f.stubs[h] \in File /\ pos <= Size(f.stubs[h].id)
          /\ f.stubs[h].id \in Ids
      BY <1>2, OpenHasFile
    <3>2. data \in Seq(Chunks)
      BY <3>1, MPFSAssumption DEF Ids
    <3> QED
      BY <3>1, <3>2, LenProperties, HandlesAre DEF Size, File
  <2>2. rem = Len(data) - pos
    BY <1>2, Zenon DEF Remaining
  <2> HIDE DEF rem
  <2>3. rem \in Nat
    BY <2>1, <2>2
  <2>4. len \in Nat /\ len <= n /\ len <= rem
    BY <2>3, LesserOfTwo
  <2>5. CASE len = 0
    <3>1. r = [fs |-> f, data |-> <<>>]
      BY <2>5, Zenon DEF MPFSGetArray, rem
    <3> QED
      BY <3>1
  <2>6. CASE len # 0
    <3> DEFINE stub == [f.stubs[h] EXCEPT !.pos = pos + len]
               got == SubSeq(data, pos + 1, pos + len)
    <3>1. r = [fs |-> [f EXCEPT !.stubs[h].pos = @ + len], data |-> got]
      BY <2>6, Zenon DEF MPFSGetArray, rem
    <3>2. [f EXCEPT !.stubs[h].pos = @ + len] = WithStub(f, h, stub)
      BY DEF WithStub
    <3> DEFINE g == WithStub(f, h, stub)
    <3> HIDE DEF g
    <3>10. r = [fs |-> g, data |-> got]
      BY <3>1, <3>2, Zenon DEF g
    <3> HIDE DEF stub, got
    <3>12. r.fs = g /\ r.data = got
      BY <3>10
    <3>11. r.fs = g /\ r.data = got /\ g = WithStub(f, h, stub)
      BY <3>12 DEF g
    <3> USE DEF stub, got
    <3> HIDE DEF len
    <3>3. pos + len \in Nat /\ pos + len <= Len(data)
      BY <2>1, <2>2, <2>4
    <3>4. stub \in File /\ stub.id = f.stubs[h].id /\ stub.pos = pos + len
      BY <2>1, <3>3 DEF File
    <3>5. stub.pos <= Size(stub.id) /\ stub.id # 0
      BY <2>1, <3>3, <3>4, HandlesAre DEF Size
    <3>6. got \in Seq(Chunks) /\ Len(got) = len
      <4>1. \A i \in pos + 1 .. pos + len : i \in 1 .. Len(data)
        BY <2>1, <2>4, <3>3
      <4>2. got \in Seq(Chunks)
        BY <2>1, <2>4, <3>3, <4>1, SubSeqProperties
      <4>3. Len(got) = IF pos + 1 <= pos + len THEN pos + len - (pos + 1) + 1 ELSE 0
        BY <2>1, <2>4, <3>3, SubSeqProperties
      <4>4. pos + 1 <= pos + len /\ pos + len - (pos + 1) + 1 = len
        BY <2>1, <2>4, <2>6
      <4> HIDE DEF got
      <4> QED
        BY <4>2, <4>3, <4>4
    <3> HIDE DEF stub, got
    <3>8. h # MAX_MPFS_HANDLES /\ ~ f.locked /\ h \in OpenIn(f)
      BY <1>2, <2>1 DEF FilesOK, OpenIn, IsOpen
    <3>9. /\ FilesOK(r.fs) /\ OpenIn(r.fs) = OpenIn(f) \cup {h}
          /\ r.fs.locked = f.locked /\ r.fs.image = f.image /\ r.fs.stubs[h] = stub
      BY <2>1, <3>4, <3>5, <3>8, <3>11, StubSet
    <3> QED
      BY <2>4, <3>4, <3>6, <3>8, <3>9, <3>11
  <2> QED
    BY <2>5, <2>6
<1> QED
  BY <1>1, <1>2

LEMMA SeekIs ==
  ASSUME NEW f, FilesOK(f), NEW h, IsOpen(f, h),
         NEW pos \in Nat, pos <= Size(f.stubs[h].id),
         NEW g, g = MPFSSeek(f, h, pos)
  PROVE  /\ FilesOK(g) /\ IsOpen(g, h)
         /\ g.stubs[h].id = f.stubs[h].id /\ g.stubs[h].pos = pos
<1> DEFINE stub == [f.stubs[h] EXCEPT !.pos = pos]
<1>1. h \in Handles /\ f.stubs[h] \in File /\ f.stubs[h].id # 0
  BY OpenHasFile
<1>2. stub \in File /\ stub.id = f.stubs[h].id /\ stub.pos = pos
  BY <1>1 DEF File
<1>3. g = WithStub(f, h, stub)
  BY DEF MPFSSeek, WithStub
<1>4. h # MAX_MPFS_HANDLES /\ ~ f.locked
  BY <1>1 DEF FilesOK, OpenIn, IsOpen
<1> HIDE DEF stub
<1>5. FilesOK(g) /\ g.stubs[h] = stub /\ OpenIn(g) = OpenIn(f) \cup {h}
  BY <1>1, <1>2, <1>3, <1>4, StubSet
<1> QED
  BY <1>2, <1>5 DEF OpenIn

LEMMA FormatIs ==
  ASSUME NEW f, FilesOK(f), NEW g, g = MPFSFormat(f)
  PROVE  /\ FilesOK(g) /\ OpenIn(g) = {} /\ g.locked /\ g.image = <<>>
         /\ g.numFiles = f.numFiles
<1> DEFINE stubs == [h \in Handles |-> IF h < MAX_MPFS_HANDLES THEN Closed ELSE f.stubs[h]]
<1> DEFINE locked == TRUE
<1>1. g = [f EXCEPT !.stubs = stubs, !.locked = locked, !.image = <<>>]
  BY DEF MPFSFormat, FilesOK, FileSystem
<1>2. \A h \in Handles : stubs[h] = Closed
  BY MPFSAssumption DEF Handles, FilesOK
<1>3. stubs \in [Handles -> File] /\ Closed \in File
  BY <1>2 DEF File, Closed
<1>10. locked
  OBVIOUS
<1>11. locked \in BOOLEAN
  OBVIOUS
<1> HIDE DEF stubs, locked
<1>4. <<>> \in Stream /\ f \in FileSystem
  BY DEF FilesOK, Stream
<1>5. /\ g.stubs = stubs /\ g.locked = locked /\ g.image = <<>>
      /\ g.numFiles = f.numFiles
  BY <1>1, <1>4, Zenon DEF FileSystem
<1>9. g \in FileSystem
  <2> DEFINE f1 == [f EXCEPT !.stubs = stubs]
             f2 == [f1 EXCEPT !.locked = locked]
             f3 == [f2 EXCEPT !.image = <<>>]
  <2>1. g = f3
    BY <1>1
  <2>2. f1 \in FileSystem
    BY <1>3, <1>4, SMT DEF FileSystem
  <2> HIDE DEF f1
  <2>3. f2 \in FileSystem
    BY <1>11, <2>2, SMT DEF FileSystem
  <2> HIDE DEF f2
  <2>4. f3 \in FileSystem
    BY <1>4, <2>3, SMT DEF FileSystem
  <2> QED
    BY <2>1, <2>4, Zenon
<1>6. OpenIn(g) = {}
  BY <1>2, <1>5 DEF OpenIn, IsOpen
<1>7. \A h \in Handles : g.stubs[h].pos <= Size(g.stubs[h].id)
  BY <1>2, <1>5 DEF Closed, Size
<1>8. g.stubs[MAX_MPFS_HANDLES] = Closed
  BY <1>2, <1>5, HandlesAre
<1> QED
  BY <1>5, <1>6, <1>7, <1>8, <1>9, <1>10 DEF FilesOK

LEMMA PutArrayIs ==
  ASSUME NEW f, FilesOK(f), NEW chunks \in Stream, NEW g, g = MPFSPutArray(f, chunks)
  PROVE  /\ FilesOK(g) /\ OpenIn(g) = OpenIn(f) /\ g.locked = f.locked
         /\ g.image = f.image \o chunks /\ g.numFiles = f.numFiles
<1> DEFINE image == f.image \o chunks
<1>1. f \in FileSystem /\ image \in Stream
  BY DEF FilesOK, FileSystem, Stream
<1>2. g = [f EXCEPT !.image = image]
  BY DEF MPFSPutArray
<1>3. g.image = image
  BY <1>1, <1>2, Zenon DEF FileSystem
<1> HIDE DEF image
<1>4. g.stubs = f.stubs /\ g.locked = f.locked /\ g.numFiles = f.numFiles
  BY <1>1, <1>2, Zenon DEF FileSystem
<1>7. g \in FileSystem
  BY <1>1, <1>2, SMT DEF FileSystem
<1>5. OpenIn(g) = OpenIn(f)
  BY <1>4, Zenon DEF OpenIn, IsOpen
<1>6. FilesOK(g)
  BY <1>4, <1>5, <1>7, Zenon DEF FilesOK
<1> QED
  BY <1>3, <1>4, <1>5, <1>6 DEF image

LEMMA PutEndIs ==
  ASSUME NEW f, FilesOK(f), NEW g, g = MPFSPutEnd(f)
  PROVE  /\ FilesOK(g) /\ OpenIn(g) = OpenIn(f) /\ ~ g.locked
         /\ g.image = f.image
         /\ g.numFiles = IF Len(f.image) > 0 /\ Head(f.image) = "tag" THEN Len(Fat) ELSE 0
<1> DEFINE numFiles == IF Len(f.image) > 0 /\ Head(f.image) = "tag" THEN Len(Fat) ELSE 0
<1> DEFINE locked == FALSE
<1>1. f \in FileSystem /\ numFiles \in {0, Len(Fat)} /\ locked \in BOOLEAN /\ ~ locked
  BY DEF FilesOK
<1>2. g = [f EXCEPT !.locked = locked, !.numFiles = numFiles]
  BY DEF MPFSPutEnd
<1> HIDE DEF numFiles, locked
<1>3. /\ g.stubs = f.stubs /\ g.locked = locked /\ g.image = f.image
      /\ g.numFiles = numFiles
  BY <1>1, <1>2, Zenon DEF FileSystem
<1>6. g \in FileSystem
  <2> DEFINE f1 == [f EXCEPT !.locked = locked]
             f2 == [f1 EXCEPT !.numFiles = numFiles]
  <2>1. g = f2
    BY <1>2
  <2>2. f1 \in FileSystem
    BY <1>1, SMT DEF FileSystem
  <2> HIDE DEF f1
  <2>3. f2 \in FileSystem
    BY <1>1, <2>2, SMT DEF FileSystem
  <2> QED
    BY <2>1, <2>3, Zenon
<1>4. OpenIn(g) = OpenIn(f)
  BY <1>3, Zenon DEF OpenIn, IsOpen
<1>5. FilesOK(g)
  BY <1>1, <1>3, <1>4, <1>6, Zenon DEF FilesOK
<1> QED
  BY <1>1, <1>3, <1>4, <1>5 DEF numFiles

-----------------------------------------------------------------------------
(* The invariant of the server.                                             *)

Status == {"GET", "POST", "MPFS_FORM", "MPFS_UP", "MPFS_OK", "MPFS_ERROR", "NOT_FOUND",
           "OVERFLOW", "NOT_IMPLEMENTED", "INTERNAL_SERVER_ERROR", "REDIRECT"}
Record == [file : FileHandle, offsets : FileHandle, httpStatus : Status, byteCount : Nat,
           nextCallback : Nat, callbackID : Chunks \cup {"none"}, callbackPos : File,
           lastReady : Nat, hasArgs : BOOLEAN, smPost : {"read", "end"}]
RecordOK(r) == r \in Record /\ r.callbackPos.pos <= Size(r.callbackPos.id)

Socket == [st : {"closed", "open", "closing"}, wasReset : BOOLEAN,
           ask : Stream, rx : Stream, room : 0 .. TxSize]
SocketOK(k) ==
  /\ k \in Socket /\ Len(k.rx) <= RxSize
  /\ k.st = "closed" => k.rx = <<>>
  /\ k.st # "open" => k.ask = <<>>

\* The first line of what a client says is a request.
Asks(s) == \A i \in 1 .. Len(s) :
  s[i] # "half" /\ (\A j \in 1 .. i - 1 : s[j] = "half") => s[i] \in DOMAIN Line

Records == [c \in Conns |-> Conn(c)]

Control ==
  /\ turn \in {Stack} \cup (Conns \X {"check", "process"})
  /\ sm \in [Conns -> States] /\ watch \in [Conns -> 0 .. Timeout] /\ spoilt \in BOOLEAN

\* The record of the connection at work is in curHTTP, and nowhere else.
Memory ==
  /\ curHTTPID \in Conns /\ DOMAIN http_memory = Conns
  /\ http_memory[curHTTPID] = Elsewhere
  /\ \A c \in Conns : RecordOK(Records[c])
  /\ \A c \in Conns : turn = <<c, "process">> => curHTTPID = c

Sockets ==
  /\ net \in [Conns -> Socket] /\ \A c \in Conns : SocketOK(net[c])
  /\ \A c \in Conns : turn = <<c, "process">> /\ net[c].wasReset => sm[c] = "DISCONNECT"

\* A connection that has not read its request has all of it before it, and no file.
Young == {"IDLE", "PARSE_REQUEST"}
Unread ==
  \A c \in Conns : net[c].wasReset \/ sm[c] \in Young => Asks(net[c].rx \o net[c].ask)
Fresh ==
  \A c \in Conns : sm[c] \in Young => /\ Records[c].file = MPFS_INVALID_HANDLE
                                      /\ Records[c].offsets = MPFS_INVALID_HANDLE

\* The open handles are those that the records hold, each for one connection.
HandlesOf(r) == {r.file, r.offsets} \cap Handles
Shared(open, records) ==
  /\ open = UNION {HandlesOf(records[c]) : c \in Conns}
  /\ \A c, d \in Conns : c # d => HandlesOf(records[c]) \cap HandlesOf(records[d]) = {}
  /\ \A c \in Conns : records[c].file = records[c].offsets => HandlesOf(records[c]) = {}

HTTPInv ==
  /\ Control /\ Memory /\ Sockets /\ Unread /\ Fresh
  /\ FilesOK(fs) /\ (~ spoilt => Shared(OpenIn(fs), Records))

\* What a step does to the handles of the one connection that takes it.
Moves(open, r, open2, r2) ==
  /\ open2 = (open \ HandlesOf(r)) \cup HandlesOf(r2)
  /\ HandlesOf(r2) \cap (open \ HandlesOf(r)) = {}
  /\ r2.file = r2.offsets => HandlesOf(r2) = {}

LEMMA SharedMoves ==
  ASSUME NEW open, NEW records, DOMAIN records = Conns, Shared(open, records), NEW c \in Conns,
         NEW open2, NEW r2, Moves(open, records[c], open2, r2),
         NEW records2, records2 = [records EXCEPT ![c] = r2]
  PROVE  Shared(open2, records2)
<1>1. records2[c] = r2 /\ \A d \in Conns : d # c => records2[d] = records[d]
  OBVIOUS
<1>2. \A d \in Conns : HandlesOf(records[d]) \subseteq open
  BY DEF Shared
<1>3. \A d \in Conns : d # c => HandlesOf(records[d]) \cap HandlesOf(r2) = {}
  <2> TAKE d \in Conns
  <2> HAVE d # c
  <2>1. HandlesOf(records[d]) \subseteq open \ HandlesOf(records[c])
    BY <1>2 DEF Shared
  <2> QED
    BY <2>1 DEF Moves
<1>4. open2 = UNION {HandlesOf(records2[d]) : d \in Conns}
  <2>1. ASSUME NEW h PROVE h \in open2 <=> \E d \in Conns : h \in HandlesOf(records2[d])
    <3>1. h \in open <=> \E d \in Conns : h \in HandlesOf(records[d])
      BY DEF Shared
    <3>2. h \in open2 <=> (h \in open /\ h \notin HandlesOf(records[c])) \/ h \in HandlesOf(r2)
      BY DEF Moves
    <3>3. \A d \in Conns : d # c /\ h \in HandlesOf(records[d]) => h \notin HandlesOf(records[c])
      BY DEF Shared
    <3> QED
      BY <1>1, <3>1, <3>2, <3>3, Zenon
  <2> QED
    BY <2>1
<1>5. \A d, e \in Conns : d # e => HandlesOf(records2[d]) \cap HandlesOf(records2[e]) = {}
  BY <1>1, <1>3 DEF Shared
<1>6. \A d \in Conns : records2[d].file = records2[d].offsets => HandlesOf(records2[d]) = {}
  BY <1>1, Zenon DEF Shared, Moves
<1> QED
  BY <1>4, <1>5, <1>6, Zenon DEF Shared

-----------------------------------------------------------------------------
(* A step of HTTPProcess().                                                 *)

\* What a step must respect to keep the invariant: s is where connection c
\* goes, k its socket, r its record and f the file system after the step.
Goes(c, s) ==
  /\ turn = <<c, "process">> /\ turn' \in {turn, After(c)}
  /\ s \in States /\ sm' = [sm EXCEPT ![c] = s]
  /\ watch' \in [Conns -> 0 .. Timeout]
  /\ UNCHANGED <<curHTTPID, http_memory>>
SocketMoves(c, s, k) ==
  /\ net' = [net EXCEPT ![c] = k] /\ SocketOK(k)
  /\ k.wasReset \/ s \in Young => Asks(k.rx \o k.ask)
  /\ k.wasReset /\ turn' = turn => s = "DISCONNECT"
RecordMoves(s, r) ==
  /\ curHTTP' = r /\ RecordOK(r)
  /\ s \in Young => r.file = MPFS_INVALID_HANDLE /\ r.offsets = MPFS_INVALID_HANDLE
FilesMove(r, f) ==
  /\ fs' = f /\ FilesOK(f)
  /\ ~ spoilt' => Moves(OpenIn(fs), curHTTP, OpenIn(f), r)
Spoils ==
  /\ spoilt' \in BOOLEAN /\ (spoilt => spoilt')
  /\ fs'.locked /\ OpenIn(fs) # {} => spoilt'

LEMMA AfterIs ==
  ASSUME NEW c \in Conns
  PROVE  /\ After(c) \in {Stack} \cup (Conns \X {"check", "process"})
         /\ \A d \in Conns : After(c) # <<d, "process">>
<1>1. \/ After(c) = Stack
      \/ After(c) = <<c + 1, "check">> /\ c + 1 \in Conns
  BY Zenon DEF After
<1>2. \A d \in Conns : Stack # <<d, "process">>
  BY DEF Stack
<1>3. \A d \in Conns : <<c + 1, "check">> # <<d, "process">>
  OBVIOUS
<1> QED
  BY <1>1, <1>2, <1>3

LEMMA WhoMoves ==
  ASSUME NEW c \in Conns, turn = <<c, "process">>,
         turn' \in {turn, After(c)}, NEW d \in Conns, turn' = <<d, "process">>
  PROVE  d = c /\ turn' = turn
<1>1. turn' = turn
  BY AfterIs
<1>2. <<c, "process">> = <<d, "process">>
  BY <1>1
<1> QED
  BY <1>1, <1>2

\* What the invariant says of the connection at work.
LEMMA AtWork ==
  ASSUME HTTPInv, NEW c \in Conns, turn = <<c, "process">>
  PROVE  /\ curHTTPID = c /\ curHTTP = Records[c] /\ RecordOK(curHTTP)
         /\ SocketOK(net[c]) /\ sm[c] \in States
         /\ net[c].wasReset => sm[c] = "DISCONNECT"
         /\ FilesOK(fs)
         /\ sm[c] \in Young => /\ Asks(net[c].rx \o net[c].ask)
                               /\ curHTTP.file = MPFS_INVALID_HANDLE
                               /\ curHTTP.offsets = MPFS_INVALID_HANDLE
         /\ ~ spoilt => /\ HandlesOf(curHTTP) \subseteq OpenIn(fs)
                        /\ curHTTP.file = curHTTP.offsets => HandlesOf(curHTTP) = {}
<1>1. curHTTPID = c
  BY DEF HTTPInv, Memory
<1>2. curHTTP = Records[c]
  BY <1>1 DEF Records, Conn
<1>3. /\ RecordOK(curHTTP) /\ SocketOK(net[c]) /\ sm[c] \in States /\ FilesOK(fs)
      /\ net[c].wasReset => sm[c] = "DISCONNECT"
  BY <1>2 DEF HTTPInv, Memory, Sockets, Control
<1>4. sm[c] \in Young => /\ Asks(net[c].rx \o net[c].ask)
                         /\ curHTTP.file = MPFS_INVALID_HANDLE
                         /\ curHTTP.offsets = MPFS_INVALID_HANDLE
  BY <1>2, Zenon DEF HTTPInv, Unread, Fresh
<1>5. ~ spoilt => /\ HandlesOf(curHTTP) \subseteq OpenIn(fs)
                  /\ curHTTP.file = curHTTP.offsets => HandlesOf(curHTTP) = {}
  BY <1>2, Zenon DEF HTTPInv, Shared
<1> QED
  BY <1>1, <1>2, <1>3, <1>4, <1>5, Zenon

LEMMA StepKeeps ==
  ASSUME HTTPInv, Spoils, NEW c \in Conns, NEW s, NEW k, NEW r, NEW f,
         Goes(c, s), SocketMoves(c, s, k), RecordMoves(s, r), FilesMove(r, f)
  PROVE  HTTPInv'
<1>1. /\ turn = <<c, "process">> /\ turn' \in {turn, After(c)}
      /\ curHTTPID = c /\ curHTTPID' = c /\ http_memory' = http_memory
      /\ curHTTP = Records[c] /\ curHTTP' = r /\ fs' = f
  BY AtWork DEF Goes, RecordMoves, FilesMove
<1>2. /\ sm \in [Conns -> States] /\ sm'[c] = s
      /\ \A d \in Conns : d # c => sm'[d] = sm[d]
  BY DEF Goes, HTTPInv, Control
<1>3. /\ net' \in [Conns -> Socket] /\ net'[c] = k
      /\ \A d \in Conns : d # c => net'[d] = net[d]
  BY DEF SocketMoves, HTTPInv, Sockets, SocketOK
<1>4. DOMAIN Records = Conns /\ Records' = [Records EXCEPT ![c] = r]
  BY <1>1 DEF Records, Conn
<1>5. Records'[c] = r /\ \A d \in Conns : d # c => Records'[d] = Records[d]
  BY <1>4
<1>6. Control'
  <2>1. turn' \in {Stack} \cup (Conns \X {"check", "process"})
    BY <1>1, AfterIs DEF HTTPInv, Control
  <2>2. sm' \in [Conns -> States]
    BY <1>2 DEF Goes
  <2> QED
    BY <2>1, <2>2, Zenon DEF Control, Goes, Spoils
<1>7. Memory'
  <2>1. \A d \in Conns : RecordOK(Records'[d])
    BY <1>5, Zenon DEF HTTPInv, Memory, RecordMoves
  <2>2. \A d \in Conns : turn' = <<d, "process">> => curHTTPID' = d
    BY <1>1, WhoMoves
  <2> QED
    BY <1>1, <2>1, <2>2, Zenon DEF HTTPInv, Memory
<1>8. Sockets'
  <2>1. \A d \in Conns : SocketOK(net'[d])
    BY <1>3, Zenon DEF HTTPInv, Sockets, SocketMoves
  <2>2. \A d \in Conns : turn' = <<d, "process">> /\ net'[d].wasReset => sm'[d] = "DISCONNECT"
    BY <1>1, <1>2, <1>3, WhoMoves DEF SocketMoves
  <2> QED
    BY <1>3, <2>1, <2>2, Zenon DEF Sockets
<1>9. Unread'
  BY <1>2, <1>3, Zenon DEF HTTPInv, Unread, SocketMoves
<1>10. Fresh'
  BY <1>2, <1>5, Zenon DEF HTTPInv, Fresh, RecordMoves
<1>11. (~ spoilt => Shared(OpenIn(fs), Records))'
  <2> SUFFICES ASSUME ~ spoilt' PROVE Shared(OpenIn(f), Records')
    BY <1>1, Zenon DEF OpenIn
  <2>1. ~ spoilt /\ Moves(OpenIn(fs), Records[c], OpenIn(f), r)
    BY <1>1 DEF Spoils, FilesMove
  <2>2. Shared(OpenIn(fs), Records)
    BY <2>1 DEF HTTPInv
  <2> QED
    BY <1>4, <2>1, <2>2, SharedMoves, Zenon
<1>12. FilesOK(fs)'
  BY <1>1, Zenon DEF FilesMove
<1> QED
  BY <1>6, <1>7, <1>8, <1>9, <1>10, <1>11, <1>12, Zenon DEF HTTPInv

\* The socket is left alone.
LEMMA SocketStays ==
  ASSUME HTTPInv, NEW c \in Conns, turn = <<c, "process">>, sm[c] # "DISCONNECT",
         NEW s, s \in Young => sm[c] \in Young, net' = net
  PROVE  SocketMoves(c, s, net[c])
<1>1. /\ SocketOK(net[c]) /\ ~ net[c].wasReset
      /\ sm[c] \in Young => Asks(net[c].rx \o net[c].ask)
  BY AtWork
<1>2. net' = [net EXCEPT ![c] = net[c]]
  BY Zenon DEF HTTPInv, Sockets
<1> QED
  BY <1>1, <1>2, Zenon DEF SocketMoves

\* The server reads from it, or divides the FIFOs anew.
LEMMA SocketTakes ==
  ASSUME HTTPInv, NEW c \in Conns, turn = <<c, "process">>, sm[c] # "DISCONNECT",
         NEW s, s \notin Young, NEW rx \in Stream, Len(rx) <= Len(net[c].rx),
         NEW k, k = [net[c] EXCEPT !.rx = rx], net' = [net EXCEPT ![c].rx = rx]
  PROVE  SocketMoves(c, s, k)
<1>1. net[c] \in Socket /\ SocketOK(net[c]) /\ ~ net[c].wasReset
  BY AtWork DEF SocketOK
<1>2. net' = [net EXCEPT ![c] = k]
  OBVIOUS
<1>3. k \in Socket
  BY <1>1, SMT DEF Socket
<1>4. k.st = net[c].st /\ k.ask = net[c].ask /\ k.rx = rx /\ k.wasReset = net[c].wasReset
  BY <1>1, Zenon DEF Socket
<1>5. Len(k.rx) <= RxSize
  BY <1>1, <1>4, HTTPAssumption, LenProperties DEF SocketOK, Socket, Stream
<1>6. net[c].rx = <<>> => rx = <<>>
  BY LenProperties, EmptySeq DEF Stream
<1>7. SocketOK(k)
  BY <1>1, <1>3, <1>4, <1>5, <1>6, Zenon DEF SocketOK
<1> QED
  BY <1>1, <1>2, <1>4, <1>7, Zenon DEF SocketMoves

\* The server writes to it.
LEMMA SocketFills ==
  ASSUME HTTPInv, NEW c \in Conns, turn = <<c, "process">>, sm[c] # "DISCONNECT",
         NEW s, s \notin Young, NEW n \in Nat, Fill(c, n),
         NEW k, k = net'[c]
  PROVE  SocketMoves(c, s, k)
<1> DEFINE room == IF net[c].room < n THEN 0 ELSE net[c].room - n
           socket == [net[c] EXCEPT !.room = room]
<1>1. net[c] \in Socket /\ SocketOK(net[c]) /\ ~ net[c].wasReset
  BY AtWork DEF SocketOK
<1>2. net' = [net EXCEPT ![c] = socket]
  BY DEF Fill
<1>3. room \in 0 .. TxSize
  BY <1>1, HTTPAssumption DEF Socket
<1> HIDE DEF room
<1>4. socket \in Socket
  BY <1>1, <1>3, SMT DEF Socket
<1>5. /\ socket.st = net[c].st /\ socket.ask = net[c].ask
      /\ socket.rx = net[c].rx /\ socket.wasReset = net[c].wasReset
  BY <1>1, Zenon DEF Socket
<1> HIDE DEF socket
<1>6. k = socket
  BY <1>2 DEF HTTPInv, Sockets
<1>7. SocketOK(k)
  BY <1>1, <1>4, <1>5, <1>6, Zenon DEF SocketOK
<1> QED
  BY <1>1, <1>2, <1>5, <1>6, <1>7, Zenon DEF SocketMoves

LEMMA DisconnectIs ==
  ASSUME NEW socket, SocketOK(socket), NEW k, k = TCPDisconnect(socket) \/ k = Reset(socket)
  PROVE  SocketOK(k) /\ k.rx = <<>> /\ k.ask = <<>> /\ k.room = 0
<1>1. <<>> \in Stream /\ 0 \in 0 .. TxSize /\ Len(<<>>) = 0 /\ 0 <= RxSize
  BY HTTPAssumption DEF Stream
<1>2. socket.wasReset \in BOOLEAN
  BY DEF SocketOK, Socket
<1>3. \/ k = [ClosedSocket EXCEPT !.st = "closing", !.wasReset = socket.wasReset]
      \/ k = [ClosedSocket EXCEPT !.wasReset = TRUE]
  BY Zenon DEF TCPDisconnect, Reset
<1>4. k.rx = <<>> /\ k.ask = <<>> /\ k.room = 0 /\ k.st \in {"closed", "closing"}
      /\ k.wasReset \in BOOLEAN
  BY <1>2, <1>3 DEF ClosedSocket
<1>5. k = [st |-> k.st, wasReset |-> k.wasReset, ask |-> k.ask, rx |-> k.rx, room |-> k.room]
  BY <1>3 DEF ClosedSocket
<1>6. k \in Socket
  BY <1>1, <1>4, <1>5 DEF Socket
<1> QED
  BY <1>1, <1>4, <1>6 DEF SocketOK

\* The server closes it.
LEMMA SocketCloses ==
  ASSUME HTTPInv, NEW c \in Conns, turn = <<c, "process">>,
         NEW s, s = "DISCONNECT" \/ turn' # turn,
         net' = [net EXCEPT ![c] = TCPDisconnect(@)]
  PROVE  SocketMoves(c, s, TCPDisconnect(net[c]))
<1> DEFINE k == TCPDisconnect(net[c])
<1>1. SocketOK(net[c])
  BY AtWork
<1>2. SocketOK(k) /\ k.rx = <<>> /\ k.ask = <<>>
  BY <1>1, DisconnectIs
<1>3. net' = [net EXCEPT ![c] = k]
  OBVIOUS
<1> HIDE DEF k
<1>4. Asks(k.rx \o k.ask)
  BY <1>2 DEF Asks
<1>5. SocketMoves(c, s, k)
  BY <1>2, <1>3, <1>4, Zenon DEF SocketMoves
<1> QED
  BY <1>5 DEF k

\* No handle is opened or closed.
LEMMA FilesStay ==
  ASSUME HTTPInv, Spoils, NEW c \in Conns, turn = <<c, "process">>,
         NEW r, r.file = curHTTP.file, r.offsets = curHTTP.offsets,
         NEW f, FilesOK(f), fs' = f, OpenIn(f) = OpenIn(fs)
  PROVE  FilesMove(r, f)
<1>1. HandlesOf(r) = HandlesOf(curHTTP)
  BY Zenon DEF HandlesOf
<1>2. ~ spoilt' => /\ HandlesOf(curHTTP) \subseteq OpenIn(fs)
                   /\ curHTTP.file = curHTTP.offsets => HandlesOf(curHTTP) = {}
  BY AtWork, Zenon DEF Spoils
<1> QED
  BY <1>1, <1>2 DEF FilesMove, Moves

-----------------------------------------------------------------------------
(* The actions.                                                             *)

LEMMA StatesAre ==
  /\ {"IDLE", "PARSE_REQUEST", "PARSE_HEADERS", "AUTHENTICATE", "PROCESS_GET", "PROCESS_POST",
      "PROCESS_REQUEST", "SERVE_HEADERS", "SERVE_COOKIES", "SERVE_BODY", "SEND_FROM_CALLBACK",
      "DISCONNECT"} = States
  /\ Never \in Nat /\ Wrapped \in Nat /\ 0 \in Nat /\ ContentLength \in Nat
  /\ MPFS_INVALID_HANDLE \in FileHandle /\ 0 \in FileHandle
BY MPFSAssumption DEF States, Receiving, Never, Wrapped, ContentLength, FileHandle

LEMMA GoesTo ==
  ASSUME HTTPInv, NEW c \in Conns, turn = <<c, "process">>, NEW s \in States, Goto(c, s),
         Again \/ Done(c), ResetWatchdog(c) \/ watch' = watch, UNCHANGED Loaded
  PROVE  Goes(c, s)
<1>1. watch' \in [Conns -> 0 .. Timeout]
  BY HTTPAssumption DEF HTTPInv, Control, ResetWatchdog
<1>2. turn' \in {turn, After(c)}
  BY Zenon DEF Again, Done
<1> QED
  BY <1>1, <1>2, Zenon DEF Goes, Goto, Loaded

LEMMA GoesOn ==
  ASSUME HTTPInv, NEW c \in Conns, turn = <<c, "process">>, sm' = sm,
         Again \/ Done(c), ResetWatchdog(c) \/ watch' = watch, UNCHANGED Loaded
  PROVE  Goes(c, sm[c])
<1>1. sm[c] \in States /\ Goto(c, sm[c])
  BY DEF HTTPInv, Control, Goto
<1> QED
  BY <1>1, GoesTo

\* A record whose file handles stay the same.
LEMMA RecordStays ==
  ASSUME HTTPInv, NEW c \in Conns, turn = <<c, "process">>, NEW r, RecordOK(r), curHTTP' = r,
         r.file = curHTTP.file, r.offsets = curHTTP.offsets,
         NEW s, s \in Young => sm[c] \in Young
  PROVE  RecordMoves(s, r)
BY AtWork, Zenon DEF RecordMoves

LEMMA IdleKeeps ==
  ASSUME HTTPInv, Spoils, NEW c \in Conns, Idle(c)
  PROVE  HTTPInv'
<1> DEFINE r == [curHTTP EXCEPT !.hasArgs = FALSE, !.lastReady = Never, !.byteCount = 0,
                                !.smPost = "read", !.callbackID = "none"]
           s == "PARSE_REQUEST"
<1>1. turn = <<c, "process">> /\ sm[c] = "IDLE"
  BY DEF Idle, At
<1>2. Goes(c, s)
  BY <1>1, GoesTo, StatesAre, Zenon DEF Idle
<1>3. SocketMoves(c, s, net[c])
  BY <1>1, SocketStays DEF Idle, Young
<1>4. RecordOK(curHTTP) /\ FilesOK(fs)
  BY <1>1, AtWork
<1>5. r \in Record /\ r.callbackPos = curHTTP.callbackPos
      /\ r.file = curHTTP.file /\ r.offsets = curHTTP.offsets
  BY <1>4, StatesAre, Zenon DEF RecordOK, Record
<1>6. curHTTP' = r /\ fs' = fs
  BY DEF Idle
<1> HIDE DEF r
<1>7. RecordOK(r)
  BY <1>4, <1>5, Zenon DEF RecordOK
<1>8. RecordMoves(s, r)
  BY <1>1, <1>5, <1>6, <1>7, RecordStays DEF Young
<1>9. FilesMove(r, fs)
  BY <1>1, <1>4, <1>5, <1>6, FilesStay
<1> QED
  BY <1>2, <1>3, <1>8, <1>9, StepKeeps

LEMMA WaitForLineKeeps ==
  ASSUME HTTPInv, Spoils, NEW c \in Conns, WaitForLine(c)
  PROVE  HTTPInv'
<1>1. turn = <<c, "process">> /\ sm[c] \in {"PARSE_REQUEST", "PARSE_HEADERS"} /\ fs' = fs
  BY DEF WaitForLine, At
<1>2. RecordOK(curHTTP) /\ FilesOK(fs)
  BY <1>1, AtWork
<1>3. CASE Done(c) /\ UNCHANGED <<sm, curHTTP, net>>
  <2>1. Goes(c, sm[c])
    BY <1>1, <1>3, GoesOn, Zenon DEF WaitForLine
  <2>2. SocketMoves(c, sm[c], net[c])
    BY <1>1, <1>3, SocketStays
  <2>3. RecordMoves(sm[c], curHTTP) /\ FilesMove(curHTTP, fs)
    BY <1>1, <1>2, <1>3, RecordStays, FilesStay
  <2> QED
    BY <2>1, <2>2, <2>3, StepKeeps
<1>4. CASE /\ curHTTP' = [curHTTP EXCEPT !.httpStatus = "OVERFLOW"]
           /\ Goto(c, "SERVE_HEADERS") /\ Again /\ UNCHANGED net
  <2> DEFINE r == [curHTTP EXCEPT !.httpStatus = "OVERFLOW"]
  <2>1. Goes(c, "SERVE_HEADERS")
    BY <1>1, <1>4, GoesTo, StatesAre, Zenon DEF WaitForLine
  <2>2. SocketMoves(c, "SERVE_HEADERS", net[c])
    BY <1>1, <1>4, SocketStays DEF Young
  <2>3. r \in Record /\ r.callbackPos = curHTTP.callbackPos
        /\ r.file = curHTTP.file /\ r.offsets = curHTTP.offsets
    BY <1>2, Zenon DEF RecordOK, Record, Status
  <2>4. curHTTP' = r
    BY <1>4
  <2> HIDE DEF r
  <2>5. RecordOK(r)
    BY <1>2, <2>3, Zenon DEF RecordOK
  <2>6. RecordMoves("SERVE_HEADERS", r) /\ FilesMove(r, fs)
    BY <1>1, <1>2, <2>3, <2>4, <2>5, RecordStays, FilesStay DEF Young
  <2> QED
    BY <2>1, <2>2, <2>6, StepKeeps
<1>5. CASE /\ net' = [net EXCEPT ![c] = TCPDisconnect(@)]
           /\ Goto(c, "DISCONNECT") /\ Again /\ UNCHANGED curHTTP
  <2>1. Goes(c, "DISCONNECT")
    BY <1>1, <1>5, GoesTo, StatesAre, Zenon DEF WaitForLine
  <2>2. SocketMoves(c, "DISCONNECT", TCPDisconnect(net[c]))
    BY <1>1, <1>5, SocketCloses
  <2>3. RecordMoves("DISCONNECT", curHTTP) /\ FilesMove(curHTTP, fs)
    BY <1>1, <1>2, <1>5, RecordStays, FilesStay DEF Young
  <2> QED
    BY <2>1, <2>2, <2>3, StepKeeps
<1> QED
  BY <1>3, <1>4, <1>5, Zenon DEF WaitForLine

\* A step that opens and closes nothing.
Keeps(r) == RecordOK(r) /\ r.file = curHTTP.file /\ r.offsets = curHTTP.offsets

LEMMA PlainStep ==
  ASSUME HTTPInv, Spoils, NEW c \in Conns, NEW s, NEW k, NEW r, NEW f,
         Goes(c, s), SocketMoves(c, s, k), s \in Young => sm[c] \in Young,
         curHTTP' = r, Keeps(r), fs' = f, FilesOK(f), OpenIn(f) = OpenIn(fs)
  PROVE  HTTPInv'
<1>1. turn = <<c, "process">>
  BY DEF Goes
<1>2. RecordMoves(s, r)
  BY <1>1, RecordStays DEF Keeps
<1>3. FilesMove(r, f)
  BY <1>1, FilesStay DEF Keeps
<1> QED
  BY <1>2, <1>3, StepKeeps

\* A new status, and nothing else that the invariant speaks of.
LEMMA StatusKeeps ==
  ASSUME RecordOK(curHTTP), NEW status \in Status,
         NEW r, r = [curHTTP EXCEPT !.httpStatus = status]
  PROVE  Keeps(r)
<1>1. r \in Record /\ r.callbackPos = curHTTP.callbackPos
      /\ r.file = curHTTP.file /\ r.offsets = curHTTP.offsets
  BY Zenon DEF RecordOK, Record
<1> QED
  BY <1>1, Zenon DEF RecordOK, Keeps

LEMMA PrefixIs ==
  ASSUME NEW rx \in Stream, NEW n \in 0 .. Len(rx)
  PROVE  /\ SubSeq(rx, 1, n) \in Stream
         /\ SubSeq(rx, n + 1, Len(rx)) \in Stream
         /\ Len(SubSeq(rx, n + 1, Len(rx))) = Len(rx) - n
<1>1. Len(rx) \in Nat /\ \A i \in 1 .. Len(rx) : rx[i] \in Tokens
  BY LenProperties, ElementOfSeq DEF Stream
<1>2. SubSeq(rx, 1, n) \in Stream
  <2>1. \A i \in 1 .. n : rx[i] \in Tokens
    BY <1>1
  <2> QED
    BY <1>1, <2>1, SubSeqProperties DEF Stream
<1>3. \A i \in n + 1 .. Len(rx) : rx[i] \in Tokens
  BY <1>1
<1>4. /\ SubSeq(rx, n + 1, Len(rx)) \in Stream
      /\ Len(SubSeq(rx, n + 1, Len(rx))) = IF n + 1 <= Len(rx) THEN Len(rx) - (n + 1) + 1 ELSE 0
  BY <1>1, <1>3, SubSeqProperties DEF Stream
<1>5. (IF n + 1 <= Len(rx) THEN Len(rx) - (n + 1) + 1 ELSE 0) = Len(rx) - n
  BY <1>1
<1> QED
  BY <1>2, <1>4, <1>5

\* The first line that is there.
LEMMA LineIs ==
  ASSUME HTTPInv, NEW c \in Conns, LineEnds(c) # {}, NEW m, m = Min(LineEnds(c))
  PROVE  /\ m \in 1 .. Ready(c) /\ net[c].rx[m] # "half"
         /\ \A j \in 1 .. m - 1 : net[c].rx[j] = "half"
<1>1. net[c].rx \in Stream /\ Ready(c) \in Nat
  BY LenProperties DEF HTTPInv, Sockets, Socket, Ready, Stream
<1>2. m \in LineEnds(c) /\ \A i \in LineEnds(c) : m <= i
  BY <1>1, LeastNumber DEF LineEnds
<1>3. m \in 1 .. Ready(c) /\ net[c].rx[m] # "half"
  BY <1>2 DEF LineEnds
<1>4. ASSUME NEW j \in 1 .. m - 1 PROVE net[c].rx[j] = "half"
  <2>1. j \in 1 .. Ready(c) /\ ~ (m <= j)
    BY <1>1, <1>3
  <2> QED
    BY <1>2, <2>1 DEF LineEnds
<1> QED
  BY <1>3, <1>4

LEMMA LineIsTaken ==
  ASSUME HTTPInv, NEW c \in Conns, turn = <<c, "process">>, sm[c] # "DISCONNECT",
         LineEnds(c) # {}, TakeLine(c), NEW s, s \notin Young
  PROVE  \E k : SocketMoves(c, s, k)
<1> DEFINE m == Min(LineEnds(c))
           rx == SubSeq(net[c].rx, m + 1, Len(net[c].rx))
           k == [net[c] EXCEPT !.rx = rx]
<1>1. m \in 1 .. Ready(c) /\ net[c].rx \in Stream /\ Len(net[c].rx) \in Nat
  BY LineIs, LenProperties DEF HTTPInv, Sockets, Socket, Stream
<1>2. rx \in Stream /\ Len(rx) = Len(net[c].rx) - m
  BY <1>1, PrefixIs DEF Ready
<1>3. Len(rx) <= Len(net[c].rx)
  BY <1>1, <1>2
<1>4. net' = [net EXCEPT ![c].rx = rx]
  BY Zenon DEF TakeLine, Take
<1> HIDE DEF rx
<1>5. SocketMoves(c, s, k)
  BY <1>2, <1>3, <1>4, SocketTakes
<1> QED
  BY <1>5

\* A request line is one that the server knows.
LEMMA RequestIsKnown ==
  ASSUME HTTPInv, NEW c \in Conns, turn = <<c, "process">>, sm[c] = "PARSE_REQUEST",
         LineEnds(c) # {}
  PROVE  FirstLine(c) \in DOMAIN Line
<1> DEFINE m == Min(LineEnds(c))
           rx == net[c].rx
           ask == net[c].ask
<1>1. /\ m \in 1 .. Ready(c) /\ rx[m] # "half" /\ \A j \in 1 .. m - 1 : rx[j] = "half"
      /\ rx \in Stream /\ ask \in Stream
  BY LineIs DEF HTTPInv, Sockets, Socket
<1>2. Asks(rx \o ask)
  BY AtWork DEF Young
<1> HIDE DEF m, rx, ask
<1>3. /\ Len(rx) \in Nat /\ Len(ask) \in Nat /\ Len(rx \o ask) = Len(rx) + Len(ask)
      /\ \A i \in 1 .. Len(rx) : (rx \o ask)[i] = rx[i]
  BY <1>1, LenProperties, ConcatProperties DEF Stream
<1>4. m \in 1 .. Len(rx)
  BY <1>1 DEF Ready, rx
<1>5. /\ m \in 1 .. Len(rx \o ask) /\ (rx \o ask)[m] = rx[m]
      /\ \A j \in 1 .. m - 1 : (rx \o ask)[j] = "half"
  BY <1>1, <1>3, <1>4
<1>6. rx[m] \in DOMAIN Line
  BY <1>1, <1>2, <1>5, Zenon DEF Asks
<1> QED
  BY <1>6 DEF FirstLine, m, rx

LEMMA IdOfIs ==
  ASSUME NEW name
  PROVE  IdOf(name) \in Nat \ {0}
<1> DEFINE found == {id \in Ids : Fat[id].name = name}
<1>1. CASE found = {}
  <2>1. IdOf(name) = Len(Fat) + 1
    BY <1>1, Zenon DEF IdOf
  <2> QED
    BY <2>1, HandlesAre
<1>2. CASE found # {}
  <2>1. IdOf(name) = Min(found)
    BY <1>2, Zenon DEF IdOf
  <2>2. found \subseteq Nat
    BY HandlesAre
  <2>3. Min(found) \in found
    BY <1>2, <2>2, LeastNumber
  <2> QED
    BY <2>1, <2>3, HandlesAre
<1> QED
  BY <1>1, <1>2

LEMMA OpenFilesIs ==
  ASSUME NEW name, FilesOK(fs), NEW o, o = OpenFiles(name)
  PROVE  /\ FilesOK(o.fs) /\ o.file \in FileHandle /\ o.offsets \in FileHandle
         /\ OpenIn(o.fs) = OpenIn(fs) \cup HandlesOf(o)
         /\ HandlesOf(o) \cap OpenIn(fs) = {}
         /\ o.file = o.offsets => HandlesOf(o) = {}
<1> DEFINE f == MPFSOpen(fs, name)
           i == IF HasIndex(f.fs, f.h) THEN MPFSOpenID(f.fs, MPFSGetID(f.fs, f.h) + 1)
                ELSE [fs |-> f.fs, h |-> MPFS_INVALID_HANDLE]
<1>1. o.fs = i.fs /\ o.file = f.h /\ o.offsets = i.h
  BY DEF OpenFiles
<1>2. FilesOK(f.fs) /\ (OpenFailed(fs, f) \/ OpenDone(fs, IdOf(name), f))
  BY IdOfIs, OpenedIs DEF MPFSOpen
<1> HIDE DEF f
<1>3. \/ i.fs = f.fs /\ i.h = MPFS_INVALID_HANDLE
      \/ /\ IsOpen(f.fs, f.h) /\ FilesOK(i.fs)
         /\ OpenDone(f.fs, MPFSGetID(f.fs, f.h) + 1, i)
  <2>1. CASE HasIndex(f.fs, f.h)
    <3> DEFINE id == MPFSGetID(f.fs, f.h) + 1
    <3>1. IsOpen(f.fs, f.h)
      BY <2>1, Zenon DEF HasIndex
    <3>2. f.fs.stubs[f.h].id \in Ids
      BY <1>2, <3>1, OpenHasFile
    <3>6. MPFSGetID(f.fs, f.h) \in Nat
      BY <3>2, HandlesAre DEF MPFSGetID
    <3>3. id \in Nat \ {0}
      BY <3>6
    <3>4. i = Opened(f.fs, id)
      BY <2>1, Zenon DEF MPFSOpenID
    <3> HIDE DEF i, id
    <3>5. FilesOK(i.fs) /\ (OpenFailed(f.fs, i) \/ OpenDone(f.fs, id, i))
      BY <1>2, <3>3, <3>4, OpenedIs
    <3> QED
      BY <3>1, <3>5, Zenon DEF OpenFailed, id
  <2>2. CASE ~ HasIndex(f.fs, f.h)
    <3>1. i = [fs |-> f.fs, h |-> MPFS_INVALID_HANDLE]
      BY <2>2, Zenon
    <3> HIDE DEF i
    <3> QED
      BY <3>1
  <2> QED
    BY <2>1, <2>2
<1> HIDE DEF i
<1>4. CASE OpenFailed(fs, f)
  <2>1. f.fs = fs /\ f.h = MPFS_INVALID_HANDLE /\ ~ IsOpen(f.fs, f.h)
    BY <1>4, HandlesAre DEF OpenFailed, IsOpen
  <2>2. i.fs = fs /\ i.h = MPFS_INVALID_HANDLE
    BY <1>3, <2>1
  <2>3. HandlesOf(o) = {}
    BY <1>1, <2>1, <2>2, HandlesAre DEF HandlesOf
  <2> QED
    BY <1>1, <2>1, <2>2, <2>3 DEF FileHandle
<1>5. CASE OpenDone(fs, IdOf(name), f)
  <2>1. f.h \in Handles /\ f.h \notin OpenIn(fs) /\ OpenIn(f.fs) = OpenIn(fs) \cup {f.h}
    BY <1>5 DEF OpenDone, OpenIn
  <2>2. CASE i.fs = f.fs /\ i.h = MPFS_INVALID_HANDLE
    <3>1. HandlesOf(o) = {f.h} /\ o.file # o.offsets
      BY <1>1, <2>1, <2>2, HandlesAre DEF HandlesOf
    <3> QED
      BY <1>1, <1>2, <2>1, <2>2, <3>1 DEF FileHandle
  <2>3. CASE FilesOK(i.fs) /\ OpenDone(f.fs, MPFSGetID(f.fs, f.h) + 1, i)
    <3>1. i.h \in Handles /\ i.h \notin OpenIn(f.fs) /\ OpenIn(i.fs) = OpenIn(f.fs) \cup {i.h}
      BY <2>3 DEF OpenDone, OpenIn
    <3>2. HandlesOf(o) = {f.h, i.h} /\ o.file # o.offsets
      BY <1>1, <2>1, <3>1 DEF HandlesOf
    <3> QED
      BY <1>1, <2>1, <2>3, <3>1, <3>2 DEF FileHandle
  <2> QED
    BY <1>3, <2>2, <2>3, Zenon
<1> QED
  BY <1>2, <1>4, <1>5

LEMMA LinesAre ==
  ASSUME NEW t \in DOMAIN Line
  PROVE  Line[t].method \in {"GET", "POST", "PUT"} /\ Line[t].args \in BOOLEAN
<1>1. t \in {"page", "nothing", "form", "image", "config", "lost", "other"}
  BY Zenon DEF Line
<1>2. Line[t].method \in {"GET", "POST", "PUT"}
  BY <1>1 DEF Line
<1>3. Line[t].args \in BOOLEAN
  <2>1. Line["page"].args = TRUE
    BY Zenon DEF Line
  <2>2. /\ Line["nothing"].args = FALSE /\ Line["form"].args = FALSE
        /\ Line["image"].args = FALSE /\ Line["config"].args = FALSE
        /\ Line["lost"].args = FALSE /\ Line["other"].args = FALSE
    BY Zenon DEF Line
  <2> QED
    BY <1>1, <2>1, <2>2, Zenon
<1> QED
  BY <1>2, <1>3, Zenon

LEMMA ParseRequestKeeps ==
  ASSUME HTTPInv, Spoils, NEW c \in Conns, ParseRequest(c)
  PROVE  HTTPInv'
<1> DEFINE line == Line[FirstLine(c)]
<1>1. turn = <<c, "process">> /\ sm[c] = "PARSE_REQUEST" /\ LineEnds(c) # {}
  BY DEF ParseRequest, At
<1>2. /\ RecordOK(curHTTP) /\ FilesOK(fs)
      /\ curHTTP.file = MPFS_INVALID_HANDLE /\ curHTTP.offsets = MPFS_INVALID_HANDLE
  BY <1>1, AtWork DEF Young
<1>3. line.method \in {"GET", "POST", "PUT"} /\ line.args \in BOOLEAN
  BY <1>1, RequestIsKnown, LinesAre
<1> HIDE DEF line
<1>4. CASE /\ \E status \in {"NOT_IMPLEMENTED", "OVERFLOW"} :
                curHTTP' = [curHTTP EXCEPT !.httpStatus = status]
           /\ Goto(c, "SERVE_HEADERS") /\ UNCHANGED <<fs, net>>
  <2>1. PICK status \in {"NOT_IMPLEMENTED", "OVERFLOW"} :
          curHTTP' = [curHTTP EXCEPT !.httpStatus = status]
    BY <1>4
  <2>2. Goes(c, "SERVE_HEADERS")
    BY <1>1, <1>4, GoesTo, StatesAre, Zenon DEF ParseRequest
  <2>3. SocketMoves(c, "SERVE_HEADERS", net[c])
    BY <1>1, <1>4, SocketStays DEF Young
  <2>4. Keeps(curHTTP')
    BY <1>2, <2>1, StatusKeeps DEF Status
  <2> QED
    BY <1>2, <1>4, <2>2, <2>3, <2>4, PlainStep DEF Young
<1>5. CASE /\ curHTTP' = [curHTTP EXCEPT !.httpStatus =
                            IF line.method = "GET" THEN "MPFS_FORM" ELSE "MPFS_UP"]
           /\ Goto(c, "PARSE_HEADERS") /\ TakeLine(c) /\ UNCHANGED fs
  <2>1. Goes(c, "PARSE_HEADERS")
    BY <1>1, <1>5, GoesTo, StatesAre, Zenon DEF ParseRequest
  <2>2. \E k : SocketMoves(c, "PARSE_HEADERS", k)
    BY <1>1, <1>5, LineIsTaken DEF Young
  <2>3. Keeps(curHTTP')
    BY <1>2, <1>5, StatusKeeps DEF Status
  <2> QED
    BY <1>2, <1>5, <2>1, <2>2, <2>3, PlainStep DEF Young
<1>6. CASE /\ line.method # "PUT"
           /\ LET opened == OpenFiles(line.name) IN
                /\ fs' = opened.fs
                /\ curHTTP' = [curHTTP EXCEPT !.httpStatus = line.method,
                                 !.file = opened.file, !.offsets = opened.offsets,
                                 !.hasArgs = line.args]
           /\ Goto(c, "PARSE_HEADERS") /\ TakeLine(c)
  <2> DEFINE o == OpenFiles(line.name)
             r == [curHTTP EXCEPT !.httpStatus = line.method, !.file = o.file,
                                  !.offsets = o.offsets, !.hasArgs = line.args]
  <2>1. /\ FilesOK(o.fs) /\ o.file \in FileHandle /\ o.offsets \in FileHandle
        /\ OpenIn(o.fs) = OpenIn(fs) \cup HandlesOf(o)
        /\ HandlesOf(o) \cap OpenIn(fs) = {}
        /\ o.file = o.offsets => HandlesOf(o) = {}
    BY <1>2, OpenFilesIs
  <2>2. curHTTP' = r /\ fs' = o.fs
    BY <1>6
  <2> HIDE DEF o
  <2>3. Goes(c, "PARSE_HEADERS")
    BY <1>1, <1>6, GoesTo, StatesAre, Zenon DEF ParseRequest
  <2>4. \E k : SocketMoves(c, "PARSE_HEADERS", k)
    BY <1>1, <1>6, LineIsTaken DEF Young
  <2>5. line.method \in Status
    BY <1>3, <1>6 DEF Status
  <2>6. r \in Record /\ r.callbackPos = curHTTP.callbackPos
        /\ r.file = o.file /\ r.offsets = o.offsets
    BY <1>2, <1>3, <2>1, <2>5, Zenon DEF RecordOK, Record
  <2> HIDE DEF r
  <2>7. RecordMoves("PARSE_HEADERS", r)
    BY <1>2, <2>2, <2>6 DEF RecordMoves, RecordOK, Young
  <2>8. HandlesOf(curHTTP) = {} /\ HandlesOf(r) = HandlesOf(o)
    BY <1>2, <2>6, HandlesAre DEF HandlesOf
  <2>9. FilesMove(r, o.fs)
    BY <2>1, <2>2, <2>6, <2>8 DEF FilesMove, Moves
  <2> QED
    BY <2>3, <2>4, <2>7, <2>9, StepKeeps
<1>7. CASE /\ LET opened == OpenFiles(line.name) IN
                /\ fs' = opened.fs
                /\ curHTTP' = [curHTTP EXCEPT !.httpStatus = "OVERFLOW",
                                 !.file = opened.file, !.offsets = opened.offsets,
                                 !.hasArgs = TRUE]
           /\ Goto(c, "SERVE_HEADERS") /\ UNCHANGED net
  <2> DEFINE o == OpenFiles(line.name)
             r == [curHTTP EXCEPT !.httpStatus = "OVERFLOW", !.file = o.file,
                                  !.offsets = o.offsets, !.hasArgs = TRUE]
  <2>1. /\ FilesOK(o.fs) /\ o.file \in FileHandle /\ o.offsets \in FileHandle
        /\ OpenIn(o.fs) = OpenIn(fs) \cup HandlesOf(o)
        /\ HandlesOf(o) \cap OpenIn(fs) = {}
        /\ o.file = o.offsets => HandlesOf(o) = {}
    BY <1>2, OpenFilesIs
  <2>2. curHTTP' = r /\ fs' = o.fs
    BY <1>7
  <2> HIDE DEF o
  <2>3. Goes(c, "SERVE_HEADERS")
    BY <1>1, <1>7, GoesTo, StatesAre, Zenon DEF ParseRequest
  <2>4. SocketMoves(c, "SERVE_HEADERS", net[c])
    BY <1>1, <1>7, SocketStays DEF Young
  <2>5. "OVERFLOW" \in Status
    BY DEF Status
  <2>6. r \in Record /\ r.callbackPos = curHTTP.callbackPos
        /\ r.file = o.file /\ r.offsets = o.offsets
    BY <1>2, <1>3, <2>1, <2>5, Zenon DEF RecordOK, Record
  <2> HIDE DEF r
  <2>7. RecordMoves("SERVE_HEADERS", r)
    BY <1>2, <2>2, <2>6 DEF RecordMoves, RecordOK, Young
  <2>8. HandlesOf(curHTTP) = {} /\ HandlesOf(r) = HandlesOf(o)
    BY <1>2, <2>6, HandlesAre DEF HandlesOf
  <2>9. FilesMove(r, o.fs)
    BY <2>1, <2>2, <2>6, <2>8 DEF FilesMove, Moves
  <2> QED
    BY <2>3, <2>4, <2>7, <2>9, StepKeeps
<1> QED
  BY <1>4, <1>5, <1>6, <1>7, Zenon DEF ParseRequest, line

LEMMA ParseHeadersKeeps ==
  ASSUME HTTPInv, Spoils, NEW c \in Conns, ParseHeaders(c)
  PROVE  HTTPInv'
<1>1. turn = <<c, "process">> /\ sm[c] = "PARSE_HEADERS" /\ LineEnds(c) # {} /\ TakeLine(c)
      /\ fs' = fs
  BY DEF ParseHeaders, At
<1>2. RecordOK(curHTTP) /\ FilesOK(fs)
  BY <1>1, AtWork
<1>3. CASE Goto(c, "AUTHENTICATE") /\ UNCHANGED curHTTP
  <2>1. Goes(c, "AUTHENTICATE")
    BY <1>1, <1>3, GoesTo, StatesAre, Zenon DEF ParseHeaders
  <2>2. \E k : SocketMoves(c, "AUTHENTICATE", k)
    BY <1>1, LineIsTaken DEF Young
  <2>3. Keeps(curHTTP')
    BY <1>2, <1>3 DEF Keeps
  <2> QED
    BY <1>1, <1>2, <2>1, <2>2, <2>3, PlainStep DEF Young
<1>4. CASE curHTTP' = [curHTTP EXCEPT !.byteCount = ContentLength] /\ UNCHANGED sm
  <2> DEFINE r == [curHTTP EXCEPT !.byteCount = ContentLength]
  <2>1. Goes(c, sm[c])
    BY <1>1, <1>4, GoesOn, Zenon DEF ParseHeaders
  <2>2. \E k : SocketMoves(c, sm[c], k)
    BY <1>1, LineIsTaken DEF Young
  <2>3. r \in Record /\ r.callbackPos = curHTTP.callbackPos
        /\ r.file = curHTTP.file /\ r.offsets = curHTTP.offsets
    BY <1>2, StatesAre, Zenon DEF RecordOK, Record
  <2>4. curHTTP' = r
    BY <1>4
  <2> HIDE DEF r
  <2>5. Keeps(r)
    BY <1>2, <2>3, Zenon DEF RecordOK, Keeps
  <2> QED
    BY <1>1, <1>2, <2>1, <2>2, <2>4, <2>5, PlainStep DEF Young
<1> QED
  BY <1>3, <1>4, Zenon DEF ParseHeaders

LEMMA ArgsKeep ==
  ASSUME RecordOK(curHTTP), NEW b \in BOOLEAN, NEW r, r = [curHTTP EXCEPT !.hasArgs = b]
  PROVE  Keeps(r)
<1>1. r \in Record /\ r.callbackPos = curHTTP.callbackPos
      /\ r.file = curHTTP.file /\ r.offsets = curHTTP.offsets
  BY Zenon DEF RecordOK, Record
<1> QED
  BY <1>1, Zenon DEF RecordOK, Keeps

LEMMA AuthenticateKeeps ==
  ASSUME HTTPInv, Spoils, NEW c \in Conns, Authenticate(c)
  PROVE  HTTPInv'
<1> DEFINE s == IF curHTTP.httpStatus = "MPFS_FORM" THEN "SERVE_HEADERS"
                ELSE IF curHTTP.hasArgs THEN "PROCESS_GET" ELSE "PROCESS_POST"
<1>1. turn = <<c, "process">> /\ sm[c] = "AUTHENTICATE" /\ fs' = fs /\ net' = net
      /\ Goto(c, s) /\ curHTTP' = [curHTTP EXCEPT !.hasArgs = FALSE]
  BY DEF Authenticate, At
<1>2. RecordOK(curHTTP) /\ FilesOK(fs)
  BY <1>1, AtWork
<1>3. s \in States /\ s \notin Young
  BY StatesAre DEF Young
<1> HIDE DEF s
<1>4. Goes(c, s)
  BY <1>1, <1>3, GoesTo, Zenon DEF Authenticate
<1>5. SocketMoves(c, s, net[c])
  BY <1>1, <1>3, SocketStays
<1>6. Keeps(curHTTP')
  BY <1>1, <1>2, ArgsKeep
<1> QED
  BY <1>1, <1>2, <1>3, <1>4, <1>5, <1>6, PlainStep

LEMMA ProcessGetKeeps ==
  ASSUME HTTPInv, Spoils, NEW c \in Conns, ProcessGet(c)
  PROVE  HTTPInv'
<1>1. turn = <<c, "process">> /\ sm[c] = "PROCESS_GET" /\ fs' = fs /\ net' = net
  BY DEF ProcessGet, At
<1>2. RecordOK(curHTTP) /\ FilesOK(fs)
  BY <1>1, AtWork
<1>3. PICK cookies \in BOOLEAN : curHTTP' = [curHTTP EXCEPT !.hasArgs = cookies]
  BY Zenon DEF ProcessGet
<1>4. Goes(c, "PROCESS_POST")
  BY <1>1, GoesTo, StatesAre, Zenon DEF ProcessGet
<1>5. SocketMoves(c, "PROCESS_POST", net[c])
  BY <1>1, SocketStays DEF Young
<1>6. Keeps(curHTTP')
  BY <1>2, <1>3, ArgsKeep
<1> QED
  BY <1>1, <1>2, <1>4, <1>5, <1>6, PlainStep DEF Young

LEMMA PostTimeoutKeeps ==
  ASSUME HTTPInv, Spoils, NEW c \in Conns, PostTimeout(c)
  PROVE  HTTPInv'
<1>1. turn = <<c, "process">> /\ fs' = fs /\ curHTTP' = curHTTP
  BY DEF PostTimeout, At
<1>2. RecordOK(curHTTP) /\ FilesOK(fs)
  BY <1>1, AtWork
<1>3. Goes(c, "DISCONNECT")
  BY <1>1, GoesTo, StatesAre, Zenon DEF PostTimeout
<1>4. SocketMoves(c, "DISCONNECT", TCPDisconnect(net[c]))
  BY <1>1, SocketCloses, Zenon DEF PostTimeout
<1>5. Keeps(curHTTP)
  BY <1>2 DEF Keeps
<1> QED
  BY <1>1, <1>2, <1>3, <1>4, <1>5, PlainStep DEF Young

LEMMA NoPostKeeps ==
  ASSUME HTTPInv, Spoils, NEW c \in Conns, NoPost(c)
  PROVE  HTTPInv'
<1>1. turn = <<c, "process">> /\ sm[c] = "PROCESS_POST"
      /\ fs' = fs /\ curHTTP' = curHTTP /\ net' = net
  BY DEF NoPost, At
<1>2. RecordOK(curHTTP) /\ FilesOK(fs)
  BY <1>1, AtWork
<1>3. Goes(c, "PROCESS_REQUEST")
  BY <1>1, GoesTo, StatesAre, Zenon DEF NoPost
<1>4. SocketMoves(c, "PROCESS_REQUEST", net[c])
  BY <1>1, SocketStays DEF Young
<1>5. Keeps(curHTTP)
  BY <1>2 DEF Keeps
<1> QED
  BY <1>1, <1>2, <1>3, <1>4, <1>5, PlainStep DEF Young

\* What a step of a POST leaves: some state of the request, the socket without
\* what was read, and the handles of record.
PostMoved(c, record) ==
  /\ RecordOK(curHTTP')
  /\ curHTTP'.file = record.file /\ curHTTP'.offsets = record.offsets
  /\ \E s, k : Goes(c, s) /\ SocketMoves(c, s, k) /\ s \notin Young

LEMMA PostMoves ==
  ASSUME HTTPInv, NEW c \in Conns, turn = <<c, "process">>, sm[c] = "PROCESS_POST",
         UNCHANGED Loaded, NEW record, RecordOK(record),
         NEW rx \in Stream, Len(rx) <= Len(net[c].rx),
         \/ Waiting(c, record, rx)
         \/ NeedData(c, record, rx)
         \/ \E s \in States \ Young : PostDone(c, record, rx, s)
  PROVE  PostMoved(c, record)
<1> DEFINE k == [net[c] EXCEPT !.rx = rx]
<1>1. Len(rx) \in Nat /\ (rx # <<>> => Len(rx) - 1 \in Nat)
  BY LenProperties, EmptySeq DEF Stream
<1>2. ASSUME NEW s \in States \ Young, net' = [net EXCEPT ![c].rx = rx]
      PROVE  SocketMoves(c, s, k)
  BY <1>2, SocketTakes
<1> HIDE DEF k
<1>3. ASSUME NEW n \in Nat, NEW r, r = [record EXCEPT !.lastReady = n]
      PROVE  RecordOK(r) /\ r.file = record.file /\ r.offsets = record.offsets
  <2>1. r \in Record /\ r.callbackPos = record.callbackPos
        /\ r.file = record.file /\ r.offsets = record.offsets
    BY <1>3, Zenon DEF RecordOK, Record
  <2> QED
    BY <2>1, Zenon DEF RecordOK
<1>4. sm[c] \in States \ Young
  BY StatesAre DEF Young
<1>5. CASE Waiting(c, record, rx)
  <2>1. (IF rx = <<>> THEN Never ELSE Len(rx) - 1) \in Nat
    BY <1>1, StatesAre
  <2>2. RecordOK(curHTTP') /\ curHTTP'.file = record.file /\ curHTTP'.offsets = record.offsets
    BY <1>3, <1>5, <2>1, Zenon DEF Waiting
  <2>3. Goes(c, sm[c])
    BY <1>5, GoesOn, Zenon DEF Waiting
  <2>4. SocketMoves(c, sm[c], k)
    BY <1>2, <1>4, <1>5, Zenon DEF Waiting
  <2> QED
    BY <1>4, <2>2, <2>3, <2>4, Zenon DEF PostMoved
<1>6. CASE NeedData(c, record, rx)
  <2>1. CASE curHTTP' = [record EXCEPT !.lastReady = Len(rx)] /\ Done(c) /\ UNCHANGED sm
    <3>1. RecordOK(curHTTP') /\ curHTTP'.file = record.file /\ curHTTP'.offsets = record.offsets
      BY <1>1, <1>3, <2>1, Zenon
    <3>2. Goes(c, sm[c])
      BY <1>6, <2>1, GoesOn, Zenon DEF NeedData
    <3>3. SocketMoves(c, sm[c], k)
      BY <1>2, <1>4, <1>6, Zenon DEF NeedData
    <3> QED
      BY <1>4, <3>1, <3>2, <3>3, Zenon DEF PostMoved
  <2>2. CASE /\ curHTTP' = [record EXCEPT !.lastReady = Len(rx),
                                          !.httpStatus = "INTERNAL_SERVER_ERROR"]
             /\ Goto(c, "SERVE_HEADERS") /\ Again
    <3> DEFINE r == [record EXCEPT !.lastReady = Len(rx),
                                   !.httpStatus = "INTERNAL_SERVER_ERROR"]
    <3>1. r \in Record /\ r.callbackPos = record.callbackPos
          /\ r.file = record.file /\ r.offsets = record.offsets
      BY <1>1, Zenon DEF RecordOK, Record, Status
    <3>2. RecordOK(curHTTP') /\ curHTTP'.file = record.file /\ curHTTP'.offsets = record.offsets
      BY <2>2, <3>1, Zenon DEF RecordOK
    <3>3. Goes(c, "SERVE_HEADERS")
      BY <1>6, <2>2, GoesTo, StatesAre, Zenon DEF NeedData
    <3>4. "SERVE_HEADERS" \in States \ Young
      BY StatesAre DEF Young
    <3>5. SocketMoves(c, "SERVE_HEADERS", k)
      BY <1>2, <1>6, <3>4, Zenon DEF NeedData
    <3> QED
      BY <3>2, <3>3, <3>4, <3>5, Zenon DEF PostMoved
  <2> QED
    BY <1>6, <2>1, <2>2, Zenon DEF NeedData
<1>7. CASE \E s \in States \ Young : PostDone(c, record, rx, s)
  <2>1. PICK s \in States \ Young : PostDone(c, record, rx, s)
    BY <1>7
  <2>2. Goes(c, s)
    BY <2>1, GoesTo, Zenon DEF PostDone
  <2>3. SocketMoves(c, s, k)
    BY <1>2, <2>1, Zenon DEF PostDone
  <2>4. curHTTP' = record
    BY <2>1 DEF PostDone
  <2> QED
    BY <2>2, <2>3, <2>4, Zenon DEF PostMoved
<1> QED
  BY <1>5, <1>6, <1>7

LEMMA PostKeeps ==
  ASSUME HTTPInv, Spoils, NEW c \in Conns, turn = <<c, "process">>, sm[c] = "PROCESS_POST",
         NEW record, PostMoved(c, record), Keeps(record),
         NEW f, fs' = f, FilesOK(f), OpenIn(f) = OpenIn(fs)
  PROVE  HTTPInv'
<1>1. PICK s, k : Goes(c, s) /\ SocketMoves(c, s, k) /\ s \notin Young
  BY Zenon DEF PostMoved
<1>2. Keeps(curHTTP')
  BY Zenon DEF PostMoved, Keeps
<1> QED
  BY <1>1, <1>2, PlainStep

\* The two together, where nothing is opened or closed.
LEMMA PostStep ==
  ASSUME HTTPInv, Spoils, NEW c \in Conns, turn = <<c, "process">>, sm[c] = "PROCESS_POST",
         UNCHANGED Loaded, NEW record, Keeps(record),
         NEW rx \in Stream, Len(rx) <= Len(net[c].rx),
         NEW f, fs' = f, FilesOK(f), OpenIn(f) = OpenIn(fs),
         \/ Waiting(c, record, rx)
         \/ NeedData(c, record, rx)
         \/ \E s \in States \ Young : PostDone(c, record, rx, s)
  PROVE  HTTPInv'
<1>1. RecordOK(record)
  BY DEF Keeps
<1>2. PostMoved(c, record)
  BY <1>1, PostMoves
<1> QED
  BY <1>2, PostKeeps

LEMMA CountKeeps ==
  ASSUME RecordOK(curHTTP), NEW n \in Nat,
         NEW r, \/ r = [curHTTP EXCEPT !.byteCount = n]
                \/ r = [curHTTP EXCEPT !.byteCount = n, !.smPost = "end"]
                \/ r = [curHTTP EXCEPT !.smPost = "end"]
  PROVE  Keeps(r)
<1>1. r \in Record /\ r.callbackPos = curHTTP.callbackPos
      /\ r.file = curHTTP.file /\ r.offsets = curHTTP.offsets
  BY Zenon DEF RecordOK, Record
<1> QED
  BY <1>1, Zenon DEF RecordOK, Keeps

LEMMA TailIs ==
  ASSUME NEW rx \in Stream, rx # <<>>
  PROVE  Tail(rx) \in Stream /\ Len(Tail(rx)) <= Len(rx)
<1>1. Tail(rx) \in Stream /\ Len(Tail(rx)) = Len(rx) - 1
  BY HeadTailProperties DEF Stream
<1>2. Len(rx) \in Nat
  BY LenProperties DEF Stream
<1> QED
  BY <1>1, <1>2

LEMMA ExecutePostKeeps ==
  ASSUME HTTPInv, Spoils, NEW c \in Conns, ExecutePost(c)
  PROVE  HTTPInv'
<1> DEFINE rx == net[c].rx
           pairRead == [curHTTP EXCEPT !.byteCount = @ - 1]
<1>1. turn = <<c, "process">> /\ sm[c] = "PROCESS_POST" /\ fs' = fs /\ UNCHANGED Loaded
  BY DEF ExecutePost, At
<1>2. /\ RecordOK(curHTTP) /\ FilesOK(fs) /\ Keeps(curHTTP)
      /\ rx \in Stream /\ Len(rx) <= Len(net[c].rx)
  <2>1. RecordOK(curHTTP) /\ FilesOK(fs) /\ rx \in Stream
    BY <1>1, AtWork DEF SocketOK, Socket
  <2> QED
    BY <2>1, LenProperties DEF Keeps, Stream
<1>3. "PROCESS_REQUEST" \in States \ Young
  BY StatesAre DEF Young
<1>4. \/ PostDone(c, curHTTP, rx, "PROCESS_REQUEST")
      \/ Waiting(c, [curHTTP EXCEPT !.smPost = "end"], rx)
      \/ /\ curHTTP.byteCount > 0 /\ rx # <<>>
         /\ \E parsed \in BOOLEAN :
              Waiting(c, IF parsed THEN pairRead ELSE [pairRead EXCEPT !.smPost = "end"],
                      Tail(rx))
      \/ NeedData(c, curHTTP, rx)
      \/ PostDone(c, [curHTTP EXCEPT !.httpStatus = "REDIRECT"], rx, "PROCESS_REQUEST")
  BY Zenon DEF ExecutePost
<1>5. CASE PostDone(c, curHTTP, rx, "PROCESS_REQUEST")
  BY <1>1, <1>2, <1>3, <1>5, PostStep
<1>6. CASE Waiting(c, [curHTTP EXCEPT !.smPost = "end"], rx)
  <2> DEFINE r == [curHTTP EXCEPT !.smPost = "end"]
  <2>1. Keeps(r)
    BY <1>2, StatesAre, CountKeeps
  <2> HIDE DEF r
  <2>2. Waiting(c, r, rx)
    BY <1>6 DEF r
  <2> QED
    BY <1>1, <1>2, <2>1, <2>2, PostStep
<1>7. CASE /\ curHTTP.byteCount > 0 /\ rx # <<>>
           /\ \E parsed \in BOOLEAN :
                Waiting(c, IF parsed THEN pairRead ELSE [pairRead EXCEPT !.smPost = "end"],
                        Tail(rx))
  <2>1. PICK parsed \in BOOLEAN :
          Waiting(c, IF parsed THEN pairRead ELSE [pairRead EXCEPT !.smPost = "end"], Tail(rx))
    BY <1>7
  <2> DEFINE r == IF parsed THEN pairRead ELSE [pairRead EXCEPT !.smPost = "end"]
             n == curHTTP.byteCount - 1
  <2>2. n \in Nat
    BY <1>2, <1>7 DEF RecordOK, Record
  <2>3. \/ r = [curHTTP EXCEPT !.byteCount = n]
        \/ r = [curHTTP EXCEPT !.byteCount = n, !.smPost = "end"]
    BY Zenon
  <2> HIDE DEF r, n
  <2>4. Keeps(r)
    BY <1>2, <2>2, <2>3, CountKeeps
  <2>5. Waiting(c, r, Tail(rx))
    BY <2>1 DEF r
  <2>6. Tail(rx) \in Stream /\ Len(Tail(rx)) <= Len(net[c].rx)
    BY <1>2, <1>7, TailIs
  <2> QED
    BY <1>1, <1>2, <2>4, <2>5, <2>6, PostStep
<1>8. CASE NeedData(c, curHTTP, rx)
  BY <1>1, <1>2, <1>8, PostStep
<1>9. CASE PostDone(c, [curHTTP EXCEPT !.httpStatus = "REDIRECT"], rx, "PROCESS_REQUEST")
  <2> DEFINE r == [curHTTP EXCEPT !.httpStatus = "REDIRECT"]
  <2>1. Keeps(r)
    BY <1>2, StatusKeeps DEF Status
  <2> HIDE DEF r
  <2>2. PostDone(c, r, rx, "PROCESS_REQUEST")
    BY <1>9 DEF r
  <2> QED
    BY <1>1, <1>2, <1>3, <2>1, <2>2, PostStep
<1> QED
  BY <1>4, <1>5, <1>6, <1>7, <1>8, <1>9, Zenon

LEMMA MinusIs ==
  ASSUME NEW count \in Nat, NEW n \in Nat
  PROVE  Minus(count, n) \in Nat
BY StatesAre DEF Minus

LEMMA StartIs ==
  ASSUME NEW rx \in Stream
  PROVE  SelectInSeq(rx, IsStart) \in 0 .. Len(rx)
<1> DEFINE I == {i \in 1 .. Len(rx) : rx[i] = "mime"}
<1>1. SelectInSeq(rx, IsStart) = IF I # {} THEN Min(I) ELSE 0
  BY Zenon DEF SelectInSeq, IsStart
<1>2. Len(rx) \in Nat
  BY LenProperties DEF Stream
<1>3. I # {} => Min(I) \in I
  BY <1>2, LeastNumber
<1> QED
  BY <1>1, <1>2, <1>3

\* The start of an image closes every file; whoever read one was spoilt.
LEMMA TagKeeps ==
  ASSUME HTTPInv, Spoils, NEW c \in Conns, turn = <<c, "process">>, sm[c] = "PROCESS_POST",
         UNCHANGED Loaded, NEW n \in Nat,
         NEW record,
         record = [curHTTP EXCEPT !.byteCount = n, !.httpStatus = "MPFS_OK", !.file = 0],
         NEW rx \in Stream, Len(rx) <= Len(net[c].rx), Waiting(c, record, rx),
         NEW f, f = MPFSPutArray(MPFSFormat(fs), <<"tag">>), fs' = f
  PROVE  HTTPInv'
<1>1. RecordOK(curHTTP) /\ FilesOK(fs)
  BY AtWork
<1>2. record \in Record /\ record.callbackPos = curHTTP.callbackPos
      /\ record.file = 0 /\ record.offsets = curHTTP.offsets
  BY <1>1, StatesAre, Zenon DEF RecordOK, Record, Status
<1>3. RecordOK(record)
  BY <1>1, <1>2, Zenon DEF RecordOK
<1>4. PostMoved(c, record)
  BY <1>3, PostMoves
<1>5. PICK s, k : Goes(c, s) /\ SocketMoves(c, s, k) /\ s \notin Young
  BY <1>4, Zenon DEF PostMoved
<1>6. FilesOK(f) /\ OpenIn(f) = {} /\ f.locked
  <2>1. /\ FilesOK(MPFSFormat(fs)) /\ OpenIn(MPFSFormat(fs)) = {} /\ MPFSFormat(fs).locked
    BY <1>1, FormatIs
  <2>2. <<"tag">> \in Stream
    BY DEF Stream, Tokens
  <2> QED
    BY <2>1, <2>2, PutArrayIs, Zenon
<1>7. RecordMoves(s, curHTTP')
  BY <1>4, <1>5 DEF PostMoved, RecordMoves
<1>8. FilesMove(curHTTP', f)
  <2> SUFFICES ASSUME ~ spoilt' PROVE Moves(OpenIn(fs), curHTTP, {}, curHTTP')
    BY <1>6 DEF FilesMove
  <2>1. OpenIn(fs) = {} /\ ~ spoilt
    BY <1>6 DEF Spoils
  <2>2. HandlesOf(curHTTP) = {}
    BY <2>1, AtWork
  <2>3. HandlesOf(curHTTP') = {}
    BY <1>2, <1>4, <2>2, HandlesAre DEF PostMoved, HandlesOf
  <2> QED
    BY <2>1, <2>2, <2>3 DEF Moves
<1> QED
  BY <1>5, <1>7, <1>8, StepKeeps

LEMMA UploadStartKeeps ==
  ASSUME HTTPInv, Spoils, NEW c \in Conns, UploadStart(c)
  PROVE  HTTPInv'
<1> DEFINE rx == net[c].rx
           starts == SelectInSeq(rx, IsStart)
           rest == SubSeq(rx, starts + 2, Len(rx))
<1>1. turn = <<c, "process">> /\ sm[c] = "PROCESS_POST" /\ UNCHANGED Loaded
  BY DEF UploadStart, At
<1>2. /\ RecordOK(curHTTP) /\ FilesOK(fs) /\ curHTTP.byteCount \in Nat
      /\ rx \in Stream /\ Len(rx) \in Nat
  <2>1. RecordOK(curHTTP) /\ FilesOK(fs) /\ rx \in Stream
    BY <1>1, AtWork DEF SocketOK, Socket
  <2> QED
    BY <2>1, LenProperties DEF Stream, RecordOK, Record
<1>3. starts \in 0 .. Len(rx)
  BY <1>2, StartIs
<1> HIDE DEF starts, rx
<1>4. CASE /\ starts = 0
           /\ NeedData(c, [curHTTP EXCEPT !.byteCount = Minus(@, Len(rx))], <<>>)
           /\ UNCHANGED <<fs, client>>
  <2> DEFINE n == Minus(curHTTP.byteCount, Len(rx))
             r == [curHTTP EXCEPT !.byteCount = n]
  <2>1. n \in Nat
    BY <1>2, MinusIs
  <2>2. NeedData(c, r, <<>>)
    BY <1>4
  <2> HIDE DEF n
  <2>3. Keeps(r)
    BY <1>2, <2>1, CountKeeps
  <2> HIDE DEF r
  <2>4. <<>> \in Stream /\ Len(<<>>) <= Len(rx)
    BY <1>2 DEF Stream
  <2> QED
    BY <1>1, <1>2, <1>4, <2>2, <2>3, <2>4, PostStep DEF rx
<1>5. CASE /\ starts > 0 /\ starts = Len(rx)
           /\ NeedData(c, [curHTTP EXCEPT !.byteCount = Minus(@, starts - 1)],
                       SubSeq(rx, starts, Len(rx)))
           /\ UNCHANGED <<fs, client>>
  <2> DEFINE n == Minus(curHTTP.byteCount, starts - 1)
             r == [curHTTP EXCEPT !.byteCount = n]
             tail == SubSeq(rx, (starts - 1) + 1, Len(rx))
  <2>1. n \in Nat
    BY <1>2, <1>3, <1>5, MinusIs
  <2>2. NeedData(c, r, tail)
    <3>1. (starts - 1) + 1 = starts
      BY <1>3
    <3> QED
      BY <1>5, <3>1
  <2>3. starts - 1 \in 0 .. Len(rx)
    BY <1>2, <1>3, <1>5
  <2>4. tail \in Stream /\ Len(tail) <= Len(rx)
    BY <1>2, <2>3, PrefixIs
  <2> HIDE DEF n, tail
  <2>5. Keeps(r)
    BY <1>2, <2>1, CountKeeps
  <2> HIDE DEF r
  <2> QED
    BY <1>1, <1>2, <1>5, <2>2, <2>4, <2>5, PostStep DEF rx
<1>6. ASSUME starts > 0, starts < Len(rx)
      PROVE  /\ Minus(curHTTP.byteCount, starts + 1) \in Nat
             /\ rest \in Stream /\ Len(rest) <= Len(net[c].rx)
  <2>1. starts + 1 \in 0 .. Len(rx) /\ (starts + 1) + 1 = starts + 2 /\ starts + 1 \in Nat
    BY <1>2, <1>3, <1>6
  <2>2. rest \in Stream /\ Len(rest) = Len(rx) - (starts + 1)
    BY <1>2, <2>1, PrefixIs
  <2>3. Len(rest) <= Len(rx)
    BY <1>2, <2>1, <2>2
  <2> QED
    BY <1>2, <2>1, <2>2, <2>3, MinusIs DEF rx
<1> HIDE DEF rest
<1>7. CASE /\ starts > 0 /\ starts < Len(rx) /\ rx[starts + 1] = "tag"
           /\ Waiting(c, [curHTTP EXCEPT !.byteCount = Minus(@, starts + 1),
                                         !.httpStatus = "MPFS_OK", !.file = 0], rest)
           /\ fs' = MPFSPutArray(MPFSFormat(fs), <<"tag">>)
  <2> DEFINE n == Minus(curHTTP.byteCount, starts + 1)
             r == [curHTTP EXCEPT !.byteCount = n, !.httpStatus = "MPFS_OK", !.file = 0]
  <2>1. n \in Nat /\ Waiting(c, r, rest)
    BY <1>6, <1>7
  <2> HIDE DEF n
  <2> QED
    BY <1>1, <1>6, <1>7, <2>1, TagKeeps
<1>8. CASE /\ starts > 0 /\ starts < Len(rx)
           /\ Waiting(c, [curHTTP EXCEPT !.byteCount = Minus(@, starts + 1),
                                         !.httpStatus = "MPFS_ERROR"], rest)
           /\ UNCHANGED <<fs, client>>
  <2> DEFINE n == Minus(curHTTP.byteCount, starts + 1)
             r == [curHTTP EXCEPT !.byteCount = n, !.httpStatus = "MPFS_ERROR"]
  <2>1. n \in Nat /\ Waiting(c, r, rest)
    BY <1>6, <1>8
  <2> HIDE DEF n
  <2>2. r \in Record /\ r.callbackPos = curHTTP.callbackPos
        /\ r.file = curHTTP.file /\ r.offsets = curHTTP.offsets
    BY <1>2, <2>1, Zenon DEF RecordOK, Record, Status
  <2> HIDE DEF r
  <2>3. Keeps(r)
    BY <1>2, <2>2, Zenon DEF RecordOK, Keeps
  <2> QED
    BY <1>1, <1>2, <1>6, <1>8, <2>1, <2>3, PostStep
<1> QED
  BY <1>4, <1>5, <1>7, <1>8, Zenon DEF UploadStart, starts, rest, rx

LEMMA UploadWriteKeeps ==
  ASSUME HTTPInv, Spoils, NEW c \in Conns, UploadWrite(c)
  PROVE  HTTPInv'
<1> DEFINE rx == net[c].rx
           n == Min({Len(rx), curHTTP.byteCount})
           m == Minus(curHTTP.byteCount, n)
           r == [curHTTP EXCEPT !.byteCount = m]
           rest == SubSeq(rx, n + 1, Len(rx))
           written == MPFSPutArray(fs, SubSeq(rx, 1, n))
<1>1. turn = <<c, "process">> /\ sm[c] = "PROCESS_POST" /\ UNCHANGED Loaded
  BY DEF UploadWrite, At
<1>2. /\ RecordOK(curHTTP) /\ FilesOK(fs) /\ curHTTP.byteCount \in Nat
      /\ rx \in Stream /\ Len(rx) \in Nat
  <2>1. RecordOK(curHTTP) /\ FilesOK(fs) /\ rx \in Stream
    BY <1>1, AtWork DEF SocketOK, Socket
  <2> QED
    BY <2>1, LenProperties DEF Stream, RecordOK, Record
<1>3. n \in Nat /\ n <= Len(rx)
  BY <1>2, LesserOfTwo
<1>4. m \in Nat
  BY <1>2, <1>3, MinusIs
<1>5. SubSeq(rx, 1, n) \in Stream /\ rest \in Stream /\ Len(rest) <= Len(net[c].rx)
  <2>1. n \in 0 .. Len(rx)
    BY <1>2, <1>3
  <2> HIDE DEF n
  <2> QED
    BY <1>2, <1>3, <2>1, PrefixIs
<1>6. \/ r.byteCount = 0 /\ fs' = MPFSPutEnd(written) /\ PostDone(c, r, rest, "SERVE_HEADERS")
      \/ fs' = written /\ NeedData(c, r, rest)
  BY Zenon DEF UploadWrite
<1>7. FilesOK(written) /\ OpenIn(written) = OpenIn(fs)
  BY <1>2, <1>5, PutArrayIs
<1>8. FilesOK(MPFSPutEnd(written)) /\ OpenIn(MPFSPutEnd(written)) = OpenIn(fs)
  BY <1>7, PutEndIs
<1> HIDE DEF m, rest, written
<1>9. Keeps(r)
  BY <1>2, <1>4, CountKeeps
<1>10. "SERVE_HEADERS" \in States \ Young
  BY StatesAre DEF Young
<1> HIDE DEF r
<1>11. \/ fs' = written /\ NeedData(c, r, rest)
       \/ fs' = MPFSPutEnd(written) /\ \E s \in States \ Young : PostDone(c, r, rest, s)
  BY <1>6, <1>10, Zenon
<1> QED
  BY <1>1, <1>5, <1>7, <1>8, <1>9, <1>11, PostStep

LEMMA UploadRefusedKeeps ==
  ASSUME HTTPInv, Spoils, NEW c \in Conns, UploadRefused(c)
  PROVE  HTTPInv'
<1> DEFINE n == Minus(curHTTP.byteCount, Ready(c))
           r == [curHTTP EXCEPT !.byteCount = n]
<1>1. turn = <<c, "process">> /\ sm[c] = "PROCESS_POST" /\ UNCHANGED Loaded /\ fs' = fs
  BY DEF UploadRefused, At
<1>2. /\ RecordOK(curHTTP) /\ FilesOK(fs) /\ curHTTP.byteCount \in Nat
      /\ Ready(c) \in Nat /\ Ready(c) = Len(net[c].rx)
  <2>1. RecordOK(curHTTP) /\ FilesOK(fs) /\ net[c].rx \in Stream
    BY <1>1, AtWork DEF SocketOK, Socket
  <2> QED
    BY <2>1, LenProperties DEF Stream, RecordOK, Record, Ready
<1>3. n \in Nat
  BY <1>2, MinusIs
<1>4. PostDone(c, r, <<>>, "SERVE_HEADERS") \/ NeedData(c, r, <<>>)
  BY Zenon DEF UploadRefused
<1> HIDE DEF n
<1>5. Keeps(r)
  BY <1>2, <1>3, CountKeeps
<1> HIDE DEF r
<1>6. <<>> \in Stream /\ Len(<<>>) <= Len(net[c].rx)
  BY <1>2 DEF Stream
<1>7. "SERVE_HEADERS" \in States \ Young
  BY StatesAre DEF Young
<1> QED
  BY <1>1, <1>2, <1>4, <1>5, <1>6, <1>7, PostStep

-----------------------------------------------------------------------------
(* The answer.                                                              *)

\* A page whose index can be read says where its first variable is.
LEMMA NextOffsetsAre ==
  NextOffsets \subseteq Nat
<1>1. \A chunk : Offset(chunk) \in Nat
  BY StatesAre DEF Offset
<1> QED
  BY <1>1, StatesAre, Zenon DEF NextOffsets

LEMMA ProcessRequestKeeps ==
  ASSUME HTTPInv, Spoils, NEW c \in Conns, ProcessRequest(c)
  PROVE  HTTPInv'
<1> DEFINE s == "SERVE_HEADERS"
           got == MPFSGetArray(fs, curHTTP.offsets, 1)
<1>1. turn = <<c, "process">> /\ sm[c] = "PROCESS_REQUEST"
  BY DEF ProcessRequest, At
<1>2. Goes(c, s)
  BY <1>1, GoesTo, StatesAre, Zenon DEF ProcessRequest
<1>3. SocketMoves(c, s, net[c]) /\ s \notin Young
  BY <1>1, SocketStays DEF ProcessRequest, Young
<1>4. RecordOK(curHTTP) /\ FilesOK(fs)
  BY <1>1, AtWork
<1>5. CASE curHTTP' = [curHTTP EXCEPT !.httpStatus = "NOT_FOUND"] /\ UNCHANGED fs
  <2> DEFINE r == [curHTTP EXCEPT !.httpStatus = "NOT_FOUND"]
  <2>1. Keeps(r)
    BY <1>4, StatusKeeps DEF Status
  <2>2. curHTTP' = r
    BY <1>5
  <2> HIDE DEF r
  <2> QED
    BY <1>2, <1>3, <1>4, <1>5, <2>1, <2>2, PlainStep
<1>6. CASE /\ \E next \in NextOffsets :
                curHTTP' = [curHTTP EXCEPT !.byteCount = 0, !.nextCallback = next]
           /\ fs' = got.fs
  <2>1. PICK next \in Nat : curHTTP' = [curHTTP EXCEPT !.byteCount = 0, !.nextCallback = next]
    BY <1>6, NextOffsetsAre
  <2> DEFINE r == [curHTTP EXCEPT !.byteCount = 0, !.nextCallback = next]
  <2>2. r \in Record /\ r.callbackPos = curHTTP.callbackPos
        /\ r.file = curHTTP.file /\ r.offsets = curHTTP.offsets
    BY <1>4, StatesAre, Zenon DEF RecordOK, Record
  <2>3. curHTTP' = r
    BY <2>1
  <2> HIDE DEF r
  <2>4. Keeps(r)
    BY <1>4, <2>2, Zenon DEF RecordOK, Keeps
  <2>5. FilesOK(got.fs) /\ OpenIn(got.fs) = OpenIn(fs)
    BY <1>4, GetArrayIs
  <2> HIDE DEF got
  <2> QED
    BY <1>2, <1>3, <1>6, <2>3, <2>4, <2>5, PlainStep
<1> QED
  BY <1>5, <1>6, Zenon DEF ProcessRequest

LEMMA ServeHeadersKeeps ==
  ASSUME HTTPInv, Spoils, NEW c \in Conns, ServeHeaders(c)
  PROVE  HTTPInv'
<1> DEFINE k == [net[c] EXCEPT !.rx = <<>>]
<1>1. /\ turn = <<c, "process">> /\ sm[c] = "SERVE_HEADERS" /\ curHTTP' = curHTTP /\ fs' = fs
      /\ net' = [net EXCEPT ![c].rx = <<>>]
  BY DEF ServeHeaders, At
<1>2. RecordOK(curHTTP) /\ FilesOK(fs) /\ Keeps(curHTTP)
  BY <1>1, AtWork DEF Keeps
<1>3. PICK s \in States \ Young : Goto(c, s) /\ (Again \/ Done(c))
  <2>1. {"DISCONNECT", "SERVE_COOKIES", "SERVE_BODY"} \subseteq States \ Young
    BY StatesAre DEF Young
  <2>2. \/ Goto(c, "DISCONNECT") /\ Done(c)
        \/ Goto(c, "SERVE_COOKIES") /\ Again
        \/ Goto(c, "SERVE_BODY") /\ Again
    BY Zenon DEF ServeHeaders
  <2> QED
    BY <2>1, <2>2, Zenon
<1>4. Goes(c, s)
  BY <1>1, <1>3, GoesTo, Zenon DEF ServeHeaders
<1>5. <<>> \in Stream /\ Len(<<>>) <= Len(net[c].rx)
  BY LenProperties DEF HTTPInv, Sockets, Socket, Stream
<1>6. SocketMoves(c, s, k)
  BY <1>1, <1>3, <1>5, SocketTakes
<1> QED
  BY <1>1, <1>2, <1>3, <1>4, <1>6, PlainStep

LEMMA ServeCookiesKeeps ==
  ASSUME HTTPInv, Spoils, NEW c \in Conns, ServeCookies(c)
  PROVE  HTTPInv'
<1> DEFINE s == "SERVE_BODY"
           r == [curHTTP EXCEPT !.hasArgs = FALSE]
<1>1. turn = <<c, "process">> /\ sm[c] = "SERVE_COOKIES" /\ curHTTP' = r /\ fs' = fs
  BY DEF ServeCookies, At
<1>2. Goes(c, s)
  BY <1>1, GoesTo, StatesAre, Zenon DEF ServeCookies
<1>3. SocketMoves(c, s, net[c]) /\ s \notin Young
  BY <1>1, SocketStays DEF ServeCookies, Young
<1>4. RecordOK(curHTTP) /\ FilesOK(fs)
  BY <1>1, AtWork
<1>5. r \in Record /\ r.callbackPos = curHTTP.callbackPos
      /\ r.file = curHTTP.file /\ r.offsets = curHTTP.offsets
  BY <1>4, Zenon DEF RecordOK, Record
<1> HIDE DEF r
<1>6. Keeps(r)
  BY <1>4, <1>5, Zenon DEF RecordOK, Keeps
<1> QED
  BY <1>1, <1>2, <1>3, <1>4, <1>6, PlainStep

\* What HTTPSendFile() asks for and gets.
LEMMA SendsWhat ==
  ASSUME HTTPInv, NEW c \in Conns, turn = <<c, "process">>
  PROVE  /\ PutReady(c) \in Nat /\ Wanted(c) \in Nat /\ Sent(c) \in Nat
         /\ FilesOK(Got(c).fs) /\ OpenIn(Got(c).fs) = OpenIn(fs)
         /\ Got(c).data \in Seq(Chunks) /\ Len(Got(c).data) \in Nat
<1>1. net[c] \in Socket /\ RecordOK(curHTTP) /\ FilesOK(fs)
  BY AtWork DEF SocketOK
<1>2. curHTTP.byteCount \in Nat /\ curHTTP.nextCallback \in Nat
  BY <1>1, Zenon DEF RecordOK, Record
<1>3. PutReady(c) \in Nat
  BY <1>1, HTTPAssumption DEF PutReady, Socket
<1>4. Wanted(c) \in Nat
  <2>1. CASE curHTTP.nextCallback < curHTTP.byteCount
    BY <1>3, <2>1 DEF Wanted
  <2>2. CASE ~ (curHTTP.nextCallback < curHTTP.byteCount)
    <3> DEFINE left == curHTTP.nextCallback - curHTTP.byteCount
    <3>1. left \in Nat
      BY <1>2, <2>2
    <3>2. Wanted(c) = Min({PutReady(c), left})
      BY <2>2 DEF Wanted
    <3> HIDE DEF left
    <3> QED
      BY <1>3, <3>1, <3>2, LesserOfTwo
  <2> QED
    BY <2>1, <2>2
<1>5. Sent(c) \in Nat
  <2>1. curHTTP.byteCount + Wanted(c) \in Nat /\ MaxCount \in Nat
    BY <1>2, <1>4 DEF MaxCount
  <2> QED
    BY <2>1, LesserOfTwo DEF Sent
<1>6. /\ FilesOK(Got(c).fs) /\ OpenIn(Got(c).fs) = OpenIn(fs)
      /\ Got(c).data \in Seq(Chunks)
  BY <1>1, <1>4, GetArrayIs DEF Got
<1> QED
  BY <1>3, <1>4, <1>5, <1>6, LenProperties

\* A record that gives up some of its files: X are those that are closed.
LEMMA FilesClose ==
  ASSUME HTTPInv, Spoils, NEW c \in Conns, turn = <<c, "process">>, NEW X, NEW r,
         \/ X = {curHTTP.file} /\ r.file = MPFS_INVALID_HANDLE /\ r.offsets = curHTTP.offsets
         \/ X = {curHTTP.offsets} /\ r.file = curHTTP.file /\ r.offsets = MPFS_INVALID_HANDLE
         \/ X = {curHTTP.file, curHTTP.offsets} /\ r.file = MPFS_INVALID_HANDLE
            /\ r.offsets = MPFS_INVALID_HANDLE,
         NEW f, FilesOK(f), fs' = f, OpenIn(f) = OpenIn(fs) \ X
  PROVE  FilesMove(r, f)
<1> SUFFICES ASSUME ~ spoilt' PROVE Moves(OpenIn(fs), curHTTP, OpenIn(f), r)
  BY DEF FilesMove
<1>1. /\ HandlesOf(curHTTP) \subseteq OpenIn(fs)
      /\ curHTTP.file = curHTTP.offsets => HandlesOf(curHTTP) = {}
  BY AtWork DEF Spoils
<1>2. OpenIn(fs) \subseteq Handles
  BY DEF OpenIn
<1> QED
  BY <1>1, <1>2, HandlesAre DEF HandlesOf, Moves

LEMMA SendLastKeeps ==
  ASSUME HTTPInv, Spoils, NEW c \in Conns, SendLast(c)
  PROVE  HTTPInv'
<1> DEFINE s == "DISCONNECT"
           r == [curHTTP EXCEPT !.file = MPFS_INVALID_HANDLE]
           f == MPFSClose(fs, curHTTP.file)
<1>1. /\ turn = <<c, "process">> /\ sm[c] = "SERVE_BODY" /\ curHTTP' = r /\ fs' = f
      /\ Fill(c, Len(Got(c).data))
  BY DEF SendLast, At
<1>2. Goes(c, s)
  BY <1>1, GoesTo, StatesAre, Zenon DEF SendLast
<1>3. SocketMoves(c, s, net'[c]) /\ s \notin Young
  BY <1>1, SendsWhat, SocketFills DEF Young
<1>4. RecordOK(curHTTP) /\ FilesOK(fs)
  BY <1>1, AtWork
<1>5. FilesOK(f) /\ OpenIn(f) = OpenIn(fs) \ {curHTTP.file}
  BY <1>4, CloseIs
<1>6. r \in Record /\ r.callbackPos = curHTTP.callbackPos
      /\ r.file = MPFS_INVALID_HANDLE /\ r.offsets = curHTTP.offsets
  BY <1>4, StatesAre, Zenon DEF RecordOK, Record
<1> HIDE DEF r, f
<1>7. RecordMoves(s, r)
  BY <1>1, <1>3, <1>4, <1>6, Zenon DEF RecordOK, RecordMoves
<1>8. FilesMove(r, f)
  BY <1>1, <1>5, <1>6, FilesClose
<1> QED
  BY <1>2, <1>3, <1>7, <1>8, StepKeeps

LEMMA SendSomeKeeps ==
  ASSUME HTTPInv, Spoils, NEW c \in Conns, SendSome(c)
  PROVE  HTTPInv'
<1> DEFINE s == "SERVE_BODY"
           r == [curHTTP EXCEPT !.byteCount = Sent(c)]
           f == Got(c).fs
<1>1. /\ turn = <<c, "process">> /\ sm[c] = s /\ curHTTP' = r /\ fs' = f
      /\ Fill(c, Wanted(c))
  BY DEF SendSome, At
<1>2. Goes(c, s)
  BY <1>1, GoesOn, Zenon DEF SendSome
<1>3. SocketMoves(c, s, net'[c]) /\ s \notin Young
  BY <1>1, SendsWhat, SocketFills DEF Young
<1>4. RecordOK(curHTTP) /\ Sent(c) \in Nat /\ FilesOK(f) /\ OpenIn(f) = OpenIn(fs)
  BY <1>1, AtWork, SendsWhat
<1> HIDE DEF f
<1>5. Keeps(r)
  BY <1>4, CountKeeps
<1> HIDE DEF r
<1> QED
  BY <1>1, <1>2, <1>3, <1>4, <1>5, PlainStep

LEMMA SendToCallbackKeeps ==
  ASSUME HTTPInv, Spoils, NEW c \in Conns, SendToCallback(c)
  PROVE  HTTPInv'
<1> DEFINE s == "SEND_FROM_CALLBACK"
           past == MPFSGetArray(Got(c).fs, curHTTP.file, 1).fs
           index == MPFSGetArray(past, curHTTP.offsets, 2)
           more == Len(index.data) = 2
           start == [id |-> 0, pos |-> 0]
           id == IF index.data = <<>> THEN curHTTP.callbackID ELSE Head(index.data)
           next == IF more THEN Offset(index.data[2]) ELSE Never
           offsets == IF more THEN curHTTP.offsets ELSE MPFS_INVALID_HANDLE
           r == [curHTTP EXCEPT !.byteCount = Sent(c) + 1, !.callbackPos = start,
                                !.callbackID = id, !.nextCallback = next, !.offsets = offsets]
           f == IF more THEN index.fs ELSE MPFSClose(index.fs, curHTTP.offsets)
<1>1. /\ turn = <<c, "process">> /\ sm[c] = "SERVE_BODY" /\ curHTTP' = r /\ fs' = f
      /\ Fill(c, Wanted(c))
  BY DEF SendToCallback, At
<1>2. Goes(c, s)
  BY <1>1, GoesTo, StatesAre, Zenon DEF SendToCallback
<1>3. SocketMoves(c, s, net'[c]) /\ s \notin Young
  BY <1>1, SendsWhat, SocketFills DEF Young
<1>4. RecordOK(curHTTP) /\ FilesOK(Got(c).fs) /\ OpenIn(Got(c).fs) = OpenIn(fs) /\ Sent(c) \in Nat
  BY <1>1, AtWork, SendsWhat
<1>5. FilesOK(past) /\ OpenIn(past) = OpenIn(fs)
  BY <1>4, GetArrayIs
<1> HIDE DEF past
<1>6. FilesOK(index.fs) /\ OpenIn(index.fs) = OpenIn(fs) /\ index.data \in Seq(Chunks)
  BY <1>5, GetArrayIs
<1> HIDE DEF index
<1>7. FilesOK(f) /\ OpenIn(f) = IF more THEN OpenIn(fs) ELSE OpenIn(fs) \ {curHTTP.offsets}
  <2>1. CASE more
    BY <1>6, <2>1
  <2>2. CASE ~ more
    BY <1>6, <2>2, CloseIs
  <2> QED
    BY <2>1, <2>2
<1>8. curHTTP.callbackID \in Chunks \cup {"none"} /\ curHTTP.offsets \in FileHandle
  BY <1>4, Zenon DEF RecordOK, Record
<1>9. id \in Chunks \cup {"none"}
  BY <1>6, <1>8, HeadTailProperties
<1>10. next \in Nat
  BY StatesAre, Zenon DEF Offset
<1>11. offsets \in FileHandle
  BY <1>8, StatesAre, Zenon
<1>12. start \in File /\ start.pos <= Size(start.id)
  BY DEF File, Size
<1>13. Sent(c) + 1 \in Nat
  BY <1>4
<1> HIDE DEF f, id, next, start
<1>14. /\ r \in Record /\ r.callbackPos = start /\ r.file = curHTTP.file
       /\ r.offsets = offsets
  <2> HIDE DEF offsets
  <2> QED
    BY <1>4, <1>9, <1>10, <1>11, <1>12, <1>13, Zenon DEF RecordOK, Record
<1> HIDE DEF r
<1>15. RecordOK(r)
  BY <1>12, <1>14, Zenon DEF RecordOK
<1>16. RecordMoves(s, r)
  BY <1>1, <1>3, <1>15, Zenon DEF RecordMoves
<1>17. FilesMove(r, f)
  <2>1. CASE more
    BY <1>1, <1>7, <1>14, <2>1, FilesStay
  <2>2. CASE ~ more
    BY <1>1, <1>7, <1>14, <2>2, FilesClose
  <2> QED
    BY <2>1, <2>2
<1> QED
  BY <1>2, <1>3, <1>16, <1>17, StepKeeps

LEMMA CallbackUnknownKeeps ==
  ASSUME HTTPInv, Spoils, NEW c \in Conns, CallbackUnknown(c)
  PROVE  HTTPInv'
<1> DEFINE s == "SERVE_BODY"
<1>1. /\ turn = <<c, "process">> /\ sm[c] = "SEND_FROM_CALLBACK" /\ curHTTP' = curHTTP
      /\ fs' = fs /\ Fill(c, 1)
  BY DEF CallbackUnknown, At
<1>2. Goes(c, s)
  BY <1>1, GoesTo, StatesAre, Zenon DEF CallbackUnknown
<1>3. SocketMoves(c, s, net'[c]) /\ s \notin Young
  BY <1>1, SocketFills DEF Young
<1>4. Keeps(curHTTP) /\ FilesOK(fs)
  BY <1>1, AtWork DEF Keeps
<1> QED
  BY <1>1, <1>2, <1>3, <1>4, PlainStep

\* A file that is included is read from where it was left.
LEMMA IncludedIs ==
  ASSUME HTTPInv, NEW c \in Conns, turn = <<c, "process">>, Included.h # MPFS_INVALID_HANDLE,
         NEW open, open = MPFSSeek(Included.fs, Included.h, curHTTP.callbackPos.pos),
         NEW n \in Nat, NEW part, part = MPFSGetArray(open, Included.h, n),
         NEW pos, pos = [id |-> MPFSGetID(open, Included.h), pos |-> MPFSTell(part.fs, Included.h)]
  PROVE  /\ part.data \in Seq(Chunks) /\ Len(part.data) \in Nat
         /\ pos \in File /\ pos.pos <= Size(pos.id)
<1> DEFINE id == IF FirstCall THEN IdOf(curHTTP.callbackID) ELSE curHTTP.callbackPos.id
           at == curHTTP.callbackPos.pos
           h == Included.h
<1>1. /\ FilesOK(fs) /\ RecordOK(curHTTP) /\ curHTTP.callbackPos \in File
  BY AtWork DEF RecordOK, Record
<1>2. at \in Nat /\ curHTTP.callbackPos.id \in {0} \cup Ids /\ at <= Size(curHTTP.callbackPos.id)
  BY <1>1 DEF RecordOK, File
<1>3. Included = Opened(fs, id)
  BY Zenon DEF Included, MPFSOpen, MPFSOpenID
<1>4. ~ FirstCall => curHTTP.callbackPos.id # 0
  BY <1>2 DEF FirstCall, Size
<1>5. id \in Nat \ {0}
  BY <1>2, <1>4, IdOfIs, HandlesAre
<1>6. at <= Size(id) \/ at = 0
  BY <1>2 DEF FirstCall
<1> HIDE DEF id
<1>7. FilesOK(Included.fs) /\ OpenDone(fs, id, Included)
  BY <1>1, <1>3, <1>5, OpenedIs DEF OpenFailed
<1>8. /\ h \in Handles /\ id \in Ids /\ h \in OpenIn(Included.fs)
      /\ Included.fs.stubs[h].id = id
  BY <1>7 DEF OpenDone
<1>16. Size(id) \in Nat
  BY <1>8, SizeIs
<1>9. at <= Size(id) /\ IsOpen(Included.fs, h)
  <2> HIDE DEF at
  <2>1. at <= Size(id)
    BY <1>2, <1>6, <1>16
  <2> QED
    BY <1>8, <2>1 DEF OpenIn
<1> HIDE DEF at, h
<1>10. FilesOK(open) /\ IsOpen(open, h) /\ open.stubs[h].id = id
  BY <1>2, <1>7, <1>8, <1>9, SeekIs DEF at, h
<1>11. /\ FilesOK(part.fs) /\ part.data \in Seq(Chunks)
       /\ part.fs.stubs[h].id = open.stubs[h].id
  BY <1>10, GetArrayIs DEF h
<1>12. part.fs.stubs[h] \in File /\ part.fs.stubs[h].pos <= Size(part.fs.stubs[h].id)
  BY <1>8, <1>11, OpenHasFile
<1>13. pos = [id |-> open.stubs[h].id, pos |-> part.fs.stubs[h].pos]
  BY Zenon DEF MPFSGetID, MPFSTell, h
<1>14. pos.id = open.stubs[h].id /\ pos.pos = part.fs.stubs[h].pos
  BY <1>13
<1>15. pos \in File
  BY <1>8, <1>10, <1>12, <1>13 DEF File
<1> QED
  BY <1>11, <1>12, <1>14, <1>15, LenProperties

\* The position in a file that is included moves, and nothing else.
LEMMA PositionKeeps ==
  ASSUME RecordOK(curHTTP), NEW pos \in File, pos.pos <= Size(pos.id),
         NEW r, r = [curHTTP EXCEPT !.callbackPos = pos]
  PROVE  Keeps(r)
<1>1. r \in Record /\ r.callbackPos = pos
      /\ r.file = curHTTP.file /\ r.offsets = curHTTP.offsets
  BY Zenon DEF RecordOK, Record
<1> QED
  BY <1>1, Zenon DEF RecordOK, Keeps

LEMMA CallbackEndsKeeps ==
  ASSUME HTTPInv, Spoils, NEW c \in Conns, CallbackEnds(c)
  PROVE  HTTPInv'
<1> DEFINE s == "SERVE_BODY"
           start == [id |-> 0, pos |-> 0]
           r == [curHTTP EXCEPT !.callbackPos = start]
           open == MPFSSeek(Included.fs, Included.h, curHTTP.callbackPos.pos)
           part == MPFSGetArray(open, Included.h, PutReady(c))
<1>1. /\ turn = <<c, "process">> /\ sm[c] = "SEND_FROM_CALLBACK" /\ curHTTP' = r /\ fs' = fs
      /\ IF Included.h = MPFS_INVALID_HANDLE THEN UNCHANGED net ELSE Fill(c, Len(part.data))
  BY Zenon DEF CallbackEnds, At
<1>2. Goes(c, s)
  BY <1>1, GoesTo, StatesAre, Zenon DEF CallbackEnds
<1>3. PICK k : SocketMoves(c, s, k)
  <2>1. s \notin Young
    BY DEF Young
  <2>2. CASE UNCHANGED net
    BY <1>1, <2>1, <2>2, SocketStays
  <2>3. CASE Included.h # MPFS_INVALID_HANDLE /\ Fill(c, Len(part.data))
    <3>1. Len(part.data) \in Nat
      BY <1>1, <2>3, SendsWhat, IncludedIs
    <3> HIDE DEF part
    <3> QED
      BY <1>1, <2>1, <2>3, <3>1, SocketFills
  <2> QED
    BY <1>1, <2>2, <2>3, Zenon
<1>4. RecordOK(curHTTP) /\ FilesOK(fs)
  BY <1>1, AtWork
<1>5. start \in File /\ start.pos <= Size(start.id)
  BY DEF File, Size
<1> HIDE DEF start
<1>6. Keeps(r)
  BY <1>4, <1>5, PositionKeeps
<1> HIDE DEF r
<1> QED
  BY <1>1, <1>2, <1>3, <1>4, <1>6, PlainStep DEF Young

LEMMA CallbackPausesKeeps ==
  ASSUME HTTPInv, Spoils, NEW c \in Conns, CallbackPauses(c)
  PROVE  HTTPInv'
<1> DEFINE s == "SEND_FROM_CALLBACK"
           open == MPFSSeek(Included.fs, Included.h, curHTTP.callbackPos.pos)
           part == MPFSGetArray(open, Included.h, PutReady(c))
           pos == [id |-> MPFSGetID(open, Included.h), pos |-> MPFSTell(part.fs, Included.h)]
<1>1. /\ turn = <<c, "process">> /\ sm[c] = s /\ fs' = fs /\ s \notin Young
  BY DEF CallbackPauses, At, Young
<1>2. Goes(c, s)
  BY <1>1, GoesOn, Zenon DEF CallbackPauses
<1>3. RecordOK(curHTTP) /\ FilesOK(fs) /\ Keeps(curHTTP)
  BY <1>1, AtWork DEF Keeps
<1>4. CASE UNCHANGED <<curHTTP, net, client>>
  <2>1. SocketMoves(c, s, net[c])
    BY <1>1, <1>4, SocketStays
  <2> QED
    BY <1>1, <1>2, <1>3, <1>4, <2>1, PlainStep
<1>5. CASE /\ Included.h # MPFS_INVALID_HANDLE /\ Fill(c, PutReady(c))
           /\ curHTTP' = [curHTTP EXCEPT !.callbackPos = pos]
  <2> DEFINE r == [curHTTP EXCEPT !.callbackPos = pos]
  <2>1. PutReady(c) \in Nat
    BY <1>1, SendsWhat
  <2>2. SocketMoves(c, s, net'[c])
    BY <1>1, <1>5, <2>1, SocketFills
  <2>3. pos \in File /\ pos.pos <= Size(pos.id)
    BY <1>1, <1>5, <2>1, IncludedIs
  <2>4. curHTTP' = r
    BY <1>5
  <2> HIDE DEF pos
  <2>5. Keeps(r)
    BY <1>3, <2>3, PositionKeeps
  <2> HIDE DEF r
  <2> QED
    BY <1>1, <1>2, <1>3, <2>2, <2>4, <2>5, PlainStep
<1> QED
  BY <1>4, <1>5, Zenon DEF CallbackPauses

\* A record that was forgotten.
LEMMA NewConnIs ==
  /\ RecordOK(NewConn) /\ NewConn.httpStatus = "GET" /\ NewConn # Elsewhere
  /\ NewConn.file = MPFS_INVALID_HANDLE /\ NewConn.offsets = MPFS_INVALID_HANDLE
<1>1. /\ NewConn.httpStatus = "GET" /\ Elsewhere.httpStatus = "loaded"
      /\ NewConn.file = MPFS_INVALID_HANDLE /\ NewConn.offsets = MPFS_INVALID_HANDLE
      /\ NewConn.callbackPos = [id |-> 0, pos |-> 0]
  BY DEF NewConn, Elsewhere
<1>2. [id |-> 0, pos |-> 0] \in File
  BY DEF File
<1>3. NewConn \in Record
  BY <1>2, StatesAre DEF NewConn, Record, Status
<1>4. NewConn.callbackPos.pos <= Size(NewConn.callbackPos.id)
  BY <1>1 DEF Size
<1> QED
  BY <1>1, <1>3, <1>4 DEF RecordOK

LEMMA DisconnectKeeps ==
  ASSUME HTTPInv, Spoils, NEW c \in Conns, Disconnect(c)
  PROVE  HTTPInv'
<1> DEFINE s == "IDLE"
           g == MPFSClose(fs, curHTTP.file)
           f == MPFSClose(g, curHTTP.offsets)
           k == TCPDisconnect(net[c])
<1>1. /\ turn = <<c, "process">> /\ curHTTP' = NewConn /\ fs' = f /\ turn' = After(c)
      /\ net' = [net EXCEPT ![c] = TCPDisconnect(@)]
  BY DEF Disconnect, At, WithoutFiles, ClosedFiles, Done
<1>2. Goes(c, s)
  BY <1>1, GoesTo, StatesAre, Zenon DEF Disconnect
<1>3. turn' # turn
  BY <1>1, AfterIs
<1>4. SocketMoves(c, s, k)
  BY <1>1, <1>3, SocketCloses
<1>5. FilesOK(f) /\ OpenIn(f) = OpenIn(fs) \ {curHTTP.file, curHTTP.offsets}
  <2>1. FilesOK(fs)
    BY <1>1, AtWork
  <2>2. FilesOK(g) /\ OpenIn(g) = OpenIn(fs) \ {curHTTP.file}
    BY <2>1, CloseIs
  <2> HIDE DEF g
  <2>3. FilesOK(f) /\ OpenIn(f) = OpenIn(g) \ {curHTTP.offsets}
    BY <2>2, CloseIs
  <2> QED
    BY <2>2, <2>3
<1> HIDE DEF f, k
<1>6. RecordMoves(s, NewConn)
  BY <1>1, NewConnIs, Zenon DEF RecordMoves
<1>7. FilesMove(NewConn, f)
  BY <1>1, <1>5, NewConnIs, FilesClose
<1> QED
  BY <1>2, <1>4, <1>6, <1>7, StepKeeps

-----------------------------------------------------------------------------
(* HTTPLoadConn().                                                          *)

LEMMA TurnIs ==
  /\ \A c \in Conns : /\ <<c, "check">> \in {Stack} \cup (Conns \X {"check", "process"})
                      /\ <<c, "process">> \in {Stack} \cup (Conns \X {"check", "process"})
                      /\ \A d \in Conns : <<c, "check">> # <<d, "process">>
                      /\ \A d \in Conns : <<c, "process">> = <<d, "process">> => c = d
  /\ \A d \in Conns : Stack # <<d, "process">>
BY DEF Stack

\* The record of c is the one at work; that of every other connection is as it was.
LEMMA LoadIs ==
  ASSUME HTTPInv, NEW c \in Conns, HTTPLoadConn(c), NEW r, curHTTP' = r
  PROVE  /\ curHTTPID' = c /\ DOMAIN http_memory' = Conns /\ http_memory'[c] = Elsewhere
         /\ DOMAIN Records = Conns /\ Records' = [Records EXCEPT ![c] = r]
<1>1. /\ curHTTPID \in Conns /\ DOMAIN http_memory = Conns
      /\ http_memory[curHTTPID] = Elsewhere
  BY DEF HTTPInv, Memory
<1>2. curHTTPID' = c
  BY DEF HTTPLoadConn
<1>3. CASE c = curHTTPID
  <2>1. http_memory' = http_memory
    BY <1>3 DEF HTTPLoadConn
  <2>2. \A d \in Conns : Conn(d)' = IF d = c THEN r ELSE Conn(d)
    BY <1>2, <1>3, <2>1 DEF Conn
  <2> QED
    BY <1>1, <1>2, <1>3, <2>1, <2>2 DEF Records
<1>4. CASE c # curHTTPID
  <2>1. http_memory' = [http_memory EXCEPT ![curHTTPID] = curHTTP, ![c] = Elsewhere]
    BY <1>4 DEF HTTPLoadConn
  <2>2. \A d \in Conns : Conn(d)' = IF d = c THEN r ELSE Conn(d)
    BY <1>1, <1>2, <1>4, <2>1 DEF Conn
  <2>3. DOMAIN http_memory' = Conns /\ http_memory'[c] = Elsewhere
    BY <1>1, <2>1
  <2> QED
    BY <1>2, <2>2, <2>3 DEF Records
<1> QED
  BY <1>3, <1>4

LEMMA LoadKeeps ==
  ASSUME HTTPInv, Spoils, NEW c \in Conns, turn = <<c, "check">>,
         turn' \in {turn, <<c, "process">>}, HTTPLoadConn(c), watch' = watch,
         NEW s \in States, sm' = [sm EXCEPT ![c] = s],
         NEW k, net' = [net EXCEPT ![c] = k], SocketOK(k), ~ k.wasReset,
         s \in Young => Asks(k.rx \o k.ask),
         NEW r, curHTTP' = r, RecordOK(r),
         s \in Young => r.file = MPFS_INVALID_HANDLE /\ r.offsets = MPFS_INVALID_HANDLE,
         NEW f, fs' = f, FilesOK(f), ~ spoilt' => Moves(OpenIn(fs), Records[c], OpenIn(f), r)
  PROVE  HTTPInv'
<1>1. /\ curHTTPID' = c /\ DOMAIN http_memory' = Conns /\ http_memory'[c] = Elsewhere
      /\ DOMAIN Records = Conns /\ Records' = [Records EXCEPT ![c] = r]
  BY LoadIs
<1>2. /\ sm' \in [Conns -> States] /\ sm'[c] = s
      /\ \A d \in Conns : d # c => sm'[d] = sm[d]
  BY DEF HTTPInv, Control
<1>3. /\ net' \in [Conns -> Socket] /\ net'[c] = k
      /\ \A d \in Conns : d # c => net'[d] = net[d]
  BY DEF HTTPInv, Sockets, SocketOK
<1>4. Records'[c] = r /\ \A d \in Conns : d # c => Records'[d] = Records[d]
  BY <1>1
<1>5. \A d \in Conns : turn' = <<d, "process">> => d = c
  BY TurnIs
<1>6. Control'
  <2>1. turn' \in {Stack} \cup (Conns \X {"check", "process"})
    BY TurnIs
  <2> QED
    BY <1>2, <2>1, Zenon DEF HTTPInv, Control, Spoils
<1>7. Memory'
  <2>1. \A d \in Conns : RecordOK(Records'[d])
    BY <1>4, Zenon DEF HTTPInv, Memory
  <2>2. \A d \in Conns : turn' = <<d, "process">> => curHTTPID' = d
    BY <1>1, <1>5, Zenon
  <2> QED
    BY <1>1, <2>1, <2>2, Zenon DEF Memory
<1>8. Sockets'
  <2>1. \A d \in Conns : SocketOK(net'[d])
    BY <1>3, Zenon DEF HTTPInv, Sockets
  <2>2. \A d \in Conns : turn' = <<d, "process">> /\ net'[d].wasReset => sm'[d] = "DISCONNECT"
    BY <1>3, <1>5, Zenon
  <2> QED
    BY <1>3, <2>1, <2>2, Zenon DEF Sockets
<1>9. Unread'
  BY <1>2, <1>3, Zenon DEF HTTPInv, Unread
<1>10. Fresh'
  BY <1>2, <1>4, Zenon DEF HTTPInv, Fresh
<1>11. (~ spoilt => Shared(OpenIn(fs), Records))'
  <2> SUFFICES ASSUME ~ spoilt' PROVE Shared(OpenIn(f), Records')
    BY Zenon DEF OpenIn
  <2>1. Shared(OpenIn(fs), Records)
    BY Zenon DEF HTTPInv, Spoils
  <2> QED
    BY <1>1, <2>1, SharedMoves, Zenon
<1>12. FilesOK(fs)'
  BY Zenon
<1> QED
  BY <1>6, <1>7, <1>8, <1>9, <1>10, <1>11, <1>12, Zenon DEF HTTPInv

LEMMA ForgetResetKeeps ==
  ASSUME HTTPInv, Spoils, NEW c \in Conns, ForgetReset(c)
  PROVE  HTTPInv'
<1> DEFINE no == FALSE
           k == [net[c] EXCEPT !.wasReset = no]
           g == MPFSClose(fs, Records[c].file)
           f == MPFSClose(g, Records[c].offsets)
<1>1. /\ turn = <<c, "check">> /\ turn' = turn /\ net[c].wasReset /\ HTTPLoadConn(c)
      /\ sm' = [sm EXCEPT ![c] = "IDLE"] /\ curHTTP' = NewConn /\ fs' = f
      /\ watch' = watch /\ net' = [net EXCEPT ![c] = k]
  BY DEF ForgetReset, Goto, WithoutFiles, ClosedFiles, Records
<1>2. /\ SocketOK(net[c]) /\ Asks(net[c].rx \o net[c].ask) /\ FilesOK(fs)
      /\ ~ spoilt => Shared(OpenIn(fs), Records)
  BY <1>1, Zenon DEF HTTPInv, Sockets, Unread
<1>3. ~ no /\ no \in BOOLEAN
  OBVIOUS
<1> HIDE DEF no
<1>4. SocketOK(k) /\ ~ k.wasReset /\ Asks(k.rx \o k.ask)
  <2>1. k \in Socket
    BY <1>2, <1>3, SMT DEF SocketOK, Socket
  <2>2. /\ k.wasReset = no /\ k.rx = net[c].rx /\ k.ask = net[c].ask /\ k.st = net[c].st
    BY <1>2, Zenon DEF SocketOK, Socket
  <2> QED
    BY <1>2, <1>3, <2>1, <2>2, Zenon DEF SocketOK
<1>5. FilesOK(f) /\ OpenIn(f) = OpenIn(fs) \ {Records[c].file, Records[c].offsets}
  <2>1. FilesOK(g) /\ OpenIn(g) = OpenIn(fs) \ {Records[c].file}
    BY <1>2, CloseIs
  <2> HIDE DEF g
  <2>2. FilesOK(f) /\ OpenIn(f) = OpenIn(g) \ {Records[c].offsets}
    BY <2>1, CloseIs
  <2> QED
    BY <2>1, <2>2
<1> HIDE DEF f, k
<1>6. ~ spoilt' => Moves(OpenIn(fs), Records[c], OpenIn(f), NewConn)
  <2>1. OpenIn(fs) \subseteq Handles
    BY DEF OpenIn
  <2>2. HandlesOf(NewConn) = {}
    BY NewConnIs, HandlesAre DEF HandlesOf
  <2> QED
    BY <1>5, <2>1, <2>2 DEF Moves, HandlesOf
<1>7. "IDLE" \in States
  BY StatesAre
<1> QED
  BY <1>1, <1>4, <1>5, <1>6, <1>7, NewConnIs, LoadKeeps

LEMMA EligibleKeeps ==
  ASSUME HTTPInv, Spoils, NEW c \in Conns, Eligible(c)
  PROVE  HTTPInv'
<1> DEFINE s == sm[c]
           k == net[c]
           r == Records[c]
<1>1. /\ turn = <<c, "check">> /\ turn' = <<c, "process">> /\ ~ net[c].wasReset
      /\ HTTPLoadConn(c) /\ curHTTP' = r /\ watch' = watch /\ fs' = fs
  BY DEF Eligible, Records
<1>2. sm' = [sm EXCEPT ![c] = s] /\ net' = [net EXCEPT ![c] = k] /\ s \in States
  BY DEF Eligible, HTTPInv, Control, Sockets
<1>3. SocketOK(k) /\ RecordOK(r) /\ FilesOK(fs)
  BY DEF HTTPInv, Sockets, Memory
<1>4. s \in Young => /\ Asks(k.rx \o k.ask)
                     /\ r.file = MPFS_INVALID_HANDLE /\ r.offsets = MPFS_INVALID_HANDLE
  BY DEF HTTPInv, Unread, Fresh
<1>5. ~ spoilt' => Moves(OpenIn(fs), r, OpenIn(fs), r)
  <2> SUFFICES ASSUME ~ spoilt' PROVE Moves(OpenIn(fs), r, OpenIn(fs), r)
    OBVIOUS
  <2>1. Shared(OpenIn(fs), Records)
    BY DEF HTTPInv, Spoils
  <2>2. HandlesOf(r) \subseteq OpenIn(fs) /\ (r.file = r.offsets => HandlesOf(r) = {})
    BY <2>1 DEF Shared
  <2> HIDE DEF r
  <2> QED
    BY <2>2 DEF Moves
<1> HIDE DEF s, k, r
<1>6. ~ k.wasReset /\ Records[c] = r
  BY <1>1 DEF k, r
<1> QED
  BY <1>1, <1>2, <1>3, <1>4, <1>5, <1>6, LoadKeeps

-----------------------------------------------------------------------------
(* Steps that leave the records and the files alone.                        *)

LEMMA RecordsStay ==
  ASSUME UNCHANGED <<curHTTP, curHTTPID, http_memory>>
  PROVE  Records' = Records
BY DEF Records, Conn

LEMMA PassKeeps ==
  ASSUME HTTPInv, Spoils, UNCHANGED <<sm, curHTTP, curHTTPID, http_memory, fs, net>>,
         watch' \in [Conns -> 0 .. Timeout],
         turn' \in {Stack} \cup (Conns \X {"check"})
  PROVE  HTTPInv'
<1>1. Records' = Records
  BY RecordsStay
<1>2. /\ turn' \in {Stack} \cup (Conns \X {"check", "process"})
      /\ \A d \in Conns : turn' # <<d, "process">>
  BY DEF Stack
<1>3. Control'
  BY <1>2, Zenon DEF HTTPInv, Control, Spoils
<1>4. Memory' /\ Sockets'
  BY <1>1, <1>2 DEF HTTPInv, Memory, Sockets
<1>5. Unread' /\ Fresh'
  BY <1>1 DEF HTTPInv, Unread, Fresh
<1>6. FilesOK(fs)' /\ (~ spoilt => Shared(OpenIn(fs), Records))'
  BY <1>1 DEF HTTPInv, Spoils
<1> QED
  BY <1>3, <1>4, <1>5, <1>6 DEF HTTPInv

LEMMA SkipKeeps ==
  ASSUME HTTPInv, Spoils, NEW c \in Conns, Skip(c)
  PROVE  HTTPInv'
<1>1. turn' \in {Stack} \cup (Conns \X {"check"})
  BY Zenon DEF Skip, After
<1>2. watch' \in [Conns -> 0 .. Timeout]
  BY DEF HTTPInv, Control, Skip
<1> QED
  BY <1>1, <1>2, PassKeeps DEF Skip

LEMMA StartPassKeeps ==
  ASSUME HTTPInv, Spoils, StartPass
  PROVE  HTTPInv'
<1>1. turn' \in {Stack} \cup (Conns \X {"check"})
  BY HTTPAssumption DEF StartPass, Conns
<1>2. PICK late \in BOOLEAN :
        watch' = [c \in Conns |-> IF late \/ watch[c] = 0 \/ sm[c] \notin Receiving
                                  THEN 0 ELSE watch[c] - 1]
  BY DEF StartPass
<1>3. \A c \in Conns : watch[c] \in 0 .. Timeout
  BY DEF HTTPInv, Control
<1>4. \A c \in Conns : watch'[c] \in 0 .. Timeout
  BY <1>2, <1>3, HTTPAssumption
<1>5. watch' \in [Conns -> 0 .. Timeout]
  BY <1>2, <1>4
<1> QED
  BY <1>1, <1>5, PassKeeps DEF StartPass

-----------------------------------------------------------------------------
(* The clients.                                                             *)

LEMMA ClientKeeps ==
  ASSUME HTTPInv, NEW c \in Conns, turn = Stack, UNCHANGED ServerSide,
         NEW k, net' = [net EXCEPT ![c] = k], SocketOK(k),
         k.wasReset \/ sm[c] \in Young => Asks(k.rx \o k.ask)
  PROVE  HTTPInv'
<1>1. /\ turn' = turn /\ sm' = sm /\ watch' = watch /\ fs' = fs /\ spoilt' = spoilt
      /\ curHTTP' = curHTTP /\ curHTTPID' = curHTTPID /\ http_memory' = http_memory
  BY DEF ServerSide
<1>2. Records' = Records
  BY <1>1, RecordsStay
<1>3. /\ net' \in [Conns -> Socket] /\ net'[c] = k
      /\ \A d \in Conns : d # c => net'[d] = net[d]
  BY DEF HTTPInv, Sockets, SocketOK
<1>4. Control' /\ Memory' /\ Fresh'
  BY <1>1, <1>2 DEF HTTPInv, Control, Memory, Fresh
<1>5. Sockets'
  <2>1. \A d \in Conns : SocketOK(net'[d])
    BY <1>3, Zenon DEF HTTPInv, Sockets
  <2>2. \A d \in Conns : turn' # <<d, "process">>
    BY <1>1, TurnIs
  <2> QED
    BY <1>3, <2>1, <2>2, Zenon DEF Sockets
<1>6. Unread'
  BY <1>1, <1>3, Zenon DEF HTTPInv, Unread
<1>7. FilesOK(fs)' /\ (~ spoilt => Shared(OpenIn(fs), Records))'
  BY <1>1, <1>2 DEF HTTPInv
<1> QED
  BY <1>4, <1>5, <1>6, <1>7 DEF HTTPInv

\* A request begins with its line, or never gets that far.
LEMMA LineFirst ==
  ASSUME NEW s, NEW n \in Nat, Len(s) = n,
         s[1] \in DOMAIN Line /\ s[1] # "half"
  PROVE  Asks(s)
<1> SUFFICES ASSUME NEW i \in 1 .. n, \A j \in 1 .. i - 1 : s[j] = "half"
             PROVE  s[i] \in DOMAIN Line
  BY DEF Asks
<1>1. i = 1
  BY SMT
<1> QED
  BY <1>1

LEMMA ImageIs ==
  ASSUME NEW kind \in {"image", "badimage"}, NEW s, s = Request[kind],
         NEW tag, tag = IF kind = "image" THEN "tag" ELSE "badtag"
  PROVE  /\ s \in Stream /\ Len(s) = ImageLen + 4
         /\ s[1] = "image" /\ s[2] = "length" /\ s[3] = "blank" /\ s[4] = "mime" /\ s[5] = tag
         /\ \A i \in 6 .. ImageLen + 4 : s[i] = "data"
<1> DEFINE front == <<"image", "length", "blank">>
           start == <<"mime", tag>>
           data == [i \in 1 .. ImageLen - 1 |-> "data"]
           body == start \o data
<1>1. ImageLen \in Nat /\ ImageLen - 1 \in Nat
  BY MPFSAssumption
<1>2. front \in Stream /\ Len(front) = 3
      /\ front[1] = "image" /\ front[2] = "length" /\ front[3] = "blank"
  BY DEF Stream, Tokens
<1>3. start \in Stream /\ Len(start) = 2 /\ start[1] = "mime" /\ start[2] = tag
  <2>1. tag \in {"tag", "badtag"}
    OBVIOUS
  <2> QED
    BY <2>1 DEF Stream, Tokens
<1>4. /\ data \in Stream /\ Len(data) = ImageLen - 1
      /\ \A i \in 1 .. ImageLen - 1 : data[i] = "data"
  <2>1. "data" \in Tokens
    BY DEF Tokens
  <2> QED
    BY <1>1, <2>1 DEF Stream
<1>5. s = front \o body
  <2>1. /\ Request.image = front \o ImageBody("tag")
        /\ Request.badimage = front \o ImageBody("badtag")
    BY Zenon DEF Request
  <2> QED
    BY <2>1 DEF ImageBody
<1> HIDE DEF front, start, data
<1>6. /\ body \in Stream /\ Len(body) = Len(start) + Len(data)
      /\ \A i \in 1 .. Len(start) + Len(data) :
            body[i] = IF i <= Len(start) THEN start[i] ELSE data[i - Len(start)]
  BY <1>3, <1>4, ConcatProperties, Zenon DEF Stream
<1> HIDE DEF body
<1> DEFINE t == front \o body
<1>15. /\ t \in Stream /\ Len(t) = Len(front) + Len(body)
       /\ \A i \in 1 .. Len(front) + Len(body) :
             t[i] = IF i <= Len(front) THEN front[i] ELSE body[i - Len(front)]
  <2>1. body \in Stream
    BY <1>6
  <2> QED
    BY <1>2, <2>1, ConcatProperties, Zenon DEF Stream
<1> HIDE DEF t
<1>7. /\ s \in Stream /\ Len(s) = Len(front) + Len(body)
      /\ \A i \in 1 .. Len(front) + Len(body) :
            s[i] = IF i <= Len(front) THEN front[i] ELSE body[i - Len(front)]
  <2>1. s = t
    BY <1>5 DEF t
  <2> QED
    BY <1>15, <2>1, Zenon
<1>8. Len(body) = ImageLen + 1 /\ Len(s) = ImageLen + 4
  BY <1>1, <1>2, <1>3, <1>4, <1>6, <1>7
<1>9. body[1] = "mime" /\ body[2] = tag
  BY <1>1, <1>3, <1>4, <1>6
<1>10. \A i \in 3 .. ImageLen + 1 : body[i] = "data"
  BY <1>1, <1>3, <1>4, <1>6
<1>11. s[1] = "image" /\ s[2] = "length" /\ s[3] = "blank"
  BY <1>1, <1>2, <1>7, <1>8
<1>12. s[4] = body[1] /\ s[5] = body[2]
  BY <1>1, <1>2, <1>7, <1>8
<1>13. \A i \in 6 .. ImageLen + 4 : s[i] = body[i - 3]
  BY <1>1, <1>2, <1>7, <1>8
<1>14. \A i \in 6 .. ImageLen + 4 : i - 3 \in 3 .. ImageLen + 1
  BY <1>1
<1> QED
  BY <1>7, <1>8, <1>9, <1>10, <1>11, <1>12, <1>13, <1>14

LEMMA RequestsAsk ==
  ASSUME NEW kind \in DOMAIN Request
  PROVE  Request[kind] \in Stream /\ Asks(Request[kind])
<1>1. \A token \in {"page", "nothing", "form", "image", "config", "lost", "other"} :
        token \in DOMAIN Line /\ token # "half"
  BY DEF Line
<1>2. CASE kind \in {"page", "form", "nolength", "config", "lost", "other"}
  <2> DEFINE s == Request[kind]
  <2>2. s = <<"other">> => s \in Stream /\ Len(s) \in Nat /\ s[1] = "other"
    BY DEF Stream, Tokens
  <2>10. s = <<"page", "blank">> => s \in Stream /\ Len(s) \in Nat /\ s[1] = "page"
    BY DEF Stream, Tokens
  <2>11. s = <<"form", "blank">> => s \in Stream /\ Len(s) \in Nat /\ s[1] = "form"
    BY DEF Stream, Tokens
  <2>3. s = <<"lost", "length", "blank", "pair">>
          => s \in Stream /\ Len(s) \in Nat /\ s[1] = "lost"
    BY DEF Stream, Tokens
  <2>4. s = <<"image", "blank", "data">> => s \in Stream /\ Len(s) \in Nat /\ s[1] = "image"
    BY DEF Stream, Tokens
  <2>7. s = <<"config", "length", "blank", "pair", "pair", "pair">>
          => s \in Stream /\ Len(s) \in Nat /\ s[1] = "config"
    BY DEF Stream, Tokens
  <2>8. \/ s = <<"other">> \/ s = <<"page", "blank">> \/ s = <<"form", "blank">>
        \/ s = <<"lost", "length", "blank", "pair">> \/ s = <<"image", "blank", "data">>
        \/ s = <<"config", "length", "blank", "pair", "pair", "pair">>
    <3>1. /\ Request.other = <<"other">> /\ Request.page = <<"page", "blank">>
          /\ Request.form = <<"form", "blank">>
          /\ Request.lost = <<"lost", "length", "blank", "pair">>
          /\ Request.nolength = <<"image", "blank", "data">>
          /\ Request.config = <<"config", "length", "blank", "pair", "pair", "pair">>
      BY Zenon DEF Request
    <3> QED
      BY <1>2, <3>1, Zenon
  <2> HIDE DEF s
  <2>9. /\ s \in Stream /\ Len(s) \in Nat
        /\ s[1] \in {"page", "nothing", "form", "image", "config", "lost", "other"}
    BY <2>2, <2>3, <2>4, <2>7, <2>8, <2>10, <2>11, Zenon
  <2>1. /\ Request[kind] \in Stream /\ Len(Request[kind]) \in Nat
        /\ Request[kind][1] \in {"page", "nothing", "form", "image", "config", "lost", "other"}
    BY <2>9 DEF s
  <2> QED
    BY <1>1, <2>1, LineFirst
<1>3. CASE kind = "nothing"
  <2>1. Request[kind] = <<"half", "nothing", "blank">>
    BY <1>3 DEF Request
  <2> QED
    BY <1>1, <2>1 DEF Asks, Stream, Tokens
<1>4. CASE kind = "endless"
  <2>1. Request[kind] = [i \in 1 .. RxSize |-> "half"]
    BY <1>4 DEF Request
  <2>2. RxSize \in Nat
    BY HTTPAssumption
  <2>3. Request[kind] \in Stream
    BY <2>1, <2>2 DEF Stream, Tokens
  <2>4. Len(Request[kind]) = RxSize
    BY <2>1, <2>2
  <2> QED
    BY <2>1, <2>2, <2>3, <2>4 DEF Asks
<1>6. CASE kind \in {"image", "badimage"}
  <2>1. /\ Request[kind] \in Stream /\ Len(Request[kind]) \in Nat
        /\ Request[kind][1] = "image"
    BY <1>6, ImageIs, LenProperties DEF Stream
  <2> QED
    BY <1>1, <2>1, LineFirst
<1>5. DOMAIN Request = {"page", "form", "image", "badimage", "nolength", "config", "lost",
                        "other", "nothing", "endless"}
  BY DEF Request
<1> QED
  BY <1>2, <1>3, <1>4, <1>5, <1>6

LEMMA ConnectKeeps ==
  ASSUME HTTPInv, NEW c \in Conns, Connect(c)
  PROVE  HTTPInv'
<1>1. PICK kind \in Kinds[c] :
        net' = [net EXCEPT ![c].st = "open", ![c].ask = Request[kind], ![c].room = TxSize]
  BY Zenon DEF Connect
<1> DEFINE ask == Request[kind]
           k == [net[c] EXCEPT !.st = "open", !.ask = ask, !.room = TxSize]
<1>2. ask \in Stream /\ Asks(ask)
  BY KindsAssumption, RequestsAsk
<1>3. /\ SocketOK(net[c]) /\ net[c].rx = <<>> /\ TxSize \in 0 .. TxSize
  BY HTTPAssumption DEF HTTPInv, Sockets, SocketOK, Connect
<1>4. net' = [net EXCEPT ![c] = k]
  BY <1>1
<1> HIDE DEF ask
<1>5. k \in Socket /\ k.st = "open" /\ k.ask = ask /\ k.rx = net[c].rx
  BY <1>2, <1>3, Zenon DEF SocketOK, Socket
<1> HIDE DEF k
<1>6. SocketOK(k)
  BY <1>3, <1>5 DEF SocketOK
<1>7. k.rx \o k.ask = ask
  BY <1>2, <1>3, <1>5, ConcatEmptySeq DEF Stream
<1> QED
  BY <1>2, <1>4, <1>6, <1>7, ClientKeeps DEF Connect

LEMMA Associates ==
  ASSUME NEW a \in Stream, NEW b \in Stream, NEW d \in Stream
  PROVE  (a \o b) \o d = a \o (b \o d)
BY ConcatAssociative DEF Stream

LEMMA SendIs ==
  ASSUME HTTPInv, NEW c \in Conns, Send(c)
  PROVE  \E k : /\ net' = [net EXCEPT ![c] = k] /\ SocketOK(k)
                /\ net[c].st = "open" /\ k.st = "open" /\ k.wasReset = net[c].wasReset
                /\ k.rx \o k.ask = net[c].rx \o net[c].ask
<1> DEFINE rx == Append(net[c].rx, Head(net[c].ask))
           ask == Tail(net[c].ask)
           k == [net[c] EXCEPT !.rx = rx, !.ask = ask]
<1>1. /\ net' = [net EXCEPT ![c] = k] /\ net[c].ask # <<>> /\ RxFree(c) > 0
  BY DEF Send
<1>2. /\ SocketOK(net[c]) /\ net[c].rx \in Stream /\ net[c].ask \in Stream
  BY DEF HTTPInv, Sockets, Socket
<1>3. /\ rx \in Stream /\ ask \in Stream /\ Len(rx) = Len(net[c].rx) + 1
      /\ rx \o ask = net[c].rx \o net[c].ask
  <2>1. /\ Head(net[c].ask) \in Tokens /\ ask \in Stream
        /\ net[c].ask = <<Head(net[c].ask)>> \o ask
    BY <1>1, <1>2, HeadTailProperties DEF Stream
  <2>2. rx \in Stream /\ Len(rx) = Len(net[c].rx) + 1
    BY <1>2, <2>1, AppendProperties DEF Stream
  <2>3. rx = net[c].rx \o <<Head(net[c].ask)>>
    BY <1>2, <2>1, AppendIsConcat DEF Stream
  <2>4. <<Head(net[c].ask)>> \in Stream
    BY <2>1 DEF Stream
  <2>5. (net[c].rx \o <<Head(net[c].ask)>>) \o ask = net[c].rx \o (<<Head(net[c].ask)>> \o ask)
    BY <1>2, <2>1, <2>4, Associates, Zenon
  <2>6. rx \o ask = net[c].rx \o (<<Head(net[c].ask)>> \o ask)
    BY <2>3, <2>5, Zenon
  <2>7. rx \o ask = net[c].rx \o net[c].ask
    BY <2>1, <2>6, Zenon
  <2> QED
    BY <2>1, <2>2, <2>7, Zenon
<1> HIDE DEF rx, ask
<1>4. /\ k \in Socket /\ k.st = net[c].st /\ k.rx = rx /\ k.ask = ask
      /\ k.wasReset = net[c].wasReset
  BY <1>2, <1>3, Zenon DEF SocketOK, Socket
<1> HIDE DEF k
<1>5. net[c].st = "open"
  BY <1>1, <1>2 DEF SocketOK, Socket
<1>6. Len(rx) <= RxSize
  BY <1>1, <1>2, <1>3, HTTPAssumption, LenProperties DEF RxFree, Ready, Stream
<1>7. SocketOK(k)
  BY <1>4, <1>5, <1>6 DEF SocketOK
<1> QED
  BY <1>1, <1>3, <1>4, <1>5, <1>7, Zenon

LEMMA SendKeeps ==
  ASSUME HTTPInv, NEW c \in Conns, Send(c)
  PROVE  HTTPInv'
<1>1. PICK k : /\ net' = [net EXCEPT ![c] = k] /\ SocketOK(k) /\ k.wasReset = net[c].wasReset
               /\ k.rx \o k.ask = net[c].rx \o net[c].ask
  BY SendIs
<1>2. k.wasReset \/ sm[c] \in Young => Asks(k.rx \o k.ask)
  BY <1>1, Zenon DEF HTTPInv, Unread
<1> QED
  BY <1>1, <1>2, ClientKeeps DEF Send

LEMMA SendMoreKeeps ==
  ASSUME HTTPInv, NEW c \in Conns, SendMore(c)
  PROVE  HTTPInv'
<1> DEFINE rx == <<"half">>
           k == [net[c] EXCEPT !.rx = rx]
<1>1. net' = [net EXCEPT ![c] = k] /\ net[c].st = "closing"
  BY DEF SendMore
<1>2. SocketOK(net[c]) /\ net[c].ask = <<>>
  BY <1>1 DEF HTTPInv, Sockets, SocketOK
<1>3. rx \in Stream /\ Len(rx) <= RxSize /\ rx \o <<>> = rx /\ Asks(rx)
  BY HTTPAssumption DEF Stream, Tokens, Asks
<1> HIDE DEF rx
<1>4. k \in Socket /\ k.st = net[c].st /\ k.rx = rx /\ k.ask = net[c].ask
  BY <1>2, <1>3, Zenon DEF SocketOK, Socket
<1> HIDE DEF k
<1>5. SocketOK(k)
  BY <1>1, <1>2, <1>3, <1>4 DEF SocketOK
<1>6. k.rx \o k.ask = rx
  BY <1>2, <1>3, <1>4, Zenon
<1>7. Asks(k.rx \o k.ask)
  BY <1>3, <1>6, Zenon
<1>8. turn = Stack /\ UNCHANGED ServerSide
  BY DEF SendMore
<1> QED
  BY <1>1, <1>5, <1>7, <1>8, ClientKeeps

LEMMA DrainKeeps ==
  ASSUME HTTPInv, NEW c \in Conns, Drain(c)
  PROVE  HTTPInv'
<1> DEFINE k == [net[c] EXCEPT !.room = TxSize]
<1>1. net' = [net EXCEPT ![c] = k] /\ TxSize \in 0 .. TxSize
  BY HTTPAssumption DEF Drain
<1>2. SocketOK(net[c])
  BY DEF HTTPInv, Sockets
<1>3. /\ k \in Socket /\ k.st = net[c].st /\ k.rx = net[c].rx /\ k.ask = net[c].ask
      /\ k.wasReset = net[c].wasReset
  BY <1>1, <1>2, Zenon DEF SocketOK, Socket
<1> HIDE DEF k
<1>4. SocketOK(k)
  BY <1>2, <1>3, Zenon DEF SocketOK
<1>5. k.wasReset \/ sm[c] \in Young => Asks(k.rx \o k.ask)
  BY <1>3, Zenon DEF HTTPInv, Unread
<1> QED
  BY <1>1, <1>4, <1>5, ClientKeeps DEF Drain

LEMMA LeaveKeeps ==
  ASSUME HTTPInv, NEW c \in Conns, HalfClose(c) \/ Gone(c)
  PROVE  HTTPInv'
<1>1. PICK k : /\ net' = [net EXCEPT ![c] = k]
               /\ k = TCPDisconnect(net[c]) \/ k = Reset(net[c])
  BY DEF HalfClose, Gone
<1>2. SocketOK(net[c])
  BY DEF HTTPInv, Sockets
<1>3. SocketOK(k) /\ k.rx = <<>> /\ k.ask = <<>>
  BY <1>1, <1>2, DisconnectIs
<1>4. Asks(k.rx \o k.ask)
  BY <1>3 DEF Asks
<1>5. turn = Stack /\ UNCHANGED ServerSide
  BY Zenon DEF HalfClose, Gone
<1> QED
  BY <1>1, <1>3, <1>4, <1>5, ClientKeeps

-----------------------------------------------------------------------------
(* The theorems.                                                            *)

LEMMA HTTPInitKeeps ==
  HTTPInit => HTTPInv
<1> SUFFICES ASSUME HTTPInit PROVE HTTPInv
  OBVIOUS
<1>1. /\ turn = Stack /\ sm = [c \in Conns |-> "IDLE"] /\ spoilt = FALSE
      /\ watch = [c \in Conns |-> 0] /\ net = [c \in Conns |-> ClosedSocket]
      /\ curHTTP = NewConn /\ curHTTPID = 0 /\ fs = MPFSInit
      /\ http_memory = [c \in Conns |-> IF c = 0 THEN Elsewhere ELSE NewConn]
  BY DEF HTTPInit
<1>2. 0 \in Conns
  BY HTTPAssumption DEF Conns
<1>3. Records = [c \in Conns |-> NewConn]
  BY <1>1 DEF Records, Conn
<1>4. Control
  <2>1. "IDLE" \in States /\ 0 \in 0 .. Timeout
    BY StatesAre, HTTPAssumption
  <2> QED
    BY <1>1, <2>1 DEF Control
<1>5. Memory
  <2>1. \A c \in Conns : RecordOK(Records[c])
    BY <1>3, NewConnIs
  <2>2. \A c \in Conns : turn # <<c, "process">>
    BY <1>1, TurnIs
  <2> QED
    BY <1>1, <1>2, <2>1, <2>2 DEF Memory
<1>6. /\ SocketOK(ClosedSocket) /\ ClosedSocket.rx = <<>> /\ ClosedSocket.ask = <<>>
  <2>1. <<>> \in Stream /\ 0 \in 0 .. TxSize /\ Len(<<>>) = 0 /\ 0 <= RxSize
    BY HTTPAssumption DEF Stream
  <2>2. ClosedSocket \in Socket /\ ClosedSocket.rx = <<>> /\ ClosedSocket.ask = <<>>
        /\ ClosedSocket.st = "closed"
    BY <2>1 DEF ClosedSocket, Socket
  <2> QED
    BY <2>1, <2>2 DEF SocketOK
<1>7. Sockets
  <2>1. \A c \in Conns : turn # <<c, "process">>
    BY <1>1, TurnIs
  <2> QED
    BY <1>1, <1>6, <2>1 DEF Sockets, SocketOK
<1>8. Unread
  <2>1. Asks(<<>> \o <<>>)
    BY DEF Asks
  <2> QED
    BY <1>1, <1>6, <2>1 DEF Unread
<1>9. Fresh
  BY <1>3, NewConnIs DEF Fresh
<1>10. FilesOK(fs) /\ OpenIn(fs) = {}
  <2> DEFINE stubs == [h \in Handles |-> Closed]
             no == FALSE
  <2>1. fs = [stubs |-> stubs, locked |-> no, image |-> WholeImage, numFiles |-> Len(Fat)]
    BY <1>1 DEF MPFSInit
  <2>2. stubs \in [Handles -> File] /\ \A h \in Handles : stubs[h] = Closed
    BY DEF Closed, File
  <2>3. no \in BOOLEAN /\ ~ no
    OBVIOUS
  <2> HIDE DEF stubs, no
  <2>4. WholeImage \in Stream
    BY MPFSAssumption DEF WholeImage, Stream, Tokens
  <2>5. fs.stubs = stubs /\ fs.locked = no
    BY <2>1
  <2>6. fs \in FileSystem
    BY <2>1, <2>2, <2>3, <2>4 DEF FileSystem
  <2>7. OpenIn(fs) = {}
    BY <2>2, <2>5 DEF OpenIn, IsOpen
  <2>8. \A h \in Handles : fs.stubs[h].pos <= Size(fs.stubs[h].id)
    BY <2>2, <2>5 DEF Closed, Size
  <2> QED
    BY <2>2, <2>3, <2>5, <2>6, <2>7, <2>8, HandlesAre DEF FilesOK
<1>11. Shared({}, Records)
  BY <1>3, NewConnIs, HandlesAre DEF Shared, HandlesOf
<1> QED
  BY <1>4, <1>5, <1>7, <1>8, <1>9, <1>10, <1>11 DEF HTTPInv

LEMMA HTTPNextKeeps ==
  HTTPInv /\ [HTTPNext]_httpVars => HTTPInv'
<1> SUFFICES ASSUME HTTPInv, [HTTPNext]_httpVars PROVE HTTPInv'
  OBVIOUS
<1>1. CASE HTTPServer
  <2>1. Spoils
    BY <1>1 DEF HTTPServer, Spoils, OpenIn, HTTPInv, Control
  <2>2. CASE StartPass
    BY <2>1, <2>2, StartPassKeeps
  <2>3. ASSUME NEW c \in Conns, Check(c) PROVE HTTPInv'
    BY <2>1, <2>3, ForgetResetKeeps, EligibleKeeps, SkipKeeps DEF Check
  <2>4. ASSUME NEW c \in Conns, Parse(c) PROVE HTTPInv'
    BY <2>1, <2>4, IdleKeeps, WaitForLineKeeps, ParseRequestKeeps, ParseHeadersKeeps,
       AuthenticateKeeps, ProcessGetKeeps DEF Parse
  <2>5. ASSUME NEW c \in Conns, Post(c) PROVE HTTPInv'
    BY <2>1, <2>5, PostTimeoutKeeps, NoPostKeeps, ExecutePostKeeps, UploadStartKeeps,
       UploadWriteKeeps, UploadRefusedKeeps DEF Post
  <2>6. ASSUME NEW c \in Conns, Serve(c) PROVE HTTPInv'
    BY <2>1, <2>6, ProcessRequestKeeps, ServeHeadersKeeps, ServeCookiesKeeps, SendLastKeeps,
       SendSomeKeeps, SendToCallbackKeeps, CallbackUnknownKeeps, CallbackEndsKeeps,
       CallbackPausesKeeps, DisconnectKeeps DEF Serve
  <2> QED
    BY <1>1, <2>2, <2>3, <2>4, <2>5, <2>6 DEF HTTPServer
<1>2. ASSUME NEW c \in Conns, Clients(c) PROVE HTTPInv'
  BY <1>2, ConnectKeeps, SendKeeps, SendMoreKeeps, DrainKeeps, LeaveKeeps DEF Clients
<1>3. CASE UNCHANGED httpVars
  <2>1. /\ turn' = turn /\ sm' = sm /\ curHTTP' = curHTTP /\ curHTTPID' = curHTTPID
        /\ http_memory' = http_memory /\ watch' = watch /\ fs' = fs /\ net' = net
        /\ spoilt' = spoilt
    BY <1>3 DEF httpVars
  <2>2. Records' = Records
    BY <2>1, RecordsStay
  <2> QED
    BY <2>1, <2>2 DEF HTTPInv, Control, Memory, Sockets, Unread, Fresh
<1> QED
  BY <1>1, <1>2, <1>3 DEF HTTPNext

\* What the clients do moves nothing of the server.
LEMMA ClientsAlone ==
  ASSUME NEW c \in Conns, Clients(c)
  PROVE  UNCHANGED ServerSide
<1> QED
  BY Zenon DEF Clients, Connect, Send, SendMore, Drain, HalfClose, Gone

\* The invariant holds, however the connections take turns.
THEOREM HTTPInvariant ==
  HTTPSpec => []HTTPInv
<1> QED
  BY HTTPInitKeeps, HTTPNextKeeps, PTL DEF HTTPSpec

\* The history of the writers.
MixedOK == mixed \in BOOLEAN

LEMMA MixedKeeps ==
  /\ HTTPInit => MixedOK
  /\ MixedOK /\ [HTTPNext]_httpVars => MixedOK'
<1>1. HTTPInit => MixedOK
  BY DEF HTTPInit, MixedOK
<1>2. ASSUME mixed \in BOOLEAN, [HTTPNext]_httpVars PROVE mixed' \in BOOLEAN
  <2>1. CASE HTTPServer
    BY <2>1, Zenon DEF HTTPServer
  <2>2. CASE UNCHANGED ServerSide
    BY <1>2, <2>2, Zenon DEF ServerSide
  <2>3. CASE UNCHANGED httpVars
    BY <1>2, <2>3, Zenon DEF httpVars
  <2> QED
    BY <1>2, <2>1, <2>2, <2>3, ClientsAlone DEF HTTPNext
<1> QED
  BY <1>1, <1>2 DEF MixedOK

\* The variables keep their types, the record of every connection included:
\* that of the connection at work is in curHTTP and the others' are in
\* http_memory (HTTPLoadConn()).
THEOREM HTTPTypes ==
  HTTPSpec => []HTTPTypeOK
<1>1. HTTPInv /\ MixedOK => HTTPTypeOK
  <2> SUFFICES ASSUME HTTPInv, mixed \in BOOLEAN PROVE HTTPTypeOK
    BY DEF MixedOK
  <2>1. \A c \in Conns : /\ Conn(c).file \in FileHandle /\ Conn(c).offsets \in FileHandle
                         /\ Conn(c).byteCount \in Nat /\ Conn(c).hasArgs \in BOOLEAN
    <3> TAKE c \in Conns
    <3>1. Records[c] = Conn(c) /\ Records[c] \in Record
      BY DEF Records, HTTPInv, Memory, RecordOK
    <3> QED
      BY <3>1, Zenon DEF Record
  <2>2. \A c \in Conns : (http_memory[c] = Elsewhere) = (c = curHTTPID)
    <3> TAKE c \in Conns
    <3>1. c = curHTTPID => http_memory[c] = Elsewhere
      BY DEF HTTPInv, Memory
    <3>2. c # curHTTPID => http_memory[c] # Elsewhere
      <4>1. c # curHTTPID => http_memory[c] \in Record
        BY DEF HTTPInv, Memory, Records, Conn, RecordOK
      <4>2. Elsewhere.httpStatus = "loaded"
        BY DEF Elsewhere, NewConn
      <4> QED
        BY <4>1, <4>2 DEF Record, Status
    <3> QED
      BY <3>1, <3>2
  <2>3. \A c \in Conns : /\ watch[c] \in 0 .. Timeout
                         /\ Ready(c) \in 0 .. RxSize /\ net[c].room \in 0 .. TxSize
    BY LenProperties, HTTPAssumption
    DEF HTTPInv, Control, Sockets, SocketOK, Socket, Ready, Stream
  <2>4. \A h \in Handles : fs.stubs[h].id \in {0} \cup Ids
    BY DEF HTTPInv, FilesOK, FileSystem, File
  <2> QED
    BY <2>1, <2>2, <2>3, <2>4 DEF HTTPTypeOK, HTTPInv, Control, Memory
<1>2. HTTPSpec => []MixedOK
  BY MixedKeeps, PTL DEF HTTPSpec
<1> QED
  BY <1>1, <1>2, HTTPInvariant, PTL

\* Every open file handle belongs to one connection, and a connection holds no
\* handle that is not open: none leaks, none is shared and none is used after
\* it was closed, until a new image is written over the pages that are being
\* read (MPFSOpen(), MPFSClose(), HTTPServer()).
THEOREM OpenHandlesAreHeld ==
  HTTPSpec => []HandlesAreHeld
<1>1. HTTPInv => HandlesAreHeld
  <2> DEFINE held == [c \in Conns |-> {Conn(c).file, Conn(c).offsets} \cap Handles]
  <2> SUFFICES ASSUME HTTPInv, ~ spoilt
               PROVE  /\ OpenIn(fs) = UNION {held[c] : c \in Conns}
                      /\ \A c, d \in Conns : c # d => held[c] \cap held[d] = {}
                      /\ \A c \in Conns : Conn(c).file = Conn(c).offsets => held[c] = {}
    BY Zenon DEF HandlesAreHeld, OpenIn
  <2>1. Shared(OpenIn(fs), Records)
    BY DEF HTTPInv
  <2>2. \A c \in Conns : Records[c] = Conn(c) /\ held[c] = HandlesOf(Records[c])
    BY DEF Records, HandlesOf
  <2> HIDE DEF held
  <2>3. {held[c] : c \in Conns} = {HandlesOf(Records[c]) : c \in Conns}
    BY <2>2
  <2> QED
    BY <2>1, <2>2, <2>3, Zenon DEF Shared
<1> QED
  BY <1>1, HTTPInvariant, PTL

\* Nothing is open while a new image is written, and nothing is read from
\* behind the end of a file (MPFSFormat(), MPFSGetArray()).
THEOREM NothingIsReadWhileLocked ==
  HTTPSpec => [](/\ fs.locked => ~ \E h \in Handles : IsOpen(fs, h)
                 /\ \A h \in Handles : fs.stubs[h].pos <= Size(fs.stubs[h].id))
<1>1. HTTPInv => /\ fs.locked => ~ \E h \in Handles : IsOpen(fs, h)
                 /\ \A h \in Handles : fs.stubs[h].pos <= Size(fs.stubs[h].id)
  BY DEF HTTPInv, FilesOK, OpenIn
<1> QED
  BY <1>1, HTTPInvariant, PTL
-----------------------------------------------------------------------------
(* What is heard of a request.                                              *)

Words == Status \cup Chunks \cup {"cookie", "!DEF"}
Client == [asked : DOMAIN Answers, answer : Seq(Words), over : BOOLEAN]

\* What a server has yet to read, and what is left of a request after p tokens.
Ahead(k) == k.rx \o k.ask
Rest(kind, p) == SubSeq(Request[kind], p + 1, Len(Request[kind]))

\* How the first line of a kind is understood, where that line and where the
\* headers end, and what the count of its data is after p tokens.
Method == [page |-> "GET", nothing |-> "GET", form |-> "MPFS_FORM", image |-> "MPFS_UP",
           badimage |-> "MPFS_UP", nolength |-> "MPFS_UP", config |-> "POST", lost |-> "POST"]
Measured == {"image", "badimage", "config", "lost"}
LineAt(kind) == IF kind = "nothing" THEN 2 ELSE 1
BodyAt(kind) == LineAt(kind) + (IF kind \in Measured THEN 2 ELSE 1)
CountAt(kind, p) == IF kind \in Measured /\ p > 1 THEN ContentLength ELSE 0

Heard(k, kind, p) == p \in 0 .. Len(Request[kind]) /\ Ahead(k) = Rest(kind, p)
Counted(k, r, kind, p) == Heard(k, kind, p) /\ r.byteCount = CountAt(kind, p)
Understood(r, kind) == kind \in DOMAIN Method /\ r.httpStatus = Method[kind]

\* Where a connection is that reads its headers, that has read them, that works
\* on the data of a POST, and that has all it needs.
AtHeaders(k, r, kind) ==
  Understood(r, kind) /\ \E p \in {LineAt(kind), BodyAt(kind) - 1} : Counted(k, r, kind, p)
AtBody(k, r, kind) == Understood(r, kind) /\ Counted(k, r, kind, BodyAt(kind))
AtPost(k, r, kind) ==
  \/ Understood(r, kind) /\ kind \in {"page", "nothing", "config", "lost"}
  \/ AtBody(k, r, kind) /\ kind \in {"image", "badimage"}
  \/ Understood(r, kind) /\ kind = "nolength" /\ \E p \in 2 .. 3 : Heard(k, kind, p)
  \/ /\ kind = "image" /\ r.httpStatus = "MPFS_OK" /\ r.byteCount < ImageLen
     /\ Heard(k, kind, Len(Request.image) - r.byteCount)
  \/ kind = "badimage" /\ r.httpStatus = "MPFS_ERROR"
AtRequest(r, kind) ==
  \/ kind \in {"page", "nothing"} /\ r.httpStatus = "GET"
  \/ kind \in {"config", "lost"} /\ r.httpStatus \in {"POST", "REDIRECT"}

\* The request of a client that is there is followed from line to line.
Followed(s, k, r, kind) ==
  /\ s \in Young => Ahead(k) = Request[kind]
  /\ s = "PARSE_REQUEST" => r.byteCount = 0
  /\ s = "PARSE_HEADERS" => AtHeaders(k, r, kind)
  /\ s = "AUTHENTICATE" => AtBody(k, r, kind)
  /\ s = "PROCESS_GET" => AtBody(k, r, kind) /\ kind # "form"
  /\ s = "PROCESS_POST" => AtPost(k, r, kind)
  /\ s = "PROCESS_REQUEST" => AtRequest(r, kind)

\* Nothing more is heard of one that has gone.
Headers == {"PARSE_HEADERS", "AUTHENTICATE", "PROCESS_GET", "PROCESS_POST"}
Deaf(s, k) ==
  /\ \A i \in 1 .. Len(k.rx) : k.rx[i] = "half"
  /\ s \in Headers => k.rx = <<>>
  /\ k.st = "closed" => k.wasReset \/ s = "IDLE"

Hears(c, s, k, r, a) ==
  IF k.st = "open"
  THEN /\ a.asked \in Kinds[c] /\ ~ a.over
       /\ IF k.wasReset THEN Ahead(k) = Request[a.asked] ELSE Followed(s, k, r, a.asked)
  ELSE Deaf(s, k)

RequestInv ==
  /\ client \in [Conns -> Client]
  /\ \A c \in Conns : Hears(c, sm[c], net[c], Records[c], client[c])
  /\ \A c \in Conns : turn = <<c, "process">> /\ net[c].st = "open" => ~ net[c].wasReset

-----------------------------------------------------------------------------
(* The image.                                                               *)

\* Where the image is written, as much of it is there as was counted.
Uploaded(n) == SubSeq(WholeImage, 1, ImageLen - n)
Writes(f, c, s, r) ==
  /\ s = "PROCESS_POST" /\ r.httpStatus = "MPFS_OK" =>
       /\ "image" \in Kinds[c] /\ f.locked
       /\ r.byteCount < ImageLen /\ f.image = Uploaded(r.byteCount)
  /\ s \in {"PARSE_HEADERS", "AUTHENTICATE", "PROCESS_GET"} => r.httpStatus # "MPFS_OK"

WritingInv ==
  /\ \A c \in Conns : Writes(fs, c, sm[c], Records[c])
  /\ ~ fs.locked => fs.image = WholeImage

TagInv == /\ fs.numFiles = Len(Fat) /\ fs.image # <<>> /\ Head(fs.image) = "tag"

\* Taking n tokens moves n tokens on in the request.
TakesFrom(k, n, k2) ==
  n \in 0 .. Len(k.rx) /\ k2.rx = SubSeq(k.rx, n + 1, Len(k.rx)) /\ k2.ask = k.ask

LEMMA HeardMoves ==
  ASSUME NEW kind \in DOMAIN Request, NEW k, k.rx \in Stream, k.ask \in Stream,
         NEW p, Heard(k, kind, p), NEW n, NEW k2, TakesFrom(k, n, k2)
  PROVE  /\ Heard(k2, kind, p + n)
         /\ p \in Nat /\ p + Len(k.rx) + Len(k.ask) = Len(Request[kind])
         /\ \A i \in 1 .. Len(k.rx) : k.rx[i] = Request[kind][p + i]
<1> DEFINE rx == k.rx
           ask == k.ask
           S == Request[kind]
<1>15. /\ rx \in Stream /\ ask \in Stream /\ S \in Stream /\ p \in 0 .. Len(S)
       /\ rx \o ask = SubSeq(S, p + 1, Len(S)) /\ n \in 0 .. Len(rx)
       /\ k2.rx = SubSeq(rx, n + 1, Len(rx)) /\ k2.ask = ask
  BY RequestsAsk DEF Heard, Ahead, Rest, TakesFrom
<1>16. Heard(k2, kind, p + n) <=>
         p + n \in 0 .. Len(S) /\ k2.rx \o k2.ask = SubSeq(S, p + n + 1, Len(S))
  BY DEF Heard, Ahead, Rest
<1>18. p \in Nat /\ n \in Nat
  BY <1>15, LenProperties DEF Stream
<1>19. n <= Len(rx) /\ p <= Len(S)
  BY <1>15, LenProperties DEF Stream
<1> HIDE DEF S, rx, ask
<1> DEFINE rest == SubSeq(rx, n + 1, Len(rx))
           all == rx \o ask
           now == rest \o ask
           then == SubSeq(S, p + n + 1, Len(S))
           whole == SubSeq(S, p + 1, Len(S))
<1>1. Len(rx) \in Nat /\ Len(ask) \in Nat /\ Len(S) \in Nat
  BY <1>15, LenProperties DEF Stream
<1>2. \A i \in 1 .. Len(S) : S[i] \in Tokens
  BY <1>15, ElementOfSeq DEF Stream
<1>3. /\ whole \in Stream /\ Len(whole) = Len(S) - p
      /\ \A i \in 1 .. Len(S) - p : whole[i] = S[p + i]
  <2>1. \A i \in p + 1 .. Len(S) : S[i] \in Tokens
    BY <1>1, <1>15, <1>2
  <2>2. /\ whole \in Stream /\ Len(whole) = IF p + 1 <= Len(S) THEN Len(S) - (p + 1) + 1 ELSE 0
        /\ \A i \in 1 .. Len(S) - (p + 1) + 1 : whole[i] = S[p + 1 + i - 1]
    BY <1>1, <1>15, <2>1, SubSeqProperties DEF Stream
  <2> HIDE DEF whole
  <2> QED
    BY <1>1, <1>15, <2>2
<1>4. /\ all \in Stream /\ Len(all) = Len(rx) + Len(ask)
      /\ \A i \in 1 .. Len(rx) + Len(ask) :
            all[i] = IF i <= Len(rx) THEN rx[i] ELSE ask[i - Len(rx)]
  BY <1>15, ConcatProperties, Zenon DEF Stream
<1>5. all = whole
  BY <1>15, Zenon
<1> HIDE DEF all, whole
<1>6. p + Len(rx) + Len(ask) = Len(S) /\ p + n \in 0 .. Len(S)
  <2>1. Len(S) - p = Len(rx) + Len(ask)
    BY <1>3, <1>4, <1>5, Zenon
  <2> QED
    BY <1>1, <1>18, <1>19, <2>1
<1>7. \A i \in 1 .. Len(rx) : rx[i] = S[p + i]
  <2> TAKE i \in 1 .. Len(rx)
  <2>1. i \in 1 .. Len(rx) + Len(ask) /\ i \in 1 .. Len(S) - p /\ i <= Len(rx)
    BY <1>1, <1>6, <1>18
  <2>2. all[i] = rx[i]
    BY <1>4, <2>1, Zenon
  <2>3. whole[i] = S[p + i]
    BY <1>3, <2>1, Zenon
  <2> QED
    BY <1>5, <2>2, <2>3, Zenon
<1>8. \A i \in 1 .. Len(ask) : ask[i] = S[p + Len(rx) + i]
  <2> TAKE i \in 1 .. Len(ask)
  <2>1. Len(rx) + i \in 1 .. Len(rx) + Len(ask) /\ ~ (Len(rx) + i <= Len(rx))
        /\ Len(rx) + i - Len(rx) = i /\ Len(rx) + i \in 1 .. Len(S) - p
        /\ p + (Len(rx) + i) = p + Len(rx) + i
    BY <1>1, <1>18, <1>19, <1>6
  <2>2. all[Len(rx) + i] = ask[i]
    BY <1>4, <2>1
  <2>3. whole[Len(rx) + i] = S[p + Len(rx) + i]
    BY <1>3, <2>1
  <2> QED
    BY <1>5, <2>2, <2>3, Zenon
<1>9. /\ rest \in Stream /\ Len(rest) = Len(rx) - n
      /\ \A i \in 1 .. Len(rx) - n : rest[i] = rx[n + i]
  <2>1. \A i \in n + 1 .. Len(rx) : rx[i] \in Tokens
    BY <1>15, ElementOfSeq DEF Stream
  <2>2. /\ rest \in Stream /\ Len(rest) = IF n + 1 <= Len(rx) THEN Len(rx) - (n + 1) + 1 ELSE 0
        /\ \A i \in 1 .. Len(rx) - (n + 1) + 1 : rest[i] = rx[n + 1 + i - 1]
    BY <1>1, <1>18, <1>19, <2>1, SubSeqProperties DEF Stream
  <2> HIDE DEF rest
  <2> QED
    BY <1>1, <1>18, <1>19, <2>2
<1>10. /\ then \in Stream /\ Len(then) = Len(S) - (p + n)
       /\ \A i \in 1 .. Len(S) - (p + n) : then[i] = S[p + n + i]
  <2>1. \A i \in p + n + 1 .. Len(S) : S[i] \in Tokens
    BY <1>1, <1>18, <1>19, <1>2
  <2>2. /\ then \in Stream
        /\ Len(then) = IF p + n + 1 <= Len(S) THEN Len(S) - (p + n + 1) + 1 ELSE 0
        /\ \A i \in 1 .. Len(S) - (p + n + 1) + 1 : then[i] = S[p + n + 1 + i - 1]
    BY <1>1, <1>18, <1>19, <2>1, SubSeqProperties DEF Stream
  <2> DEFINE q == p + n
  <2>3. q \in Nat /\ q <= Len(S)
    BY <1>6
  <2> HIDE DEF then
  <2>4. /\ then \in Stream /\ Len(then) = IF q + 1 <= Len(S) THEN Len(S) - (q + 1) + 1 ELSE 0
        /\ \A i \in 1 .. Len(S) - (q + 1) + 1 : then[i] = S[q + 1 + i - 1]
    BY <2>2
  <2> HIDE DEF q
  <2>5. Len(then) = Len(S) - q /\ \A i \in 1 .. Len(S) - q : then[i] = S[q + i]
    BY <1>1, <1>18, <1>19, <2>3, <2>4
  <2> QED
    BY <2>4, <2>5 DEF q
<1> HIDE DEF rest, then
<1>11. /\ now \in Stream /\ Len(now) = Len(rest) + Len(ask)
       /\ \A i \in 1 .. Len(rest) + Len(ask) :
             now[i] = IF i <= Len(rest) THEN rest[i] ELSE ask[i - Len(rest)]
  BY <1>9, <1>15, ConcatProperties, Zenon DEF Stream
<1> HIDE DEF now
<1>12. Len(now) = Len(then)
  BY <1>1, <1>18, <1>19, <1>6, <1>9, <1>10, <1>11
<1>13. \A i \in 1 .. Len(now) : now[i] = then[i]
  <2> TAKE i \in 1 .. Len(now)
  <2>1. i \in 1 .. Len(S) - (p + n) /\ i \in 1 .. Len(rest) + Len(ask) /\ then[i] = S[p + n + i]
    BY <1>1, <1>18, <1>19, <1>6, <1>9, <1>10, <1>11
  <2>2. CASE i <= Len(rest)
    <3>1. now[i] = rest[i] /\ rest[i] = rx[n + i] /\ n + i \in 1 .. Len(rx)
      BY <1>1, <1>18, <1>19, <1>9, <1>11, <2>1, <2>2
    <3>2. rx[n + i] = S[p + (n + i)] /\ p + (n + i) = p + n + i
      BY <1>1, <1>18, <1>19, <1>7, <2>1, <3>1
    <3> QED
      BY <2>1, <3>1, <3>2
  <2>3. CASE ~ (i <= Len(rest))
    <3>1. now[i] = ask[i - Len(rest)] /\ i - Len(rest) \in 1 .. Len(ask)
      BY <1>1, <1>18, <1>19, <1>9, <1>11, <2>1, <2>3
    <3>2. ask[i - Len(rest)] = S[p + Len(rx) + (i - Len(rest))]
          /\ p + Len(rx) + (i - Len(rest)) = p + n + i
      BY <1>1, <1>18, <1>19, <1>8, <1>9, <2>1, <3>1
    <3> QED
      BY <2>1, <3>1, <3>2
  <2> QED
    BY <2>2, <2>3
<1>14. now = then
  BY <1>10, <1>11, <1>12, <1>13, SeqEqual, Zenon DEF Stream
<1>17. Heard(k2, kind, p + n)
  BY <1>6, <1>14, <1>15, <1>16, Zenon DEF now, then, rest
<1> QED
  BY <1>6, <1>7, <1>17, <1>18, Zenon DEF rx, ask, S

LEMMA RestOfAll ==
  ASSUME NEW kind \in DOMAIN Request
  PROVE  Rest(kind, 0) = Request[kind] /\ Len(Request[kind]) \in Nat
<1>1. Request[kind] \in Stream
  BY RequestsAsk
<1> QED
  BY <1>1, SubSeqFull, LenProperties DEF Rest, Stream

\* What a request says, line by line.
LEMMA RequestIs ==
  ASSUME NEW kind \in DOMAIN Method, NEW S, S = Request[kind]
  PROVE  /\ kind \in DOMAIN Request /\ S \in Stream
         /\ LineAt(kind) \in 1 .. 2 /\ BodyAt(kind) \in LineAt(kind) + 1 .. Len(S)
         /\ \A i \in 1 .. LineAt(kind) - 1 : S[i] = "half"
         /\ \A i \in LineAt(kind) + 1 .. BodyAt(kind) - 1 : S[i] = "length"
         /\ S[BodyAt(kind)] = "blank"
<1>1. kind \in DOMAIN Request
  BY DEF Method, Request
<1>2. S \in Stream
  BY <1>1, RequestsAsk
<1>3. CASE kind \in {"image", "badimage"}
  <2>1. Len(S) = ImageLen + 4 /\ S[2] = "length" /\ S[3] = "blank"
    BY <1>3, ImageIs
  <2>2. LineAt(kind) = 1 /\ BodyAt(kind) = 3
    BY <1>3 DEF LineAt, BodyAt, Measured
  <2> QED
    BY <1>1, <1>2, <2>1, <2>2, MPFSAssumption
<1>4. CASE kind \in {"config", "lost"}
  <2>1. S = <<"config", "length", "blank", "pair", "pair", "pair">>
        \/ S = <<"lost", "length", "blank", "pair">>
    <3>1. /\ Request.config = <<"config", "length", "blank", "pair", "pair", "pair">>
          /\ Request.lost = <<"lost", "length", "blank", "pair">>
      BY Zenon DEF Request
    <3> QED
      BY <1>4, <3>1
  <2>2. Len(S) \in 4 .. 6 /\ S[2] = "length" /\ S[3] = "blank"
    BY <2>1
  <2>3. LineAt(kind) = 1 /\ BodyAt(kind) = 3
    BY <1>4 DEF LineAt, BodyAt, Measured
  <2> QED
    BY <1>1, <1>2, <2>2, <2>3
<1>5. CASE kind \in {"page", "form", "nolength"}
  <2>1. \/ S = <<"page", "blank">> \/ S = <<"form", "blank">>
        \/ S = <<"image", "blank", "data">>
    <3>1. /\ Request.page = <<"page", "blank">> /\ Request.form = <<"form", "blank">>
          /\ Request.nolength = <<"image", "blank", "data">>
      BY Zenon DEF Request
    <3> QED
      BY <1>5, <3>1
  <2>2. Len(S) \in 2 .. 3 /\ S[2] = "blank"
    BY <2>1
  <2>3. LineAt(kind) = 1 /\ BodyAt(kind) = 2
    BY <1>5 DEF LineAt, BodyAt, Measured
  <2> QED
    BY <1>1, <1>2, <2>2, <2>3
<1>6. CASE kind = "nothing"
  <2>1. Request.nothing = <<"half", "nothing", "blank">>
    BY Zenon DEF Request
  <2>2. Len(S) = 3 /\ S[1] = "half" /\ S[3] = "blank"
    BY <1>6, <2>1
  <2>3. LineAt(kind) = 2 /\ BodyAt(kind) = 3
    BY <1>6 DEF LineAt, BodyAt, Measured
  <2> QED
    BY <1>1, <1>2, <2>2, <2>3
<1> QED
  BY <1>3, <1>4, <1>5, <1>6 DEF Method

\* The line that ends first, of a request that was heard up to p.
LEMMA LineHeard ==
  ASSUME HTTPInv, NEW c \in Conns, NEW kind \in DOMAIN Request, NEW p, NEW q,
         Heard(net[c], kind, p), p < q, q \in 1 .. Len(Request[kind]),
         \A i \in p + 1 .. q - 1 : Request[kind][i] = "half",
         Request[kind][q] # "half", LineEnds(c) # {},
         NEW k, k.rx = SubSeq(net[c].rx, Min(LineEnds(c)) + 1, Len(net[c].rx)), k.ask = net[c].ask
  PROVE  FirstLine(c) = Request[kind][q] /\ Heard(k, kind, q)
<1> DEFINE S == Request[kind]
           rx == net[c].rx
           ask == net[c].ask
           m == Min(LineEnds(c))
<1>1. /\ rx \in Stream /\ ask \in Stream /\ S \in Stream /\ p \in 0 .. Len(S)
      /\ rx \o ask = SubSeq(S, p + 1, Len(S)) /\ Len(rx) \in Nat /\ Len(S) \in Nat
  BY RequestsAsk, LenProperties DEF HTTPInv, Sockets, Socket, Heard, Ahead, Rest, Stream
<1>2. m \in 1 .. Len(rx) /\ rx[m] # "half" /\ \A j \in 1 .. m - 1 : rx[j] = "half"
  BY LineIs DEF Ready
<1>3. FirstLine(c) = rx[m] /\ k.rx = SubSeq(rx, m + 1, Len(rx)) /\ k.ask = ask
  BY DEF FirstLine
<1> HIDE DEF S, rx, ask, m
<1>4. m \in 0 .. Len(rx)
  BY <1>1, <1>2
<1>5. Heard(k, kind, p + m) /\ p \in Nat /\ \A i \in 1 .. Len(rx) : rx[i] = S[p + i]
  <2>1. TakesFrom(net[c], m, k) /\ net[c].rx \in Stream /\ net[c].ask \in Stream
    BY <1>1, <1>3, <1>4 DEF rx, ask, TakesFrom
  <2> QED
    BY <2>1, HeardMoves DEF S, rx
<1>6. p + m = q
  <2>1. S[p + m] # "half"
    BY <1>2, <1>5
  <2>2. /\ q \in 1 .. Len(S) /\ p < q /\ S[q] # "half"
        /\ \A i \in p + 1 .. q - 1 : S[i] = "half"
    BY DEF S
  <2>3. p + m >= q
    BY <1>1, <1>2, <2>1, <2>2
  <2>4. ~ (p + m > q)
    <3> SUFFICES ASSUME p + m > q PROVE FALSE
      OBVIOUS
    <3>1. q - p \in 1 .. m - 1 /\ q - p \in 1 .. Len(rx) /\ p + (q - p) = q
      BY <1>1, <1>2, <2>2
    <3> QED
      BY <1>2, <1>5, <2>2, <3>1
  <2> QED
    BY <1>1, <1>2, <2>2, <2>3, <2>4
<1>7. FirstLine(c) = S[q]
  BY <1>2, <1>3, <1>5, <1>6
<1>8. Heard(k, kind, q)
  BY <1>5, <1>6, Zenon
<1> QED
  BY <1>7, <1>8 DEF S

-----------------------------------------------------------------------------
(* What a step must respect to keep what is heard.                          *)

LEMMA HearsAtWork ==
  ASSUME HTTPInv, RequestInv, NEW c \in Conns, turn = <<c, "process">>
  PROVE  /\ Hears(c, sm[c], net[c], curHTTP, client[c]) /\ client[c] \in Client
         /\ net[c].st = "open" => /\ client[c].asked \in Kinds[c] /\ ~ client[c].over
                                  /\ client[c].asked \in DOMAIN Request
                                  /\ Followed(sm[c], net[c], curHTTP, client[c].asked)
         /\ net[c].st # "open" => Deaf(sm[c], net[c])
<1>1. curHTTP = Records[c]
  BY AtWork
<1>2. Hears(c, sm[c], net[c], curHTTP, client[c]) /\ client[c] \in Client
  BY <1>1 DEF RequestInv
<1>3. net[c].st = "open" => ~ net[c].wasReset
  BY DEF RequestInv
<1> QED
  BY <1>2, <1>3, KindsAssumption, Zenon DEF Hears

Steps(c, s, k, r) ==
  /\ turn = <<c, "process">> /\ turn' \in {turn, After(c)}
  /\ sm' = [sm EXCEPT ![c] = s] /\ net' = [net EXCEPT ![c] = k] /\ curHTTP' = r
  /\ UNCHANGED <<curHTTPID, http_memory>>

\* What a step leaves of the connection that takes it, and of the others.
LEMMA StepsWhere ==
  ASSUME HTTPInv, NEW c \in Conns, NEW s, NEW k, NEW r, Steps(c, s, k, r)
  PROVE  /\ sm'[c] = s /\ net'[c] = k /\ Records'[c] = r
         /\ \A d \in Conns : d # c => /\ sm'[d] = sm[d] /\ net'[d] = net[d]
                                      /\ Records'[d] = Records[d] /\ turn' # <<d, "process">>
<1>1. /\ curHTTPID = c /\ curHTTPID' = c /\ http_memory' = http_memory /\ curHTTP' = r
  BY AtWork DEF Steps
<1>2. /\ sm'[c] = s /\ net'[c] = k
      /\ \A d \in Conns : d # c => sm'[d] = sm[d] /\ net'[d] = net[d]
  BY DEF Steps, HTTPInv, Control, Sockets
<1>3. Records'[c] = r /\ \A d \in Conns : d # c => Records'[d] = Records[d]
  BY <1>1 DEF Records, Conn
<1>4. \A d \in Conns : d # c => turn' # <<d, "process">>
  BY WhoMoves DEF Steps
<1> QED
  BY <1>2, <1>3, <1>4, Zenon

LEMMA HearsStep ==
  ASSUME HTTPInv, RequestInv, NEW c \in Conns, NEW s, NEW k, NEW r, Steps(c, s, k, r),
         NEW a \in Client, client' = [client EXCEPT ![c] = a],
         k.st = "open" => ~ k.wasReset, Hears(c, s, k, r, a)
  PROVE  RequestInv'
<1>1. /\ sm'[c] = s /\ net'[c] = k /\ Records'[c] = r
      /\ \A d \in Conns : d # c => /\ sm'[d] = sm[d] /\ net'[d] = net[d]
                                   /\ Records'[d] = Records[d] /\ turn' # <<d, "process">>
  BY StepsWhere
<1>2. /\ client' \in [Conns -> Client] /\ client'[c] = a
      /\ \A d \in Conns : d # c => client'[d] = client[d]
  BY DEF RequestInv
<1>3. \A d \in Conns : Hears(d, sm'[d], net'[d], Records'[d], client'[d])
  BY <1>1, <1>2, Zenon DEF RequestInv
<1>4. \A d \in Conns : turn' = <<d, "process">> /\ net'[d].st = "open" => ~ net'[d].wasReset
  BY <1>1, Zenon
<1> QED
  BY <1>2, <1>3, <1>4, Zenon DEF RequestInv

\* The answer grows, and who asked for what stays.
LEMMA AnswerIs ==
  ASSUME RequestInv, NEW c \in Conns, NEW chunks \in Seq(Words), Answer(c, chunks)
  PROVE  \E a \in Client : /\ client' = [client EXCEPT ![c] = a]
                           /\ a.asked = client[c].asked /\ a.over = client[c].over
                           /\ a.answer = IF net[c].st = "open" /\ ~ spoilt
                                         THEN client[c].answer \o chunks ELSE client[c].answer
<1> DEFINE answer == IF net[c].st = "open" /\ ~ spoilt
                     THEN client[c].answer \o chunks ELSE client[c].answer
           a == [client[c] EXCEPT !.answer = answer]
<1>1. client[c] \in Client /\ client[c].answer \in Seq(Words)
  BY DEF RequestInv, Client
<1>2. answer \in Seq(Words)
  BY <1>1, ConcatProperties
<1>3. client' = [client EXCEPT ![c] = a]
  BY DEF Answer
<1> HIDE DEF answer
<1>4. a \in Client /\ a.asked = client[c].asked /\ a.over = client[c].over /\ a.answer = answer
  BY <1>1, <1>2, Zenon DEF Client
<1> QED
  BY <1>3, <1>4, Zenon DEF answer

\* A step to where nothing is read, or one that closes the socket.
Quiet == States \ (Headers \cup {"PARSE_REQUEST", "PROCESS_REQUEST"})

LEMMA QuietStep ==
  ASSUME HTTPInv, RequestInv, NEW c \in Conns, NEW s \in Quiet, NEW k, NEW r, Steps(c, s, k, r),
         sm[c] # "IDLE",
         NEW a \in Client, client' = [client EXCEPT ![c] = a],
         \/ k = TCPDisconnect(net[c])
         \/ /\ s # "IDLE" /\ k.st = net[c].st /\ k.wasReset = net[c].wasReset
            /\ k.rx \in {net[c].rx, <<>>} \/ net[c].st = "open"
            /\ a.asked = client[c].asked /\ a.over = client[c].over
  PROVE  RequestInv'
<1>1. turn = <<c, "process">>
  BY DEF Steps
<1>2. CASE k = TCPDisconnect(net[c])
  <2>1. k.rx = <<>> /\ k.st # "open" /\ (k.st = "closed" => k.wasReset)
    BY <1>2 DEF TCPDisconnect, Reset, ClosedSocket
  <2>2. Deaf(s, k)
    BY <2>1 DEF Deaf
  <2> QED
    BY <2>1, <2>2, HearsStep DEF Hears
<1>3. CASE /\ s # "IDLE" /\ k.st = net[c].st /\ k.wasReset = net[c].wasReset
           /\ k.rx \in {net[c].rx, <<>>} \/ net[c].st = "open"
           /\ a.asked = client[c].asked /\ a.over = client[c].over
  <2>1. s \notin Young /\ s \notin Headers /\ s # "PROCESS_REQUEST"
    BY <1>3 DEF Quiet, Young
  <2>2. CASE net[c].st = "open"
    <3>1. client[c].asked \in Kinds[c] /\ ~ client[c].over /\ ~ net[c].wasReset
      BY <1>1, <2>2, HearsAtWork DEF RequestInv
    <3>2. Followed(s, k, r, a.asked)
      <4>1. s \notin {"PARSE_REQUEST", "PARSE_HEADERS", "AUTHENTICATE", "PROCESS_GET",
                      "PROCESS_POST", "PROCESS_REQUEST"}
        BY <2>1 DEF Young, Headers
      <4> QED
        BY <2>1, <4>1, Zenon DEF Followed
    <3> QED
      BY <1>3, <2>2, <3>1, <3>2, HearsStep DEF Hears
  <2>3. CASE net[c].st # "open"
    <3>1. Deaf(sm[c], net[c])
      BY <1>1, <2>3, HearsAtWork
    <3>2. \A i \in 1 .. Len(k.rx) : k.rx[i] = "half"
      <4>1. CASE k.rx = net[c].rx
        BY <3>1, <4>1 DEF Deaf
      <4>2. CASE k.rx = <<>>
        BY <4>2
      <4> QED
        BY <1>3, <2>3, <4>1, <4>2
    <3>3. Deaf(s, k)
      BY <1>3, <2>1, <3>1, <3>2 DEF Deaf
    <3> QED
      BY <1>3, <2>3, <3>3, HearsStep DEF Hears
  <2> QED
    BY <2>2, <2>3
<1> QED
  BY <1>2, <1>3

\* A part that a step leaves alone.
LEMMA StaysWhere ==
  ASSUME HTTPInv, NEW c \in Conns
  PROVE  /\ sm = [sm EXCEPT ![c] = sm[c]] /\ net = [net EXCEPT ![c] = net[c]]
         /\ RequestInv => client = [client EXCEPT ![c] = client[c]] /\ client[c] \in Client
BY DEF HTTPInv, Control, Sockets, RequestInv

LEMMA SocketReads ==
  ASSUME HTTPInv, NEW c \in Conns, NEW rx \in Stream, NEW k, k = [net[c] EXCEPT !.rx = rx]
  PROVE  /\ k.st = net[c].st /\ k.wasReset = net[c].wasReset /\ k.rx = rx
         /\ k.ask = net[c].ask /\ k.room = net[c].room
<1>1. net[c] \in Socket
  BY DEF HTTPInv, Sockets
<1> QED
  BY <1>1, Zenon DEF Socket

LEMMA IdleHears ==
  ASSUME HTTPInv, RequestInv, NEW c \in Conns, Idle(c)
  PROVE  RequestInv'
<1> DEFINE r == [curHTTP EXCEPT !.hasArgs = FALSE, !.lastReady = Never, !.byteCount = 0,
                                !.smPost = "read", !.callbackID = "none"]
<1>1. turn = <<c, "process">> /\ sm[c] = "IDLE" /\ Ready(c) > 0 /\ client' = client
  BY DEF Idle, At
<1>2. Steps(c, "PARSE_REQUEST", net[c], r)
  BY StaysWhere, Zenon DEF Idle, At, Goto, Again, Loaded, Steps
<1>3. r.byteCount = 0
  <2>1. curHTTP \in Record
    BY <1>1, AtWork DEF RecordOK
  <2> QED
    BY <2>1, Zenon DEF Record
<1> HIDE DEF r
<1>4. CASE net[c].st = "open"
  <2>1. Followed("PARSE_REQUEST", net[c], r, client[c].asked)
    BY <1>1, <1>3, <1>4, HearsAtWork DEF Followed, Young
  <2>2. client[c].asked \in Kinds[c] /\ ~ client[c].over /\ ~ net[c].wasReset
    BY <1>1, <1>4, HearsAtWork DEF RequestInv
  <2> QED
    BY <1>1, <1>2, <1>4, <2>1, <2>2, StaysWhere, HearsStep DEF Hears
<1>5. CASE net[c].st # "open"
  <2>1. net[c].st # "closed"
    BY <1>1 DEF HTTPInv, Sockets, SocketOK, Ready
  <2>2. Deaf("PARSE_REQUEST", net[c])
    BY <1>1, <1>5, <2>1, HearsAtWork DEF Deaf, Headers
  <2> QED
    BY <1>1, <1>2, <1>5, <2>2, StaysWhere, HearsStep DEF Hears
<1> QED
  BY <1>4, <1>5

LEMMA WaitForLineHears ==
  ASSUME HTTPInv, RequestInv, NEW c \in Conns, WaitForLine(c)
  PROVE  RequestInv'
<1>1. turn = <<c, "process">> /\ sm[c] \in {"PARSE_REQUEST", "PARSE_HEADERS"} /\ client' = client
      /\ UNCHANGED <<curHTTPID, http_memory>>
  BY Zenon DEF WaitForLine, At, Loaded
<1>2. client = [client EXCEPT ![c] = client[c]] /\ client[c] \in Client
  BY StaysWhere
<1>3. CASE Done(c) /\ UNCHANGED <<sm, curHTTP, net>>
  <2>1. Steps(c, sm[c], net[c], curHTTP)
    BY <1>1, <1>3, StaysWhere DEF Steps, Done
  <2>2. net[c].st = "open" => ~ net[c].wasReset
    BY <1>1 DEF RequestInv
  <2> QED
    BY <1>1, <1>2, <2>1, <2>2, HearsAtWork, HearsStep, Zenon
<1>4. CASE /\ curHTTP' = [curHTTP EXCEPT !.httpStatus = "OVERFLOW"]
           /\ Goto(c, "SERVE_HEADERS") /\ Again /\ UNCHANGED net
  <2>1. Steps(c, "SERVE_HEADERS", net[c], curHTTP')
    BY <1>1, <1>4, StaysWhere DEF Steps, Again, Goto
  <2>2. "SERVE_HEADERS" \in Quiet /\ sm[c] # "IDLE"
    BY <1>1, StatesAre DEF Quiet, Headers
  <2> QED
    BY <1>1, <1>2, <2>1, <2>2, QuietStep
<1>5. CASE /\ net' = [net EXCEPT ![c] = TCPDisconnect(@)]
           /\ Goto(c, "DISCONNECT") /\ Again /\ UNCHANGED curHTTP
  <2>1. Steps(c, "DISCONNECT", TCPDisconnect(net[c]), curHTTP)
    BY <1>1, <1>5 DEF Steps, Again, Goto
  <2>2. "DISCONNECT" \in Quiet /\ sm[c] # "IDLE"
    BY <1>1, StatesAre DEF Quiet, Headers
  <2> QED
    BY <1>1, <1>2, <2>1, <2>2, QuietStep
<1> QED
  BY <1>3, <1>4, <1>5, Zenon DEF WaitForLine

\* The first line is known, and says what the kind of the request is.
LEMMA LineSays ==
  ASSUME NEW kind \in DOMAIN Request, kind # "endless",
         NEW line, line = Line[Request[kind][LineAt(kind)]]
  PROVE  /\ LineAt(kind) \in 1 .. Len(Request[kind])
         /\ \A i \in 1 .. LineAt(kind) - 1 : Request[kind][i] = "half"
         /\ Request[kind][LineAt(kind)] # "half"
         /\ line.method = "PUT" <=> kind = "other"
         /\ line.method = "PUT" => line.name # "upload"
         /\ kind # "other" => /\ kind \in DOMAIN Method
                              /\ Method[kind] = IF line.name # "upload" THEN line.method
                                                ELSE IF line.method = "GET" THEN "MPFS_FORM"
                                                ELSE "MPFS_UP"
<1> DEFINE S == Request[kind]
           t == S[LineAt(kind)]
<1>1. kind # "other" => kind \in DOMAIN Method
  BY DEF Request, Method
<1>2. CASE kind \in {"image", "badimage", "nolength"}
  <2>1. t = "image" /\ LineAt(kind) = 1
    <3>1. LineAt(kind) = 1
      BY <1>2 DEF LineAt
    <3>2. Request.nolength = <<"image", "blank", "data">>
      BY Zenon DEF Request
    <3>3. S[1] = "image"
      <4>1. CASE kind = "nolength"
        BY <3>2, <4>1
      <4>2. CASE kind \in {"image", "badimage"}
        BY <4>2, ImageIs
      <4> QED
        BY <1>2, <4>1, <4>2
    <3> QED
      BY <3>1, <3>3
  <2>2. line.method = "POST" /\ line.name = "upload" /\ Method[kind] = "MPFS_UP"
    BY <1>2, <2>1 DEF Line, Method
  <2>3. LineAt(kind) \in 1 .. Len(S)
    BY <1>1, <1>2, RequestIs
  <2> QED
    BY <1>1, <1>2, <2>1, <2>2, <2>3
<1>3. CASE kind \in {"page", "form", "config", "lost", "other"}
  <2>1. t = kind /\ LineAt(kind) = 1 /\ 1 \in 1 .. Len(S)
    <3>1. LineAt(kind) = 1
      BY <1>3 DEF LineAt
    <3>2. /\ Request.page = <<"page", "blank">> /\ Request.form = <<"form", "blank">>
          /\ Request.config = <<"config", "length", "blank", "pair", "pair", "pair">>
          /\ Request.lost = <<"lost", "length", "blank", "pair">>
          /\ Request.other = <<"other">>
      BY Zenon DEF Request
    <3>3. S[1] = kind /\ 1 \in 1 .. Len(S)
      BY <1>3, <3>2
    <3> QED
      BY <3>1, <3>3
  <2>2. /\ line = Line[kind] /\ kind # "half"
    BY <1>3, <2>1
  <2>3. /\ line.method = "PUT" <=> kind = "other"
        /\ line.method = "PUT" => line.name # "upload"
        /\ kind # "other" => Method[kind] = IF line.name # "upload" THEN line.method
                                            ELSE IF line.method = "GET" THEN "MPFS_FORM"
                                            ELSE "MPFS_UP"
    BY <1>3, <2>2 DEF Line, Method
  <2> QED
    BY <1>1, <2>1, <2>2, <2>3
<1>4. CASE kind = "nothing"
  <2>1. Request.nothing = <<"half", "nothing", "blank">>
    BY Zenon DEF Request
  <2>2. LineAt(kind) = 2 /\ S[1] = "half" /\ t = "nothing" /\ 2 \in 1 .. Len(S)
    BY <1>4, <2>1 DEF LineAt
  <2>3. line.method = "GET" /\ line.name = "nothing" /\ Method[kind] = "GET"
    BY <1>4, <2>2 DEF Line, Method
  <2> QED
    BY <1>1, <1>4, <2>2, <2>3
<1>5. kind \in {"page", "form", "image", "badimage", "nolength", "config", "lost",
                "other", "nothing"}
  BY DEF Request
<1> QED
  BY <1>2, <1>3, <1>4, <1>5

\* How far a request was heard, and what waits of it in the FIFO.
LEMMA HeardHas ==
  ASSUME NEW kind \in DOMAIN Request, NEW k, k.rx \in Stream, k.ask \in Stream,
         NEW p, Heard(k, kind, p)
  PROVE  /\ p \in Nat /\ Len(k.rx) \in Nat /\ Len(k.ask) \in Nat
         /\ p + Len(k.rx) + Len(k.ask) = Len(Request[kind])
         /\ \A i \in 1 .. Len(k.rx) : k.rx[i] = Request[kind][p + i]
<1>1. Len(k.rx) \in Nat /\ Len(k.ask) \in Nat
  BY LenProperties DEF Stream
<1> DEFINE k2 == [rx |-> SubSeq(k.rx, 0 + 1, Len(k.rx)), ask |-> k.ask]
<1>2. TakesFrom(k, 0, k2)
  BY <1>1 DEF TakesFrom
<1> HIDE DEF k2
<1>3. PICK n : n = 0
  OBVIOUS
<1>4. TakesFrom(k, n, k2)
  BY <1>2, <1>3
<1> QED
  BY <1>1, <1>4, HeardMoves

\* Of an endless request no line ever ends.
LEMMA EndlessHas ==
  ASSUME HTTPInv, NEW c \in Conns, NEW k, k = net[c],
         NEW kind, kind = "endless", NEW p, Heard(k, kind, p)
  PROVE  LineEnds(c) = {}
<1>1. Request[kind] = [i \in 1 .. RxSize |-> "half"]
  BY DEF Request
<1>7. kind \in DOMAIN Request
  BY DEF Request
<1>2. k.rx \in Stream /\ k.ask \in Stream
  BY DEF HTTPInv, Sockets, Socket
<1>3. /\ p \in Nat /\ Len(k.rx) \in Nat /\ Len(k.ask) \in Nat
      /\ p + Len(k.rx) + Len(k.ask) = Len(Request[kind])
      /\ \A i \in 1 .. Len(k.rx) : k.rx[i] = Request[kind][p + i]
  BY <1>2, <1>7, HeardHas
<1>4. Len(Request[kind]) = RxSize /\ RxSize \in Nat
  BY <1>1, HTTPAssumption
<1>5. \A i \in 1 .. Len(k.rx) : p + i \in 1 .. RxSize
  <2> DEFINE n == Len(k.rx)
             m == Len(k.ask)
  <2>1. p \in Nat /\ n \in Nat /\ m \in Nat /\ p + n + m = RxSize
    BY <1>3, <1>4, Zenon
  <2> HIDE DEF n, m
  <2>2. \A i \in 1 .. n : p + i \in 1 .. RxSize
    BY <1>4, <2>1
  <2> QED
    BY <2>2 DEF n
<1>6. \A i \in 1 .. Len(k.rx) : k.rx[i] = "half"
  BY <1>1, <1>3, <1>5
<1> QED
  BY <1>6 DEF LineEnds, Ready

\* A step that reads on, of a client that is there or of one that has gone.
LEMMA ReadStep ==
  ASSUME HTTPInv, RequestInv, NEW c \in Conns, NEW s, NEW k, NEW r, Steps(c, s, k, r),
         client' = client, k.st = net[c].st, k.wasReset = net[c].wasReset,
         net[c].st = "open" => Followed(s, k, r, client[c].asked),
         net[c].st # "open" => Deaf(s, k)
  PROVE  RequestInv'
<1>1. turn = <<c, "process">>
  BY DEF Steps
<1>2. client' = [client EXCEPT ![c] = client[c]] /\ client[c] \in Client
  BY StaysWhere
<1>3. net[c].st = "open" => client[c].asked \in Kinds[c] /\ ~ client[c].over /\ ~ net[c].wasReset
  BY <1>1, HearsAtWork DEF RequestInv
<1> QED
  BY <1>2, <1>3, HearsStep DEF Hears

LEMMA DeafHasNoLine ==
  ASSUME NEW c \in Conns, NEW s, Deaf(s, net[c])
  PROVE  LineEnds(c) = {}
BY DEF Deaf, LineEnds, Ready

\* The socket without its first line.
LEMMA LineTaken ==
  ASSUME HTTPInv, NEW c \in Conns, LineEnds(c) # {}, TakeLine(c)
  PROVE  \E k : /\ net' = [net EXCEPT ![c] = k]
                /\ k.st = net[c].st /\ k.wasReset = net[c].wasReset /\ k.ask = net[c].ask
                /\ k.rx = SubSeq(net[c].rx, Min(LineEnds(c)) + 1, Len(net[c].rx))
<1> DEFINE rx == SubSeq(net[c].rx, Min(LineEnds(c)) + 1, Len(net[c].rx))
           k == [net[c] EXCEPT !.rx = rx]
<1>1. Min(LineEnds(c)) \in 1 .. Ready(c)
  BY LineIs
<1>2. net[c].rx \in Stream /\ Len(net[c].rx) \in Nat
  BY LenProperties DEF HTTPInv, Sockets, Socket, Stream
<1>3. rx \in Stream
  <2>1. Min(LineEnds(c)) \in 0 .. Len(net[c].rx)
    BY <1>1, <1>2 DEF Ready
  <2> QED
    BY <1>2, <2>1, PrefixIs
<1>4. net' = [net EXCEPT ![c] = k]
  BY Zenon DEF TakeLine, Take
<1> HIDE DEF rx
<1>5. k.st = net[c].st /\ k.wasReset = net[c].wasReset /\ k.ask = net[c].ask /\ k.rx = rx
  BY <1>3, SocketReads
<1> QED
  BY <1>4, <1>5, Zenon DEF rx

LEMMA ParseRequestHears ==
  ASSUME HTTPInv, RequestInv, NEW c \in Conns, ParseRequest(c)
  PROVE  RequestInv'
<1> DEFINE line == Line[FirstLine(c)]
           kind == client[c].asked
<1>1. /\ turn = <<c, "process">> /\ sm[c] = "PARSE_REQUEST" /\ LineEnds(c) # {}
      /\ turn' = turn /\ UNCHANGED <<curHTTPID, http_memory>> /\ client' = client
  BY Zenon DEF ParseRequest, At, Again, Loaded
<1>2. curHTTP \in Record
  BY <1>1, AtWork DEF RecordOK
<1>3. net[c].st = "open"
  BY <1>1, HearsAtWork, DeafHasNoLine
<1>4. /\ kind \in DOMAIN Request /\ Followed(sm[c], net[c], curHTTP, kind)
  BY <1>1, <1>3, HearsAtWork
<1>5. Ahead(net[c]) = Request[kind] /\ curHTTP.byteCount = 0
  BY <1>1, <1>4 DEF Followed, Young
<1> HIDE DEF kind
<1>6. Heard(net[c], kind, 0)
  BY <1>4, <1>5, RestOfAll DEF Heard
<1>7. kind # "endless"
  BY <1>1, <1>6, EndlessHas
<1>8. /\ LineAt(kind) \in 1 .. Len(Request[kind]) /\ LineAt(kind) > 0
      /\ \A i \in 0 + 1 .. LineAt(kind) - 1 : Request[kind][i] = "half"
      /\ Request[kind][LineAt(kind)] # "half"
  BY <1>4, <1>7, LineSays DEF LineAt
<1>9. /\ line = Line[Request[kind][LineAt(kind)]]
      /\ \A k : (/\ k.rx = SubSeq(net[c].rx, Min(LineEnds(c)) + 1, Len(net[c].rx))
                 /\ k.ask = net[c].ask) => Heard(k, kind, LineAt(kind))
  <2>1. PICK k0 : /\ k0.rx = SubSeq(net[c].rx, Min(LineEnds(c)) + 1, Len(net[c].rx))
                  /\ k0.ask = net[c].ask
    <3> DEFINE k0 == [rx |-> SubSeq(net[c].rx, Min(LineEnds(c)) + 1, Len(net[c].rx)),
                      ask |-> net[c].ask]
    <3>1. k0.rx = SubSeq(net[c].rx, Min(LineEnds(c)) + 1, Len(net[c].rx)) /\ k0.ask = net[c].ask
      OBVIOUS
    <3> QED
      BY <3>1, Zenon
  <2>2. FirstLine(c) = Request[kind][LineAt(kind)]
    BY <1>1, <1>4, <1>6, <1>8, <2>1, LineHeard
  <2>3. ASSUME NEW k, k.rx = SubSeq(net[c].rx, Min(LineEnds(c)) + 1, Len(net[c].rx)),
               k.ask = net[c].ask
        PROVE  Heard(k, kind, LineAt(kind))
    BY <1>1, <1>4, <1>6, <1>8, <2>3, LineHeard
  <2> QED
    BY <2>2, <2>3, Zenon
<1>10. /\ line.method = "PUT" <=> kind = "other"
       /\ line.method = "PUT" => line.name # "upload"
       /\ kind # "other" => /\ kind \in DOMAIN Method
                            /\ Method[kind] = IF line.name # "upload" THEN line.method
                                              ELSE IF line.method = "GET" THEN "MPFS_FORM"
                                              ELSE "MPFS_UP"
  BY <1>4, <1>7, <1>9, LineSays
<1> HIDE DEF line
<1>11. CASE Goto(c, "SERVE_HEADERS") /\ UNCHANGED net
  <2>1. Steps(c, "SERVE_HEADERS", net[c], curHTTP')
    BY <1>1, <1>11, StaysWhere DEF Steps, Goto
  <2>2. "SERVE_HEADERS" \in Quiet /\ sm[c] # "IDLE"
    BY <1>1, StatesAre DEF Quiet, Headers
  <2> QED
    BY <1>1, <1>3, <2>1, <2>2, StaysWhere, QuietStep
<1>12. CASE /\ Goto(c, "PARSE_HEADERS") /\ TakeLine(c) /\ kind # "other"
            /\ curHTTP'.httpStatus = Method[kind] /\ curHTTP'.byteCount = 0
  <2>1. PICK k : /\ net' = [net EXCEPT ![c] = k]
                 /\ k.st = net[c].st /\ k.wasReset = net[c].wasReset /\ k.ask = net[c].ask
                 /\ k.rx = SubSeq(net[c].rx, Min(LineEnds(c)) + 1, Len(net[c].rx))
    BY <1>1, <1>12, LineTaken
  <2>2. Steps(c, "PARSE_HEADERS", k, curHTTP')
    BY <1>1, <1>12, <2>1 DEF Steps, Goto
  <2>3. Heard(k, kind, LineAt(kind))
    BY <1>9, <2>1
  <2>4. CountAt(kind, LineAt(kind)) = 0
    BY DEF CountAt, Measured, LineAt
  <2>5. AtHeaders(k, curHTTP', kind)
    BY <1>10, <1>12, <2>3, <2>4 DEF AtHeaders, Understood, Counted
  <2>6. Followed("PARSE_HEADERS", k, curHTTP', kind)
    BY <2>5 DEF Followed, Young
  <2> QED
    BY <1>1, <1>3, <2>1, <2>2, <2>6, ReadStep DEF kind
<1>13. CASE /\ line.name = "upload"
            /\ curHTTP' = [curHTTP EXCEPT !.httpStatus =
                             IF line.method = "GET" THEN "MPFS_FORM" ELSE "MPFS_UP"]
            /\ Goto(c, "PARSE_HEADERS") /\ TakeLine(c)
  <2> DEFINE status == IF line.method = "GET" THEN "MPFS_FORM" ELSE "MPFS_UP"
  <2>1. kind # "other" /\ status = Method[kind]
    BY <1>10, <1>13
  <2> HIDE DEF status
  <2>2. curHTTP' = [curHTTP EXCEPT !.httpStatus = status]
    BY <1>13 DEF status
  <2>3. curHTTP'.httpStatus = status /\ curHTTP'.byteCount = curHTTP.byteCount
    BY <1>2, <2>2, Zenon DEF Record
  <2> QED
    BY <1>5, <1>12, <1>13, <2>1, <2>3
<1>14. CASE /\ line.method # "PUT" /\ line.name # "upload"
            /\ \E opened : curHTTP' = [curHTTP EXCEPT !.httpStatus = line.method,
                              !.file = opened.file, !.offsets = opened.offsets,
                              !.hasArgs = line.args]
            /\ Goto(c, "PARSE_HEADERS") /\ TakeLine(c)
  <2>1. kind # "other" /\ line.method = Method[kind]
    BY <1>10, <1>14
  <2>2. PICK opened : curHTTP' = [curHTTP EXCEPT !.httpStatus = line.method,
                                    !.file = opened.file, !.offsets = opened.offsets,
                                    !.hasArgs = line.args]
    BY <1>14
  <2>3. curHTTP'.httpStatus = line.method /\ curHTTP'.byteCount = curHTTP.byteCount
    BY <1>2, <2>2, Zenon DEF Record
  <2> QED
    BY <1>5, <1>12, <1>14, <2>1, <2>3
<1> QED
  BY <1>11, <1>13, <1>14, Zenon DEF ParseRequest, line

LEMMA CountsStay ==
  ASSUME NEW kind \in DOMAIN Method
  PROVE  /\ CountAt(kind, BodyAt(kind)) = CountAt(kind, BodyAt(kind) - 1)
         /\ BodyAt(kind) # LineAt(kind) + 1 =>
              /\ LineAt(kind) + 1 = BodyAt(kind) - 1
              /\ CountAt(kind, LineAt(kind) + 1) = ContentLength
<1>1. CASE kind \in Measured
  <2>1. LineAt(kind) = 1 /\ BodyAt(kind) = 3
    BY <1>1 DEF Measured, LineAt, BodyAt
  <2> QED
    BY <1>1, <2>1 DEF CountAt
<1>2. CASE kind \notin Measured
  <2>1. LineAt(kind) \in {1, 2} /\ BodyAt(kind) = LineAt(kind) + 1
    BY <1>2 DEF LineAt, BodyAt
  <2> QED
    BY <1>2, <2>1 DEF CountAt
<1> QED
  BY <1>1, <1>2

LEMMA ParseHeadersHears ==
  ASSUME HTTPInv, RequestInv, NEW c \in Conns, ParseHeaders(c)
  PROVE  RequestInv'
<1> DEFINE kind == client[c].asked
           S == Request[kind]
<1>1. /\ turn = <<c, "process">> /\ sm[c] = "PARSE_HEADERS" /\ LineEnds(c) # {}
      /\ turn' = turn /\ UNCHANGED <<curHTTPID, http_memory>> /\ client' = client /\ TakeLine(c)
  BY Zenon DEF ParseHeaders, At, Again, Loaded
<1>2. curHTTP \in Record
  BY <1>1, AtWork DEF RecordOK
<1>3. net[c].st = "open"
  BY <1>1, HearsAtWork, DeafHasNoLine
<1>4. AtHeaders(net[c], curHTTP, kind)
  BY <1>1, <1>3, HearsAtWork DEF Followed
<1> HIDE DEF kind
<1>5. PICK p \in {LineAt(kind), BodyAt(kind) - 1} : Counted(net[c], curHTTP, kind, p)
  BY <1>4 DEF AtHeaders
<1>6. kind \in DOMAIN Method /\ curHTTP.httpStatus = Method[kind]
  BY <1>4 DEF AtHeaders, Understood
<1>7. Heard(net[c], kind, p) /\ curHTTP.byteCount = CountAt(kind, p)
  BY <1>5 DEF Counted
<1>8. /\ kind \in DOMAIN Request /\ S \in Stream /\ Len(S) \in Nat
      /\ LineAt(kind) \in 1 .. 2 /\ BodyAt(kind) \in LineAt(kind) + 1 .. Len(S)
      /\ \A i \in LineAt(kind) + 1 .. BodyAt(kind) - 1 : S[i] = "length"
      /\ S[BodyAt(kind)] = "blank"
  BY <1>6, RequestIs, LenProperties DEF Stream
<1> DEFINE q == p + 1
<1>9. q \in LineAt(kind) + 1 .. BodyAt(kind) /\ p < q /\ q \in 1 .. Len(S)
      /\ \/ q = BodyAt(kind)
         \/ q = LineAt(kind) + 1 /\ q <= BodyAt(kind) - 1
      /\ p \in Nat
  BY <1>5, <1>8
<1>10. S[q] # "half" /\ (S[q] = "blank" <=> q = BodyAt(kind))
  <2>1. CASE q = BodyAt(kind)
    BY <1>8, <2>1
  <2>2. CASE q = LineAt(kind) + 1 /\ q <= BodyAt(kind) - 1
    <3>1. q \in LineAt(kind) + 1 .. BodyAt(kind) - 1 /\ q # BodyAt(kind)
      BY <1>8, <2>2
    <3> HIDE DEF q
    <3>2. S[q] = "length"
      BY <1>8, <3>1
    <3> QED
      BY <3>1, <3>2
  <2> QED
    BY <1>9, <2>1, <2>2
<1>11. PICK k : /\ net' = [net EXCEPT ![c] = k]
                /\ k.st = net[c].st /\ k.wasReset = net[c].wasReset /\ k.ask = net[c].ask
                /\ k.rx = SubSeq(net[c].rx, Min(LineEnds(c)) + 1, Len(net[c].rx))
  BY <1>1, LineTaken
<1>12. FirstLine(c) = S[q] /\ Heard(k, kind, q)
  <2>1. \A i \in p + 1 .. q - 1 : Request[kind][i] = "half"
    BY <1>9
  <2>2. q \in 1 .. Len(Request[kind]) /\ Request[kind][q] # "half" /\ p < q
    BY <1>9, <1>10
  <2> HIDE DEF q
  <2> QED
    BY <1>1, <1>7, <1>8, <1>11, <2>1, <2>2, LineHeard
<1> HIDE DEF q, S
<1>13. CASE q = BodyAt(kind)
  <2>1. Goto(c, "AUTHENTICATE") /\ curHTTP' = curHTTP
    BY <1>10, <1>12, <1>13 DEF ParseHeaders
  <2>2. Steps(c, "AUTHENTICATE", k, curHTTP)
    BY <1>1, <1>11, <2>1 DEF Steps, Goto
  <2>3. p = BodyAt(kind) - 1
    BY <1>5, <1>8, <1>13 DEF q
  <2>4. AtBody(k, curHTTP, kind)
    BY <1>6, <1>7, <1>12, <1>13, <2>3, CountsStay DEF AtBody, Understood, Counted
  <2>5. Followed("AUTHENTICATE", k, curHTTP, kind)
    BY <2>4 DEF Followed, Young
  <2> QED
    BY <1>1, <1>3, <1>11, <2>2, <2>5, ReadStep DEF kind
<1>14. CASE q # BodyAt(kind)
  <2>1. curHTTP' = [curHTTP EXCEPT !.byteCount = ContentLength] /\ sm' = sm
    BY <1>10, <1>12, <1>14 DEF ParseHeaders
  <2>2. curHTTP'.byteCount = ContentLength /\ curHTTP'.httpStatus = curHTTP.httpStatus
    BY <1>2, <2>1, Zenon DEF Record
  <2>3. Steps(c, "PARSE_HEADERS", k, curHTTP')
    BY <1>1, <1>11, <2>1, StaysWhere DEF Steps
  <2>4. q = LineAt(kind) + 1 /\ BodyAt(kind) # LineAt(kind) + 1
    BY <1>9, <1>14
  <2>5. q = BodyAt(kind) - 1 /\ CountAt(kind, q) = ContentLength
    BY <1>6, <2>4, CountsStay
  <2>6. AtHeaders(k, curHTTP', kind)
    BY <1>6, <1>12, <2>2, <2>5 DEF AtHeaders, Understood, Counted
  <2>7. Followed("PARSE_HEADERS", k, curHTTP', kind)
    BY <2>6 DEF Followed, Young
  <2> QED
    BY <1>1, <1>3, <1>11, <2>3, <2>7, ReadStep DEF kind
<1> QED
  BY <1>13, <1>14

\* A request that has been read to its end is ready for its data.
LEMMA BodyIsPost ==
  ASSUME NEW k, NEW r, NEW kind, AtBody(k, r, kind), kind # "form"
  PROVE  AtPost(k, r, kind)
<1>1. kind \in DOMAIN Method /\ r.httpStatus = Method[kind] /\ Heard(k, kind, BodyAt(kind))
  BY DEF AtBody, Understood, Counted
<1>2. CASE kind \in {"page", "nothing", "config", "lost"}
  BY <1>2 DEF AtBody, AtPost
<1>3. CASE kind \in {"image", "badimage"}
  BY <1>3 DEF AtPost
<1>4. CASE kind = "nolength"
  <2>1. BodyAt(kind) = 2
    BY <1>4 DEF BodyAt, LineAt, Measured
  <2> QED
    BY <1>1, <1>4, <2>1 DEF AtPost, Understood
<1> QED
  BY <1>1, <1>2, <1>3, <1>4 DEF Method

LEMMA DeafStays ==
  ASSUME NEW s \in Headers, NEW s2, NEW k, Deaf(s, k)
  PROVE  Deaf(s2, k)
<1>1. s # "IDLE"
  BY DEF Headers
<1> QED
  BY <1>1 DEF Deaf

LEMMA AuthenticateHears ==
  ASSUME HTTPInv, RequestInv, NEW c \in Conns, Authenticate(c)
  PROVE  RequestInv'
<1> DEFINE kind == client[c].asked
           r == [curHTTP EXCEPT !.hasArgs = FALSE]
<1>1. /\ turn = <<c, "process">> /\ sm[c] = "AUTHENTICATE" /\ turn' = turn
      /\ UNCHANGED <<curHTTPID, http_memory, net>> /\ client' = client /\ curHTTP' = r
      /\ Goto(c, IF curHTTP.httpStatus = "MPFS_FORM" THEN "SERVE_HEADERS"
                 ELSE IF curHTTP.hasArgs THEN "PROCESS_GET" ELSE "PROCESS_POST")
  BY Zenon DEF Authenticate, At, Again, Loaded
<1>2. r.httpStatus = curHTTP.httpStatus /\ r.byteCount = curHTTP.byteCount
  <2>1. curHTTP \in Record
    BY <1>1, AtWork DEF RecordOK
  <2> QED
    BY <2>1, Zenon DEF Record
<1> HIDE DEF r
<1>3. CASE curHTTP.httpStatus = "MPFS_FORM"
  <2>1. Steps(c, "SERVE_HEADERS", net[c], r)
    BY <1>1, <1>3, StaysWhere DEF Steps, Goto
  <2>2. "SERVE_HEADERS" \in Quiet /\ sm[c] # "IDLE"
    BY <1>1, StatesAre DEF Quiet, Headers
  <2> QED
    BY <1>1, <2>1, <2>2, StaysWhere, QuietStep
<1>4. CASE curHTTP.httpStatus # "MPFS_FORM"
  <2>1. PICK s \in {"PROCESS_GET", "PROCESS_POST"} : Goto(c, s)
    BY <1>1, <1>4
  <2>2. Steps(c, s, net[c], r)
    BY <1>1, <2>1, StaysWhere DEF Steps, Goto
  <2>3. ASSUME net[c].st = "open" PROVE Followed(s, net[c], r, kind)
    <3>1. AtBody(net[c], curHTTP, kind)
      BY <1>1, <2>3, HearsAtWork DEF Followed
    <3> HIDE DEF kind
    <3>2. AtBody(net[c], r, kind) /\ kind # "form"
      BY <1>2, <1>4, <3>1 DEF AtBody, Understood, Counted, Method
    <3>3. AtPost(net[c], r, kind)
      BY <3>2, BodyIsPost
    <3> QED
      BY <3>2, <3>3 DEF Followed, Young
  <2>4. ASSUME net[c].st # "open" PROVE Deaf(s, net[c])
    BY <1>1, <2>4, HearsAtWork, DeafStays DEF Headers
  <2> QED
    BY <1>1, <2>2, <2>3, <2>4, ReadStep
<1> QED
  BY <1>3, <1>4

LEMMA ProcessGetHears ==
  ASSUME HTTPInv, RequestInv, NEW c \in Conns, ProcessGet(c)
  PROVE  RequestInv'
<1> DEFINE kind == client[c].asked
<1>1. /\ turn = <<c, "process">> /\ sm[c] = "PROCESS_GET" /\ turn' = turn
      /\ UNCHANGED <<curHTTPID, http_memory, net>> /\ client' = client
      /\ Goto(c, "PROCESS_POST")
  BY Zenon DEF ProcessGet, At, Again, Loaded
<1>2. PICK b : curHTTP' = [curHTTP EXCEPT !.hasArgs = b]
  BY Zenon DEF ProcessGet
<1>3. curHTTP'.httpStatus = curHTTP.httpStatus /\ curHTTP'.byteCount = curHTTP.byteCount
  <2>1. curHTTP \in Record
    BY <1>1, AtWork DEF RecordOK
  <2> QED
    BY <1>2, <2>1, Zenon DEF Record
<1>4. Steps(c, "PROCESS_POST", net[c], curHTTP')
  BY <1>1, StaysWhere DEF Steps, Goto
<1>5. ASSUME net[c].st = "open" PROVE Followed("PROCESS_POST", net[c], curHTTP', kind)
  <2>1. AtBody(net[c], curHTTP, kind) /\ kind # "form"
    BY <1>1, <1>5, HearsAtWork DEF Followed
  <2> HIDE DEF kind
  <2>2. AtBody(net[c], curHTTP', kind)
    BY <1>3, <2>1 DEF AtBody, Understood, Counted
  <2>3. AtPost(net[c], curHTTP', kind)
    BY <2>1, <2>2, BodyIsPost
  <2> QED
    BY <2>3 DEF Followed, Young
<1>6. ASSUME net[c].st # "open" PROVE Deaf("PROCESS_POST", net[c])
  BY <1>1, <1>6, HearsAtWork, DeafStays DEF Headers
<1> QED
  BY <1>1, <1>4, <1>5, <1>6, ReadStep

LEMMA PostTimeoutHears ==
  ASSUME HTTPInv, RequestInv, NEW c \in Conns, PostTimeout(c)
  PROVE  RequestInv'
<1>1. /\ turn = <<c, "process">> /\ sm[c] = "PROCESS_POST" /\ client' = client
      /\ Steps(c, "DISCONNECT", TCPDisconnect(net[c]), curHTTP)
  BY Zenon DEF PostTimeout, At, Again, Loaded, Goto, Steps
<1>2. "DISCONNECT" \in Quiet /\ sm[c] # "IDLE"
  BY <1>1, StatesAre DEF Quiet, Headers
<1> QED
  BY <1>1, <1>2, StaysWhere, QuietStep

LEMMA NoPostHears ==
  ASSUME HTTPInv, RequestInv, NEW c \in Conns, NoPost(c)
  PROVE  RequestInv'
<1> DEFINE kind == client[c].asked
<1>1. /\ turn = <<c, "process">> /\ sm[c] = "PROCESS_POST" /\ turn' = turn
      /\ UNCHANGED <<curHTTPID, http_memory, net, curHTTP>> /\ client' = client
      /\ Goto(c, "PROCESS_REQUEST") /\ ~ PostCallback
  BY Zenon DEF NoPost, At, Again, Loaded
<1>2. Steps(c, "PROCESS_REQUEST", net[c], curHTTP)
  BY <1>1, StaysWhere DEF Steps, Goto
<1>3. ASSUME net[c].st = "open" PROVE Followed("PROCESS_REQUEST", net[c], curHTTP, kind)
  <2>1. AtPost(net[c], curHTTP, kind)
    BY <1>1, <1>3, HearsAtWork DEF Followed
  <2> HIDE DEF kind
  <2>2. curHTTP.httpStatus \notin {"MPFS_UP", "MPFS_OK", "MPFS_ERROR", "POST"}
    BY <1>1 DEF PostCallback, Uploads
  <2>3. kind \in {"page", "nothing"} /\ curHTTP.httpStatus = "GET"
    BY <2>1, <2>2 DEF AtPost, AtBody, Understood, Method
  <2>4. AtRequest(curHTTP, kind)
    BY <2>3 DEF AtRequest
  <2> QED
    BY <2>4 DEF Followed, Young
<1>4. ASSUME net[c].st # "open" PROVE Deaf("PROCESS_REQUEST", net[c])
  BY <1>1, <1>4, HearsAtWork, DeafStays DEF Headers
<1> QED
  BY <1>1, <1>2, <1>3, <1>4, ReadStep

-----------------------------------------------------------------------------
(* What is heard of the data of a POST.                                     *)

LEMMA PostIs ==
  ASSUME NEW k, NEW r, NEW kind, AtPost(k, r, kind)
  PROVE  /\ r.httpStatus = "POST" => Understood(r, kind) /\ kind \in {"config", "lost"}
         /\ r.httpStatus = "MPFS_UP" =>
              \/ AtBody(k, r, kind) /\ kind \in {"image", "badimage"}
              \/ Understood(r, kind) /\ kind = "nolength" /\ \E p \in 2 .. 3 : Heard(k, kind, p)
         /\ r.httpStatus = "MPFS_OK" =>
              /\ kind = "image" /\ r.byteCount < ImageLen
              /\ Heard(k, kind, Len(Request.image) - r.byteCount)
         /\ r.httpStatus = "MPFS_ERROR" => kind = "badimage"
<1>1. Understood(r, kind) =>
        /\ r.httpStatus = "POST" => kind \in {"config", "lost"}
        /\ r.httpStatus = "MPFS_UP" => kind \notin {"page", "nothing", "config", "lost"}
        /\ r.httpStatus \notin {"MPFS_OK", "MPFS_ERROR"}
  BY DEF Understood, Method
<1>2. CASE Understood(r, kind) /\ kind \in {"page", "nothing", "config", "lost"}
  BY <1>1, <1>2
<1>3. CASE AtBody(k, r, kind) /\ kind \in {"image", "badimage"}
  BY <1>1, <1>3 DEF AtBody
<1>4. CASE Understood(r, kind) /\ kind = "nolength" /\ \E p \in 2 .. 3 : Heard(k, kind, p)
  BY <1>1, <1>4
<1> QED
  BY <1>2, <1>3, <1>4 DEF AtPost

\* The part that decides where a POST is does not change with lastReady.
LEMMA PostSame ==
  ASSUME NEW k, NEW r, NEW kind, AtPost(k, r, kind), NEW r2,
         r2.httpStatus = r.httpStatus, r2.byteCount = r.byteCount
  PROVE  AtPost(k, r2, kind)
BY Zenon DEF AtPost, AtBody, Understood, Counted

LEMMA QuietReads ==
  ASSUME HTTPInv, RequestInv, NEW c \in Conns, NEW s \in Quiet, s # "IDLE", NEW k, NEW r,
         Steps(c, s, k, r), sm[c] # "IDLE", client' = client,
         k.st = net[c].st, k.wasReset = net[c].wasReset,
         k.rx \in {net[c].rx, <<>>} \/ net[c].st = "open"
  PROVE  RequestInv'
<1>1. turn = <<c, "process">>
  BY DEF Steps
<1>2. s \notin Young /\ s \notin Headers /\ s # "PROCESS_REQUEST"
  BY DEF Quiet, Young
<1>3. ASSUME net[c].st = "open" PROVE Followed(s, k, r, client[c].asked)
  <2>1. s \notin {"PARSE_REQUEST", "PARSE_HEADERS", "AUTHENTICATE", "PROCESS_GET",
                  "PROCESS_POST", "PROCESS_REQUEST"}
    BY <1>2 DEF Young, Headers
  <2> QED
    BY <1>2, <2>1, Zenon DEF Followed
<1>4. ASSUME net[c].st # "open" PROVE Deaf(s, k)
  <2>1. Deaf(sm[c], net[c])
    BY <1>1, <1>4, HearsAtWork
  <2>2. \A i \in 1 .. Len(k.rx) : k.rx[i] = "half"
    <3>1. CASE k.rx = net[c].rx
      BY <2>1, <3>1 DEF Deaf
    <3>2. CASE k.rx = <<>>
      BY <3>2
    <3> QED
      BY <1>4, <3>1, <3>2
  <2> QED
    BY <1>2, <2>1, <2>2 DEF Deaf
<1> QED
  BY <1>3, <1>4, ReadStep

LEMMA PostHears ==
  ASSUME HTTPInv, RequestInv, NEW c \in Conns, turn = <<c, "process">>, sm[c] = "PROCESS_POST",
         UNCHANGED Loaded, client' = client, NEW record \in Record,
         NEW rx \in Stream, Len(rx) <= Len(net[c].rx),
         NEW k, k = [net[c] EXCEPT !.rx = rx],
         \/ /\ Waiting(c, record, rx) \/ NeedData(c, record, rx)
            /\ net[c].st = "open" => AtPost(k, record, client[c].asked)
         \/ PostDone(c, record, rx, "SERVE_HEADERS")
         \/ /\ PostDone(c, record, rx, "PROCESS_REQUEST")
            /\ net[c].st = "open" => AtRequest(record, client[c].asked)
  PROVE  RequestInv'
<1> DEFINE kind == client[c].asked
<1>1. k.st = net[c].st /\ k.wasReset = net[c].wasReset /\ k.rx = rx /\ k.ask = net[c].ask
  BY SocketReads
<1>2. UNCHANGED <<curHTTPID, http_memory>>
  BY DEF Loaded
<1>3. net[c].st # "open" => rx = <<>> /\ net[c].rx = <<>> /\ Deaf("PROCESS_POST", net[c])
  <2>1. net[c].st # "open" => Deaf("PROCESS_POST", net[c])
    BY HearsAtWork
  <2>2. net[c].st # "open" => net[c].rx = <<>>
    BY <2>1 DEF Deaf, Headers
  <2>3. net[c].rx = <<>> => Len(rx) = 0
    BY LenProperties DEF Stream
  <2> QED
    BY <2>1, <2>2, <2>3, EmptySeq DEF Stream
<1>4. net[c].st # "open" => \A s : Deaf(s, k)
  <2>1. "PROCESS_POST" \in Headers
    BY DEF Headers
  <2>2. net[c].st # "open" => \A s : Deaf(s, net[c])
    BY <1>3, <2>1, DeafStays
  <2>3. net[c].st # "open" => k.rx = net[c].rx
    BY <1>1, <1>3
  <2> QED
    BY <1>1, <2>2, <2>3, Zenon DEF Deaf
<1>5. "SERVE_HEADERS" \in Quiet /\ sm[c] # "IDLE"
  BY StatesAre DEF Quiet, Headers
<1>6. k.rx \in {net[c].rx, <<>>} \/ net[c].st = "open"
  BY <1>1, <1>3
<1>7. ASSUME net' = [net EXCEPT ![c].rx = rx] PROVE net' = [net EXCEPT ![c] = k]
  BY <1>7, Zenon
<1>8. ASSUME net' = [net EXCEPT ![c] = k], Goto(c, "SERVE_HEADERS"), Again
      PROVE  RequestInv'
  <2>1. Steps(c, "SERVE_HEADERS", k, curHTTP')
    BY <1>2, <1>8 DEF Steps, Again, Goto
  <2>2. "SERVE_HEADERS" # "IDLE"
    OBVIOUS
  <2> QED
    BY <1>1, <1>5, <1>6, <2>1, <2>2, QuietReads
<1> HIDE DEF kind
<1>9. ASSUME net' = [net EXCEPT ![c] = k], sm' = sm, Done(c), AtPost(k, record, kind) \/ net[c].st # "open",
             NEW n, curHTTP' = [record EXCEPT !.lastReady = n]
      PROVE  RequestInv'
  <2>1. Steps(c, "PROCESS_POST", k, curHTTP')
    BY <1>2, <1>9, StaysWhere DEF Steps, Done
  <2>2. curHTTP'.httpStatus = record.httpStatus /\ curHTTP'.byteCount = record.byteCount
    BY <1>9, Zenon DEF Record
  <2>3. ASSUME net[c].st = "open" PROVE Followed("PROCESS_POST", k, curHTTP', kind)
    <3>1. AtPost(k, curHTTP', kind)
      BY <1>9, <2>2, <2>3, PostSame
    <3> QED
      BY <3>1 DEF Followed, Young
  <2> QED
    BY <1>1, <1>4, <2>1, <2>3, ReadStep DEF kind
<1>10. CASE Waiting(c, record, rx) /\ (net[c].st = "open" => AtPost(k, record, kind))
  <2>1. net' = [net EXCEPT ![c] = k] /\ sm' = sm /\ Done(c)
    BY <1>7, <1>10, Zenon DEF Waiting
  <2>2. \E n : curHTTP' = [record EXCEPT !.lastReady = n]
    BY <1>10, Zenon DEF Waiting
  <2> QED
    BY <1>9, <1>10, <2>1, <2>2
<1>11. CASE NeedData(c, record, rx) /\ (net[c].st = "open" => AtPost(k, record, kind))
  <2>1. net' = [net EXCEPT ![c] = k]
    BY <1>7, <1>11, Zenon DEF NeedData
  <2>2. \/ curHTTP' = [record EXCEPT !.lastReady = Len(rx)] /\ Done(c) /\ sm' = sm
        \/ Goto(c, "SERVE_HEADERS") /\ Again
    BY <1>11, Zenon DEF NeedData
  <2> QED
    BY <1>8, <1>9, <1>11, <2>1, <2>2
<1>12. CASE PostDone(c, record, rx, "SERVE_HEADERS")
  <2>1. net' = [net EXCEPT ![c] = k] /\ Goto(c, "SERVE_HEADERS") /\ Again
    BY <1>7, <1>12, Zenon DEF PostDone
  <2> QED
    BY <1>8, <2>1
<1>13. CASE PostDone(c, record, rx, "PROCESS_REQUEST") /\ (net[c].st = "open" => AtRequest(record, kind))
  <2>1. net' = [net EXCEPT ![c] = k] /\ Goto(c, "PROCESS_REQUEST") /\ Again /\ curHTTP' = record
    BY <1>7, <1>13, Zenon DEF PostDone
  <2>2. Steps(c, "PROCESS_REQUEST", k, record)
    BY <1>2, <2>1 DEF Steps, Again, Goto
  <2>3. net[c].st = "open" => Followed("PROCESS_REQUEST", k, record, kind)
    BY <1>13 DEF Followed, Young
  <2> QED
    BY <1>1, <1>4, <2>2, <2>3, ReadStep DEF kind
<1> QED
  BY <1>10, <1>11, <1>12, <1>13 DEF kind

LEMMA ExecutePostIs ==
  ASSUME HTTPInv, NEW c \in Conns, ExecutePost(c)
  PROVE  \E r \in Record :
           /\ r.file = curHTTP.file /\ r.offsets = curHTTP.offsets /\ r.hasArgs = curHTTP.hasArgs
           /\ \/ /\ r.httpStatus = "POST"
                 /\ \E s \in Stream :
                      /\ Len(s) <= Len(net[c].rx)
                      /\ \/ Waiting(c, r, s)
                         \/ NeedData(c, r, s) /\ s = <<>> /\ r.byteCount > 0
              \/ /\ r.httpStatus \in {"POST", "REDIRECT"}
                 /\ IsOpen(fs, curHTTP.file) /\ NameOf(fs, curHTTP.file) = "config"
                      => r.httpStatus = "REDIRECT"
                 /\ PostDone(c, r, net[c].rx, "PROCESS_REQUEST")
<1> DEFINE rx == net[c].rx
           pairRead == [curHTTP EXCEPT !.byteCount = @ - 1]
           isConfig == IsOpen(fs, curHTTP.file) /\ NameOf(fs, curHTTP.file) = "config"
           Same(r) == /\ r.file = curHTTP.file /\ r.offsets = curHTTP.offsets
                      /\ r.hasArgs = curHTTP.hasArgs
<1>1. turn = <<c, "process">> /\ curHTTP.httpStatus = "POST"
  BY Zenon DEF ExecutePost, At
<1>2. curHTTP \in Record /\ rx \in Stream /\ Len(rx) \in Nat /\ Len(rx) <= Len(rx)
  <2>1. RecordOK(curHTTP) /\ rx \in Stream
    BY <1>1, AtWork DEF SocketOK, Socket
  <2> QED
    BY <2>1, LenProperties DEF RecordOK, Stream
<1>3. \/ ~ isConfig /\ PostDone(c, curHTTP, rx, "PROCESS_REQUEST")
      \/ Waiting(c, [curHTTP EXCEPT !.smPost = "end"], rx)
      \/ /\ curHTTP.byteCount > 0 /\ rx # <<>>
         /\ \E parsed \in BOOLEAN :
              Waiting(c, IF parsed THEN pairRead ELSE [pairRead EXCEPT !.smPost = "end"],
                      Tail(rx))
      \/ NeedData(c, curHTTP, rx) /\ rx = <<>> /\ curHTTP.byteCount > 0
      \/ PostDone(c, [curHTTP EXCEPT !.httpStatus = "REDIRECT"], rx, "PROCESS_REQUEST")
  BY Zenon DEF ExecutePost
<1>4. CASE ~ isConfig /\ PostDone(c, curHTTP, rx, "PROCESS_REQUEST")
  BY <1>1, <1>2, <1>4
<1>5. CASE Waiting(c, [curHTTP EXCEPT !.smPost = "end"], rx)
  <2> DEFINE r == [curHTTP EXCEPT !.smPost = "end"]
  <2>1. r \in Record /\ r.httpStatus = curHTTP.httpStatus /\ Same(r)
    BY <1>2, Zenon DEF Record
  <2> HIDE DEF r
  <2>2. Waiting(c, r, rx)
    BY <1>5 DEF r
  <2> QED
    BY <1>1, <1>2, <2>1, <2>2
<1>6. CASE /\ curHTTP.byteCount > 0 /\ rx # <<>>
           /\ \E parsed \in BOOLEAN :
                Waiting(c, IF parsed THEN pairRead ELSE [pairRead EXCEPT !.smPost = "end"],
                        Tail(rx))
  <2>1. PICK parsed \in BOOLEAN :
          Waiting(c, IF parsed THEN pairRead ELSE [pairRead EXCEPT !.smPost = "end"], Tail(rx))
    BY <1>6
  <2> DEFINE n == curHTTP.byteCount - 1
             r == IF parsed THEN pairRead ELSE [pairRead EXCEPT !.smPost = "end"]
  <2>2. n \in Nat
    BY <1>2, <1>6 DEF Record
  <2>3. \/ r = [curHTTP EXCEPT !.byteCount = n]
        \/ r = [curHTTP EXCEPT !.byteCount = n, !.smPost = "end"]
    BY Zenon
  <2> HIDE DEF r, n
  <2>4. r \in Record /\ r.httpStatus = curHTTP.httpStatus /\ Same(r)
    BY <1>2, <2>2, <2>3, Zenon DEF Record
  <2>5. Waiting(c, r, Tail(rx))
    BY <2>1 DEF r
  <2>6. Tail(rx) \in Stream /\ Len(Tail(rx)) <= Len(rx)
    BY <1>2, <1>6, TailIs
  <2> QED
    BY <1>1, <2>4, <2>5, <2>6
<1>7. CASE NeedData(c, curHTTP, rx) /\ rx = <<>> /\ curHTTP.byteCount > 0
  BY <1>1, <1>2, <1>7
<1>8. CASE PostDone(c, [curHTTP EXCEPT !.httpStatus = "REDIRECT"], rx, "PROCESS_REQUEST")
  <2> DEFINE r == [curHTTP EXCEPT !.httpStatus = "REDIRECT"]
  <2>1. r \in Record /\ r.httpStatus = "REDIRECT" /\ Same(r)
    BY <1>2, Zenon DEF Record, Status
  <2> HIDE DEF r
  <2>2. PostDone(c, r, rx, "PROCESS_REQUEST")
    BY <1>8 DEF r
  <2> QED
    BY <2>1, <2>2
<1> QED
  BY <1>3, <1>4, <1>5, <1>6, <1>7, <1>8

LEMMA ExecutePostHears ==
  ASSUME HTTPInv, RequestInv, NEW c \in Conns, ExecutePost(c)
  PROVE  RequestInv'
<1>1. /\ turn = <<c, "process">> /\ sm[c] = "PROCESS_POST" /\ UNCHANGED Loaded
      /\ client' = client /\ curHTTP.httpStatus = "POST"
  BY Zenon DEF ExecutePost, At
<1>2. net[c].rx \in Stream /\ Len(net[c].rx) <= Len(net[c].rx)
  <2>1. net[c].rx \in Stream
    BY <1>1, AtWork DEF SocketOK, Socket
  <2> QED
    BY <2>1, LenProperties DEF Stream
<1>3. net[c].st = "open" => /\ client[c].asked \in {"config", "lost"}
                            /\ Method[client[c].asked] = "POST"
  <2>1. net[c].st = "open" => AtPost(net[c], curHTTP, client[c].asked)
    BY <1>1, HearsAtWork DEF Followed
  <2> QED
    BY <1>1, <2>1, PostIs DEF Understood
<1>4. ASSUME NEW r \in Record, r.httpStatus = "POST", NEW s \in Stream, Len(s) <= Len(net[c].rx),
             Waiting(c, r, s) \/ NeedData(c, r, s)
      PROVE  RequestInv'
  <2>1. ASSUME NEW k PROVE net[c].st = "open" => AtPost(k, r, client[c].asked)
    <3>1. net[c].st = "open" => Understood(r, client[c].asked)
      BY <1>3, <1>4 DEF Understood, Method
    <3> QED
      BY <1>3, <3>1 DEF AtPost
  <2>2. \E k0 : k0 = [net[c] EXCEPT !.rx = s] /\ (net[c].st = "open" => AtPost(k0, r, client[c].asked))
    BY <2>1
  <2> QED
    BY <1>1, <1>4, <2>2, PostHears
<1>5. ASSUME NEW r \in Record, r.httpStatus \in {"POST", "REDIRECT"},
             PostDone(c, r, net[c].rx, "PROCESS_REQUEST")
      PROVE  RequestInv'
  <2>1. PICK k : k = [net[c] EXCEPT !.rx = net[c].rx]
    OBVIOUS
  <2>2. net[c].st = "open" => AtRequest(r, client[c].asked)
    BY <1>3, <1>5 DEF AtRequest
  <2> QED
    BY <1>1, <1>2, <1>5, <2>1, <2>2, PostHears
<1> QED
  BY <1>4, <1>5, ExecutePostIs

\* Where the start of an image is found.
LEMMA StartFirst ==
  ASSUME NEW rx \in Stream, NEW s, s = SelectInSeq(rx, IsStart)
  PROVE  /\ s \in 0 .. Len(rx) /\ Len(rx) \in Nat
         /\ s = 0 => \A i \in 1 .. Len(rx) : rx[i] # "mime"
         /\ s # 0 => rx[s] = "mime" /\ \A i \in 1 .. s - 1 : rx[i] # "mime"
<1> DEFINE I == {i \in 1 .. Len(rx) : rx[i] = "mime"}
<1>1. s = IF I # {} THEN Min(I) ELSE 0
  BY Zenon DEF SelectInSeq, IsStart
<1>2. Len(rx) \in Nat
  BY LenProperties DEF Stream
<1>3. I # {} => Min(I) \in I /\ \A i \in I : Min(I) <= i
  BY <1>2, LeastNumber
<1>4. CASE I = {}
  BY <1>1, <1>2, <1>4
<1>5. CASE I # {}
  <2>1. s \in I /\ \A i \in I : s <= i
    BY <1>1, <1>3, <1>5, Zenon
  <2>2. s \in 1 .. Len(rx) /\ rx[s] = "mime"
    BY <2>1
  <2>3. ASSUME NEW i \in 1 .. s - 1 PROVE rx[i] # "mime"
    <3>1. i \in 1 .. Len(rx) /\ ~ (s <= i)
      BY <1>2, <2>2
    <3> QED
      BY <2>1, <3>1
  <2> QED
    BY <1>2, <2>2, <2>3
<1> QED
  BY <1>4, <1>5

LEMMA ImageStarts ==
  ASSUME NEW k, k.rx \in Stream, k.ask \in Stream, NEW kind \in {"image", "badimage"},
         Heard(k, kind, 3), NEW s, s = SelectInSeq(k.rx, IsStart)
  PROVE  /\ Len(k.rx) \in Nat /\ (s = 0 <=> Len(k.rx) = 0) /\ s \in 0 .. 1
         /\ Len(k.rx) > 1 => k.rx[2] = IF kind = "image" THEN "tag" ELSE "badtag"
         /\ Len(k.rx) <= ImageLen + 1
<1> DEFINE S == Request[kind]
<1>1. kind \in DOMAIN Request
  BY DEF Request
<1>2. PICK p : p = 3
  OBVIOUS
<1>3. /\ 3 \in Nat /\ Len(k.rx) \in Nat /\ Len(k.ask) \in Nat
      /\ 3 + Len(k.rx) + Len(k.ask) = Len(S)
      /\ \A i \in 1 .. Len(k.rx) : k.rx[i] = S[3 + i]
  <2>1. Heard(k, kind, p)
    BY <1>2
  <2>2. /\ p \in Nat /\ Len(k.rx) \in Nat /\ Len(k.ask) \in Nat
        /\ p + Len(k.rx) + Len(k.ask) = Len(Request[kind])
        /\ \A i \in 1 .. Len(k.rx) : k.rx[i] = Request[kind][p + i]
    BY <1>1, <2>1, HeardHas
  <2> QED
    BY <1>2, <2>2
<1>4. /\ Len(S) = ImageLen + 4 /\ S[4] = "mime"
      /\ S[5] = IF kind = "image" THEN "tag" ELSE "badtag"
  BY ImageIs
<1>5. /\ s \in 0 .. Len(k.rx)
      /\ s = 0 => \A i \in 1 .. Len(k.rx) : k.rx[i] # "mime"
      /\ s # 0 => k.rx[s] = "mime" /\ \A i \in 1 .. s - 1 : k.rx[i] # "mime"
  BY StartFirst
<1> HIDE DEF S
<1>6. Len(k.rx) > 0 => k.rx[1] = "mime"
  BY <1>3, <1>4
<1>7. Len(k.rx) > 1 => k.rx[2] = S[5]
  <2>1. Len(k.rx) > 1 => 2 \in 1 .. Len(k.rx)
    BY <1>3
  <2>2. 3 + 2 = 5
    OBVIOUS
  <2> QED
    BY <1>3, <2>1, <2>2, Zenon
<1>8. (s = 0 <=> Len(k.rx) = 0) /\ s \in 0 .. 1
  BY <1>3, <1>5, <1>6
<1>9. Len(k.rx) <= ImageLen + 1
  <2> DEFINE n == Len(k.rx)
             m == Len(k.ask)
  <2>1. n \in Nat /\ m \in Nat /\ 3 + n + m = ImageLen + 4
    BY <1>3, <1>4, Zenon
  <2>2. ImageLen \in Nat
    BY MPFSAssumption
  <2> HIDE DEF n, m
  <2>3. n <= ImageLen + 1
    BY <2>1, <2>2
  <2> QED
    BY <2>3 DEF n
<1> QED
  BY <1>3, <1>4, <1>7, <1>8, <1>9, Zenon

LEMMA NoImageStarts ==
  ASSUME NEW k, k.rx \in Stream, k.ask \in Stream, NEW kind, kind = "nolength",
         NEW p \in 2 .. 3, Heard(k, kind, p), NEW s, s = SelectInSeq(k.rx, IsStart)
  PROVE  s = 0 /\ p + Len(k.rx) \in 2 .. 3
<1>1. kind \in DOMAIN Request
  BY DEF Request
<1>2. /\ Len(k.rx) \in Nat /\ Len(k.ask) \in Nat
      /\ p + Len(k.rx) + Len(k.ask) = Len(Request[kind])
      /\ \A i \in 1 .. Len(k.rx) : k.rx[i] = Request[kind][p + i]
  BY <1>1, HeardHas
<1>3. Request.nolength = <<"image", "blank", "data">>
  BY Zenon DEF Request
<1>4. Len(Request[kind]) = 3 /\ Request[kind][3] = "data"
  BY <1>3
<1> DEFINE n == Len(k.rx)
           m == Len(k.ask)
<1>9. n \in Nat /\ m \in Nat /\ p + n + m = 3
  BY <1>2, <1>4, Zenon
<1> HIDE DEF n, m
<1>10. (\A i \in 1 .. n : p + i = 3) /\ p + n \in 2 .. 3
  BY <1>9
<1>5. \A i \in 1 .. Len(k.rx) : p + i = 3
  BY <1>10 DEF n
<1>6. \A i \in 1 .. Len(k.rx) : k.rx[i] # "mime"
  BY <1>2, <1>4, <1>5
<1>7. s \in 0 .. Len(k.rx) /\ (s # 0 => k.rx[s] = "mime")
  BY StartFirst
<1>8. s = 0
  BY <1>2, <1>6, <1>7
<1> QED
  BY <1>8, <1>10 DEF n

\* The count of an image, which does not wrap.
LEMMA CountOfImage ==
  /\ Minus(ContentLength, 0) = ContentLength
  /\ Minus(ContentLength, 2) = ImageLen - 1
<1>1. ContentLength = ImageLen + 1 /\ ImageLen \in Nat \ {0} /\ ContentLength < Wrapped
  BY MPFSAssumption, LengthAssumption DEF ContentLength
<1>2. Wrapped \in Nat
  BY StatesAre
<1>3. ContentLength # Wrapped /\ ~ (0 > ContentLength) /\ ~ (2 > ContentLength)
      /\ ContentLength - 0 = ContentLength /\ ContentLength - 2 = ImageLen - 1
  BY <1>1, <1>2
<1> QED
  BY <1>3, Zenon DEF Minus

LEMMA SocketCut ==
  ASSUME HTTPInv, NEW c \in Conns, NEW n \in 0 .. Len(net[c].rx), NEW rx,
         rx = SubSeq(net[c].rx, n + 1, Len(net[c].rx)), NEW k, k = [net[c] EXCEPT !.rx = rx]
  PROVE  rx \in Stream /\ Len(rx) <= Len(net[c].rx) /\ TakesFrom(net[c], n, k)
<1>1. net[c].rx \in Stream /\ Len(net[c].rx) \in Nat
  BY LenProperties DEF HTTPInv, Sockets, Socket, Stream
<1>2. rx \in Stream /\ Len(rx) = Len(net[c].rx) - n
  BY <1>1, PrefixIs
<1>3. Len(rx) <= Len(net[c].rx)
  BY <1>1, <1>2
<1>4. k.rx = rx /\ k.ask = net[c].ask
  <2>1. net[c] \in Socket
    BY DEF HTTPInv, Sockets
  <2> QED
    BY <2>1, Zenon DEF Socket
<1> QED
  BY <1>2, <1>3, <1>4 DEF TakesFrom

LEMMA UploadStartHears ==
  ASSUME HTTPInv, RequestInv, NEW c \in Conns, UploadStart(c)
  PROVE  RequestInv'
<1> DEFINE rx == net[c].rx
           starts == SelectInSeq(rx, IsStart)
           kind == client[c].asked
           first == [curHTTP EXCEPT !.byteCount = Minus(@, Len(rx))]
           second == [curHTTP EXCEPT !.byteCount = Minus(@, starts - 1)]
           third == [curHTTP EXCEPT !.byteCount = Minus(@, starts + 1),
                                    !.httpStatus = "MPFS_OK", !.file = 0]
           fourth == [curHTTP EXCEPT !.byteCount = Minus(@, starts + 1),
                                     !.httpStatus = "MPFS_ERROR"]
<1>1. /\ turn = <<c, "process">> /\ sm[c] = "PROCESS_POST" /\ UNCHANGED Loaded
      /\ curHTTP.httpStatus = "MPFS_UP" /\ client' = client
  BY Zenon DEF UploadStart, At
<1>2. /\ curHTTP \in Record /\ rx \in Stream /\ net[c].ask \in Stream /\ Len(rx) \in Nat
      /\ curHTTP.byteCount \in Nat
  <2>1. RecordOK(curHTTP) /\ rx \in Stream /\ net[c].ask \in Stream
    BY <1>1, AtWork DEF SocketOK, Socket
  <2> QED
    BY <2>1, LenProperties DEF RecordOK, Record, Stream
<1>3. net[c].st = "open" =>
        \/ /\ kind \in {"image", "badimage"} /\ Heard(net[c], kind, 3) /\ Understood(curHTTP, kind)
           /\ curHTTP.byteCount = ContentLength
        \/ kind = "nolength" /\ Understood(curHTTP, kind) /\ \E p \in 2 .. 3 : Heard(net[c], kind, p)
  <2>1. net[c].st = "open" => AtPost(net[c], curHTTP, kind)
    BY <1>1, HearsAtWork DEF Followed
  <2>2. kind \in {"image", "badimage"} => BodyAt(kind) = 3 /\ CountAt(kind, 3) = ContentLength
    BY DEF BodyAt, LineAt, Measured, CountAt
  <2> QED
    BY <1>1, <2>1, <2>2, PostIs DEF AtBody, Counted
<1> HIDE DEF kind
<1>4. /\ starts \in 0 .. Len(rx)
  BY <1>2, StartFirst
<1>5. \/ starts = 0 /\ NeedData(c, first, <<>>)
      \/ starts > 0 /\ starts = Len(rx) /\ NeedData(c, second, SubSeq(rx, starts, Len(rx)))
      \/ /\ starts > 0 /\ starts < Len(rx) /\ rx[starts + 1] = "tag"
         /\ Waiting(c, third, SubSeq(rx, starts + 2, Len(rx)))
      \/ /\ starts > 0 /\ starts < Len(rx) /\ rx[starts + 1] # "tag"
         /\ Waiting(c, fourth, SubSeq(rx, starts + 2, Len(rx)))
  BY Zenon DEF UploadStart
<1>6. CASE starts = 0 /\ NeedData(c, first, <<>>)
  <2> DEFINE k == [net[c] EXCEPT !.rx = <<>>]
             n == Len(rx)
  <2>1. <<>> \in Stream /\ Len(<<>>) <= Len(net[c].rx)
    BY <1>2 DEF Stream
  <2>2. Minus(curHTTP.byteCount, n) \in Nat
    BY <1>2, MinusIs
  <2>3. first \in Record /\ first.httpStatus = "MPFS_UP" /\ first.byteCount = Minus(curHTTP.byteCount, n)
    BY <1>1, <1>2, <2>2, Zenon DEF Record
  <2> HIDE DEF first
  <2>4. ASSUME net[c].st = "open" PROVE AtPost(k, first, kind)
    <3>1. k.rx = <<>> /\ k.ask = net[c].ask
      BY <2>1, SocketReads
    <3> HIDE DEF k
    <3>2. CASE kind \in {"image", "badimage"}
      <4>1. Heard(net[c], kind, 3) /\ curHTTP.byteCount = ContentLength /\ Understood(curHTTP, kind)
        BY <1>3, <2>4, <3>2
      <4>2. n = 0
        BY <1>2, <1>6, <3>2, <4>1, ImageStarts
      <4>3. k.rx = net[c].rx
        BY <1>2, <3>1, <4>2, EmptySeq DEF Stream
      <4>4. Heard(k, kind, 3)
        BY <3>1, <4>1, <4>3 DEF Heard, Ahead
      <4>5. first.byteCount = ContentLength
        BY <2>3, <4>1, <4>2, CountOfImage
      <4>6. BodyAt(kind) = 3 /\ CountAt(kind, 3) = ContentLength
        BY <3>2 DEF BodyAt, LineAt, Measured, CountAt
      <4>7. Understood(first, kind)
        BY <1>1, <2>3, <4>1 DEF Understood
      <4> QED
        BY <3>2, <4>4, <4>5, <4>6, <4>7 DEF AtPost, AtBody, Counted
    <3>3. CASE kind = "nolength"
      <4>1. PICK p \in 2 .. 3 : Heard(net[c], kind, p)
        BY <1>3, <2>4, <3>3
      <4>2. p + Len(rx) \in 2 .. 3
        BY <1>2, <3>3, <4>1, NoImageStarts
      <4>3. TakesFrom(net[c], Len(rx), k)
        <5>1. SubSeq(rx, Len(rx) + 1, Len(rx)) = <<>>
          BY <1>2, SubSeqEmpty
        <5>2. Len(rx) \in 0 .. Len(rx)
          BY <1>2
        <5> QED
          BY <3>1, <5>1, <5>2, Zenon DEF TakesFrom
      <4>4. kind \in DOMAIN Request
        BY <3>3 DEF Request
      <4> HIDE DEF rx
      <4>5. Heard(k, kind, p + Len(net[c].rx))
        <5>1. TakesFrom(net[c], Len(net[c].rx), k) /\ net[c].rx \in Stream
          BY <1>2, <4>3 DEF rx
        <5> QED
          BY <1>2, <4>1, <4>4, <5>1, HeardMoves
      <4>6. Understood(first, kind)
        BY <1>1, <1>3, <2>3, <2>4, <3>3 DEF Understood
      <4> QED
        BY <3>3, <4>2, <4>5, <4>6 DEF AtPost, rx
    <3> QED
      BY <1>3, <2>4, <3>2, <3>3
  <2>5. PICK k0 : k0 = k
    OBVIOUS
  <2>6. k0 = [net[c] EXCEPT !.rx = <<>>] /\ (net[c].st = "open" => AtPost(k0, first, client[c].asked))
    BY <2>4, <2>5 DEF kind
  <2> HIDE DEF k
  <2> QED
    BY <1>1, <1>6, <2>1, <2>3, <2>6, PostHears
<1>7. CASE starts > 0 /\ starts = Len(rx) /\ NeedData(c, second, SubSeq(rx, starts, Len(rx)))
  <2>1. Minus(curHTTP.byteCount, starts - 1) \in Nat
    <3>1. starts - 1 \in Nat
      BY <1>2, <1>4, <1>7
    <3> QED
      BY <1>2, <3>1, MinusIs
  <2>2. /\ second \in Record /\ second.httpStatus = "MPFS_UP"
        /\ second.byteCount = Minus(curHTTP.byteCount, starts - 1)
    BY <1>1, <1>2, <2>1, Zenon DEF Record
  <2> HIDE DEF second
  <2> DEFINE cut == SubSeq(rx, starts, Len(rx))
             k == [net[c] EXCEPT !.rx = cut]
             n == starts - 1
  <2>3. n \in 0 .. Len(rx) /\ n + 1 = starts
    BY <1>2, <1>4, <1>7
  <2>4. cut \in Stream /\ Len(cut) <= Len(net[c].rx) /\ TakesFrom(net[c], n, k)
    <3>1. cut = SubSeq(net[c].rx, n + 1, Len(net[c].rx))
      BY <2>3
    <3> HIDE DEF n, cut
    <3> QED
      BY <2>3, <3>1, SocketCut
  <2>5. ASSUME net[c].st = "open" PROVE AtPost(k, second, kind)
    <3>1. CASE kind \in {"image", "badimage"}
      <4>1. Heard(net[c], kind, 3) /\ curHTTP.byteCount = ContentLength /\ Understood(curHTTP, kind)
        BY <1>3, <2>5, <3>1
      <4>2. starts \in 0 .. 1
        BY <1>2, <3>1, <4>1, ImageStarts
      <4>3. n = 0 /\ starts - 1 = 0
        BY <1>7, <4>2
      <4>4. kind \in DOMAIN Request
        BY <3>1 DEF Request
      <4> HIDE DEF k, cut, n, starts
      <4>5. Heard(k, kind, 3 + n)
        BY <1>2, <2>4, <4>1, <4>4, HeardMoves
      <4>6. second.byteCount = ContentLength /\ 3 + n = 3
        BY <2>2, <4>1, <4>3, CountOfImage
      <4>7. BodyAt(kind) = 3 /\ CountAt(kind, 3) = ContentLength
        BY <3>1 DEF BodyAt, LineAt, Measured, CountAt
      <4>8. Understood(second, kind)
        BY <1>1, <2>2, <4>1 DEF Understood
      <4> QED
        BY <3>1, <4>5, <4>6, <4>7, <4>8 DEF AtPost, AtBody, Counted
    <3>2. CASE kind = "nolength"
      <4>1. PICK p \in 2 .. 3 : Heard(net[c], kind, p)
        BY <1>3, <2>5, <3>2
      <4>2. starts = 0
        BY <1>2, <3>2, <4>1, NoImageStarts
      <4> QED
        BY <1>7, <4>2
    <3> QED
      BY <1>3, <2>5, <3>1, <3>2
  <2>6. PICK k0 : k0 = k
    OBVIOUS
  <2>7. k0 = [net[c] EXCEPT !.rx = cut] /\ (net[c].st = "open" => AtPost(k0, second, client[c].asked))
    BY <2>5, <2>6 DEF kind
  <2>8. NeedData(c, second, cut)
    BY <1>7
  <2> HIDE DEF k, cut
  <2> QED
    BY <1>1, <2>2, <2>4, <2>7, <2>8, PostHears
<1>8. ASSUME starts > 0, starts < Len(rx),
             NEW record \in Record, Waiting(c, record, SubSeq(rx, starts + 2, Len(rx))),
             \/ rx[starts + 1] = "tag" /\ record.httpStatus = "MPFS_OK"
             \/ rx[starts + 1] # "tag" /\ record.httpStatus = "MPFS_ERROR",
             record.byteCount = Minus(curHTTP.byteCount, starts + 1)
      PROVE  RequestInv'
  <2> DEFINE cut == SubSeq(rx, starts + 2, Len(rx))
             k == [net[c] EXCEPT !.rx = cut]
             n == starts + 1
  <2>1. n \in 0 .. Len(rx) /\ n + 1 = starts + 2
    BY <1>2, <1>4, <1>8
  <2>2. cut \in Stream /\ Len(cut) <= Len(net[c].rx) /\ TakesFrom(net[c], n, k)
    <3>1. cut = SubSeq(net[c].rx, n + 1, Len(net[c].rx))
      BY <2>1
    <3> HIDE DEF n, cut
    <3> QED
      BY <2>1, <3>1, SocketCut
  <2>3. ASSUME net[c].st = "open" PROVE AtPost(k, record, kind)
    <3>1. CASE kind \in {"image", "badimage"}
      <4>1. Heard(net[c], kind, 3) /\ curHTTP.byteCount = ContentLength
        BY <1>3, <2>3, <3>1
      <4>2. starts \in 0 .. 1 /\ (Len(rx) > 1 => rx[2] = IF kind = "image" THEN "tag" ELSE "badtag")
        BY <1>2, <3>1, <4>1, ImageStarts
      <4>3. starts = 1 /\ Len(rx) > 1
        BY <1>2, <1>8, <4>2
      <4>4. n = 2 /\ starts + 1 = 2
        BY <4>3
      <4>5. kind \in DOMAIN Request
        BY <3>1 DEF Request
      <4>6. kind = "image" <=> rx[starts + 1] = "tag"
        BY <3>1, <4>2, <4>3, <4>4
      <4>7. record.byteCount = ImageLen - 1
        BY <1>8, <4>1, <4>4, CountOfImage
      <4> HIDE DEF k, cut, n, starts
      <4>8. Heard(k, kind, 3 + n)
        BY <1>2, <2>2, <4>1, <4>5, HeardMoves
      <4>9. CASE kind = "image"
        <5>1. Len(Request.image) = ImageLen + 4
          BY ImageIs
        <5>2. Len(Request.image) - record.byteCount = 3 + n /\ record.byteCount < ImageLen
          BY <4>4, <4>7, <5>1, MPFSAssumption
        <5>3. record.httpStatus = "MPFS_OK"
          BY <1>8, <4>6, <4>9
        <5> QED
          BY <4>8, <4>9, <5>2, <5>3 DEF AtPost
      <4>10. CASE kind = "badimage"
        <5>1. record.httpStatus = "MPFS_ERROR"
          BY <1>8, <4>6, <4>10
        <5> QED
          BY <4>10, <5>1 DEF AtPost
      <4> QED
        BY <3>1, <4>9, <4>10
    <3>2. CASE kind = "nolength"
      <4>1. PICK p \in 2 .. 3 : Heard(net[c], kind, p)
        BY <1>3, <2>3, <3>2
      <4>2. starts = 0
        BY <1>2, <3>2, <4>1, NoImageStarts
      <4> QED
        BY <1>8, <4>2
    <3> QED
      BY <1>3, <2>3, <3>1, <3>2
  <2>4. PICK k0 : k0 = k
    OBVIOUS
  <2>5. k0 = [net[c] EXCEPT !.rx = cut] /\ (net[c].st = "open" => AtPost(k0, record, client[c].asked))
    BY <2>3, <2>4 DEF kind
  <2>6. Waiting(c, record, cut)
    BY <1>8
  <2> HIDE DEF k, cut
  <2> QED
    BY <1>1, <2>2, <2>5, <2>6, PostHears
<1>9. starts > 0 => Minus(curHTTP.byteCount, starts + 1) \in Nat
  <2>1. starts + 1 \in Nat
    BY <1>2, <1>4
  <2> QED
    BY <1>2, <2>1, MinusIs
<1>10. CASE /\ starts > 0 /\ starts < Len(rx) /\ rx[starts + 1] = "tag"
            /\ Waiting(c, third, SubSeq(rx, starts + 2, Len(rx)))
  <2>1. /\ third \in Record /\ third.httpStatus = "MPFS_OK"
        /\ third.byteCount = Minus(curHTTP.byteCount, starts + 1)
    BY <1>2, <1>9, <1>10, StatesAre, Zenon DEF Record, Status
  <2> HIDE DEF third, starts, rx
  <2> QED
    BY <1>8, <1>10, <2>1
<1>11. CASE /\ starts > 0 /\ starts < Len(rx) /\ rx[starts + 1] # "tag"
            /\ Waiting(c, fourth, SubSeq(rx, starts + 2, Len(rx)))
  <2>1. /\ fourth \in Record /\ fourth.httpStatus = "MPFS_ERROR"
        /\ fourth.byteCount = Minus(curHTTP.byteCount, starts + 1)
    BY <1>2, <1>9, <1>11, Zenon DEF Record, Status
  <2> HIDE DEF fourth, starts, rx
  <2> QED
    BY <1>8, <1>11, <2>1
<1> QED
  BY <1>5, <1>6, <1>7, <1>10, <1>11

\* What can still arrive of an image whose count is n.
LEMMA UploadTakes ==
  ASSUME NEW k, k.rx \in Stream, k.ask \in Stream, NEW n \in Nat, n < ImageLen,
         NEW kind, kind = "image", Heard(k, kind, Len(Request.image) - n)
  PROVE  /\ Len(k.rx) \in Nat /\ Len(k.rx) <= n
         /\ Minus(n, Len(k.rx)) = n - Len(k.rx)
         /\ \A i \in 1 .. Len(k.rx) : k.rx[i] = "data"
<1> DEFINE p == Len(Request.image) - n
           S == Request[kind]
           rx == Len(k.rx)
           ask == Len(k.ask)
<1>1. kind \in DOMAIN Request
  BY DEF Request
<1>2. /\ p \in Nat /\ rx \in Nat /\ ask \in Nat /\ p + rx + ask = Len(S)
      /\ \A i \in 1 .. rx : k.rx[i] = S[p + i]
  <2>1. Heard(k, kind, p)
    OBVIOUS
  <2> HIDE DEF p
  <2>2. /\ p \in Nat /\ Len(k.rx) \in Nat /\ Len(k.ask) \in Nat
        /\ p + Len(k.rx) + Len(k.ask) = Len(Request[kind])
        /\ \A i \in 1 .. Len(k.rx) : k.rx[i] = Request[kind][p + i]
    <3>1. ASSUME NEW d \in DOMAIN Request, NEW q, Heard(k, d, q)
          PROVE  /\ q \in Nat /\ Len(k.rx) \in Nat /\ Len(k.ask) \in Nat
                 /\ q + Len(k.rx) + Len(k.ask) = Len(Request[d])
                 /\ \A i \in 1 .. Len(k.rx) : k.rx[i] = Request[d][q + i]
      BY <3>1, HeardHas
    <3> QED
      BY <1>1, <2>1, <3>1, Zenon
  <2> QED
    BY <2>2, Zenon
<1>3. /\ Len(S) = ImageLen + 4 /\ p = Len(S) - n
      /\ \A i \in 6 .. ImageLen + 4 : S[i] = "data"
  BY ImageIs
<1> HIDE DEF p, S, rx, ask
<1>4. ImageLen \in Nat \ {0} /\ ImageLen + 1 < Wrapped /\ Wrapped \in Nat
  BY MPFSAssumption, LengthAssumption, StatesAre DEF ContentLength
<1>5. p \in Nat /\ rx \in Nat /\ ask \in Nat /\ p + rx + ask = ImageLen + 4 /\ p = ImageLen + 4 - n
  <2>1. /\ p \in Nat /\ rx \in Nat /\ ask \in Nat /\ p + rx + ask = Len(S)
        /\ Len(S) = ImageLen + 4 /\ p = Len(S) - n
    BY <1>2, <1>3, Zenon
  <2> QED
    BY <1>4, <2>1
<1>6. rx <= n /\ n # Wrapped /\ ~ (rx > n)
  BY <1>4, <1>5
<1>7. Minus(n, rx) = n - rx
  BY <1>6, Zenon DEF Minus
<1>8. \A i \in 1 .. rx : p + i \in 6 .. ImageLen + 4
  BY <1>4, <1>5
<1>9. \A i \in 1 .. rx : k.rx[i] = "data"
  BY <1>2, <1>3, <1>8, Zenon
<1> QED
  BY <1>2, <1>6, <1>7, <1>9, Zenon DEF rx

LEMMA UploadWriteHears ==
  ASSUME HTTPInv, RequestInv, NEW c \in Conns, UploadWrite(c)
  PROVE  RequestInv'
<1> DEFINE rx == net[c].rx
           n == Min({Len(rx), curHTTP.byteCount})
           m == Minus(curHTTP.byteCount, n)
           r == [curHTTP EXCEPT !.byteCount = m]
           rest == SubSeq(rx, n + 1, Len(rx))
           k == [net[c] EXCEPT !.rx = rest]
           kind == client[c].asked
<1>1. /\ turn = <<c, "process">> /\ sm[c] = "PROCESS_POST" /\ UNCHANGED Loaded
      /\ client' = client /\ curHTTP.httpStatus = "MPFS_OK"
  BY Zenon DEF UploadWrite, At
<1>2. /\ curHTTP \in Record /\ curHTTP.byteCount \in Nat
      /\ rx \in Stream /\ Len(rx) \in Nat /\ net[c].ask \in Stream
  <2>1. RecordOK(curHTTP) /\ rx \in Stream /\ net[c].ask \in Stream
    BY <1>1, AtWork DEF SocketOK, Socket
  <2> QED
    BY <2>1, LenProperties DEF Stream, RecordOK, Record
<1>3. n \in Nat /\ n <= Len(rx) /\ n \in {Len(rx), curHTTP.byteCount} /\ n <= curHTTP.byteCount
  BY <1>2, LesserOfTwo
<1>4. m \in Nat
  BY <1>2, <1>3, MinusIs
<1>5. \/ PostDone(c, r, rest, "SERVE_HEADERS")
      \/ NeedData(c, r, rest)
  BY Zenon DEF UploadWrite
<1>6. n \in 0 .. Len(rx)
  BY <1>2, <1>3
<1>7. r \in Record /\ r.httpStatus = "MPFS_OK" /\ r.byteCount = m
  <2> HIDE DEF m
  <2> QED
    BY <1>1, <1>2, <1>4, Zenon DEF Record
<1> HIDE DEF r
<1>8. rest \in Stream /\ Len(rest) <= Len(net[c].rx) /\ TakesFrom(net[c], n, k)
  <2>1. n \in 0 .. Len(net[c].rx) /\ rest = SubSeq(net[c].rx, n + 1, Len(net[c].rx))
    BY <1>6
  <2> HIDE DEF n, rest, rx
  <2> QED
    BY <2>1, SocketCut
<1>9. ASSUME net[c].st = "open" PROVE AtPost(k, r, kind)
  <2> HIDE DEF kind, k, rest
  <2>1. AtPost(net[c], curHTTP, kind)
    BY <1>1, <1>9, HearsAtWork DEF Followed, kind
  <2>2. /\ kind = "image" /\ curHTTP.byteCount < ImageLen
        /\ Heard(net[c], kind, Len(Request.image) - curHTTP.byteCount)
    BY <1>1, <2>1, PostIs
  <2>3. /\ Len(rx) <= curHTTP.byteCount
        /\ Minus(curHTTP.byteCount, Len(rx)) = curHTTP.byteCount - Len(rx)
    BY <1>2, <2>2, UploadTakes
  <2>4. n = Len(rx)
    BY <1>2, <1>3, <2>3
  <2>5. m = curHTTP.byteCount - n /\ n <= curHTTP.byteCount
    BY <2>3, <2>4
  <2>6. kind \in DOMAIN Request
    BY <2>2 DEF Request
  <2> HIDE DEF n, m
  <2>7. Heard(k, kind, Len(Request.image) - curHTTP.byteCount + n)
    BY <1>2, <1>8, <2>2, <2>6, HeardMoves
  <2>8. Len(Request.image) = ImageLen + 4
    BY ImageIs
  <2>9. Len(Request.image) - curHTTP.byteCount + n = Len(Request.image) - m /\ m < ImageLen
    BY <1>2, <1>3, <2>2, <2>5, <2>8, MPFSAssumption
  <2> QED
    BY <1>7, <2>2, <2>7, <2>9 DEF AtPost
<1>10. PICK k0 : k0 = k
  OBVIOUS
<1>11. k0 = [net[c] EXCEPT !.rx = rest] /\ (net[c].st = "open" => AtPost(k0, r, client[c].asked))
  BY <1>9, <1>10
<1> HIDE DEF k, rest
<1> QED
  BY <1>1, <1>5, <1>7, <1>8, <1>11, PostHears

LEMMA UploadRefusedHears ==
  ASSUME HTTPInv, RequestInv, NEW c \in Conns, UploadRefused(c)
  PROVE  RequestInv'
<1> DEFINE m == Minus(curHTTP.byteCount, Ready(c))
           r == [curHTTP EXCEPT !.byteCount = m]
<1>1. /\ turn = <<c, "process">> /\ sm[c] = "PROCESS_POST" /\ UNCHANGED Loaded
      /\ client' = client /\ curHTTP.httpStatus = "MPFS_ERROR"
  BY Zenon DEF UploadRefused, At
<1>2. /\ curHTTP \in Record /\ curHTTP.byteCount \in Nat /\ Ready(c) \in Nat
  <2>1. RecordOK(curHTTP) /\ net[c].rx \in Stream
    BY <1>1, AtWork DEF SocketOK, Socket
  <2> QED
    BY <2>1, LenProperties DEF Stream, RecordOK, Record, Ready
<1>3. m \in Nat
  BY <1>2, MinusIs
<1>4. PostDone(c, r, <<>>, "SERVE_HEADERS") \/ NeedData(c, r, <<>>)
  BY Zenon DEF UploadRefused
<1> HIDE DEF m
<1>5. r \in Record /\ r.httpStatus = "MPFS_ERROR"
  BY <1>1, <1>2, <1>3, Zenon DEF Record
<1> HIDE DEF r
<1>6. <<>> \in Stream /\ Len(<<>>) <= Len(net[c].rx)
  BY <1>2 DEF Stream, Ready
<1>7. net[c].st = "open" => \A k : AtPost(k, r, client[c].asked)
  <2>1. net[c].st = "open" => AtPost(net[c], curHTTP, client[c].asked)
    BY <1>1, HearsAtWork DEF Followed
  <2>2. net[c].st = "open" => client[c].asked = "badimage"
    BY <1>1, <2>1, PostIs
  <2> QED
    BY <1>5, <2>2 DEF AtPost
<1>8. PICK k : k = [net[c] EXCEPT !.rx = <<>>]
  OBVIOUS
<1>9. net[c].st = "open" => AtPost(k, r, client[c].asked)
  BY <1>7
<1> QED
  BY <1>1, <1>4, <1>5, <1>6, <1>8, <1>9, PostHears

-----------------------------------------------------------------------------
(* Nothing is heard while the answer is sent.                               *)

LEMMA QuietAnswers ==
  ASSUME HTTPInv, RequestInv, NEW c \in Conns, turn = <<c, "process">>, sm[c] # "IDLE",
         NEW s \in Quiet, s # "IDLE", sm' = [sm EXCEPT ![c] = s], Again \/ Done(c), UNCHANGED Loaded,
         NEW k, net' = [net EXCEPT ![c] = k], k.st = net[c].st, k.wasReset = net[c].wasReset,
         k.rx \in {net[c].rx, <<>>}, NEW chunks \in Seq(Words), Answer(c, chunks)
  PROVE  RequestInv'
<1>1. PICK a \in Client : /\ client' = [client EXCEPT ![c] = a]
                          /\ a.asked = client[c].asked /\ a.over = client[c].over
  BY AnswerIs
<1>2. Steps(c, s, k, curHTTP')
  BY DEF Steps, Again, Done, Loaded
<1>3. /\ s # "IDLE" /\ k.st = net[c].st /\ k.wasReset = net[c].wasReset
      /\ k.rx \in {net[c].rx, <<>>} \/ net[c].st = "open"
      /\ a.asked = client[c].asked /\ a.over = client[c].over
  BY <1>1
<1> QED
  BY <1>1, <1>2, <1>3, QuietStep

LEMMA FillIs ==
  ASSUME HTTPInv, NEW c \in Conns, NEW n, Fill(c, n)
  PROVE  \E k : /\ net' = [net EXCEPT ![c] = k] /\ k.st = net[c].st
                /\ k.wasReset = net[c].wasReset /\ k.rx = net[c].rx
<1> DEFINE room == IF net[c].room < n THEN 0 ELSE net[c].room - n
           k == [net[c] EXCEPT !.room = room]
<1>1. net[c] \in Socket
  BY DEF HTTPInv, Sockets
<1>2. net' = [net EXCEPT ![c] = k]
  BY DEF Fill
<1> HIDE DEF room
<1>3. k.st = net[c].st /\ k.wasReset = net[c].wasReset /\ k.rx = net[c].rx
  BY <1>1, Zenon DEF Socket
<1> QED
  BY <1>2, <1>3, Zenon

LEMMA WordsAre ==
  /\ \A chunks \in Seq(Chunks) : chunks \in Seq(Words)
  /\ \A status \in Status : <<status>> \in Seq(Words)
  /\ <<"cookie">> \in Seq(Words) /\ <<"!DEF">> \in Seq(Words) /\ <<>> \in Seq(Words)
<1>1. Chunks \subseteq Words /\ Status \subseteq Words /\ "cookie" \in Words /\ "!DEF" \in Words
  BY DEF Words
<1>2. ASSUME NEW chunks \in Seq(Chunks) PROVE chunks \in Seq(Words)
  <2>1. Len(chunks) \in Nat /\ DOMAIN chunks = 1 .. Len(chunks)
    BY LenProperties
  <2>2. \A i \in 1 .. Len(chunks) : chunks[i] \in Words
    BY <1>1, ElementOfSeq
  <2>3. chunks = [i \in 1 .. Len(chunks) |-> chunks[i]]
    BY SeqDef
  <2> QED
    BY <2>1, <2>2, <2>3, IsASeq
<1>3. \A w \in Words : <<w>> \in Seq(Words)
  OBVIOUS
<1> QED
  BY <1>1, <1>2, <1>3

LEMMA QuietAre ==
  {"SERVE_HEADERS", "SERVE_COOKIES", "SERVE_BODY", "SEND_FROM_CALLBACK", "DISCONNECT"}
     \subseteq Quiet \ {"IDLE"}
<1> SUFFICES ASSUME NEW s \in {"SERVE_HEADERS", "SERVE_COOKIES", "SERVE_BODY",
                               "SEND_FROM_CALLBACK", "DISCONNECT"}
             PROVE  s \in Quiet \ {"IDLE"}
  OBVIOUS
<1>1. s \in States
  BY StatesAre
<1>2. s \notin Headers \cup {"PARSE_REQUEST", "PROCESS_REQUEST", "IDLE"}
  BY DEF Headers
<1> QED
  BY <1>1, <1>2 DEF Quiet

LEMMA ProcessRequestHears ==
  ASSUME HTTPInv, RequestInv, NEW c \in Conns, ProcessRequest(c)
  PROVE  RequestInv'
<1>1. /\ turn = <<c, "process">> /\ sm[c] = "PROCESS_REQUEST" /\ UNCHANGED <<Loaded, net, client>>
      /\ sm' = [sm EXCEPT ![c] = "SERVE_HEADERS"] /\ turn' = turn
  BY Zenon DEF ProcessRequest, At, Goto, Again
<1>2. Steps(c, "SERVE_HEADERS", net[c], curHTTP')
  BY <1>1, StaysWhere DEF Steps, Loaded
<1>3. "SERVE_HEADERS" \in Quiet /\ "SERVE_HEADERS" # "IDLE" /\ sm[c] # "IDLE"
  BY <1>1, QuietAre
<1> QED
  BY <1>1, <1>2, <1>3, QuietReads

LEMMA ServeHeadersHears ==
  ASSUME HTTPInv, RequestInv, NEW c \in Conns, ServeHeaders(c)
  PROVE  RequestInv'
<1> DEFINE k == [net[c] EXCEPT !.rx = <<>>]
<1>1. /\ turn = <<c, "process">> /\ sm[c] = "SERVE_HEADERS" /\ UNCHANGED Loaded
      /\ net' = [net EXCEPT ![c] = k] /\ Answer(c, <<curHTTP.httpStatus>>)
  BY Zenon DEF ServeHeaders, At
<1>2. PICK s \in {"DISCONNECT", "SERVE_COOKIES", "SERVE_BODY"} :
        sm' = [sm EXCEPT ![c] = s] /\ (Again \/ Done(c))
  BY DEF ServeHeaders, Goto
<1>3. <<curHTTP.httpStatus>> \in Seq(Words)
  <2>1. curHTTP.httpStatus \in Status
    BY <1>1, AtWork DEF RecordOK, Record
  <2> QED
    BY <2>1, WordsAre
<1>4. k.st = net[c].st /\ k.wasReset = net[c].wasReset /\ k.rx = <<>>
  <2>1. <<>> \in Stream
    BY DEF Stream
  <2> QED
    BY <2>1, SocketReads
<1>5. s \in Quiet /\ s # "IDLE" /\ sm[c] # "IDLE"
  BY <1>1, <1>2, QuietAre
<1> HIDE DEF k
<1> QED
  BY <1>1, <1>2, <1>3, <1>4, <1>5, QuietAnswers

\* The other steps of an answer send chunks and leave the request alone.
LEMMA AnswerHears ==
  ASSUME HTTPInv, RequestInv, NEW c \in Conns, turn = <<c, "process">>, sm[c] # "IDLE",
         NEW s \in {"SERVE_BODY", "SEND_FROM_CALLBACK", "DISCONNECT"},
         Goto(c, s) \/ (sm[c] = s /\ sm' = sm),
         Again \/ Done(c), UNCHANGED Loaded, NEW chunks \in Seq(Words), Answer(c, chunks),
         net' = net \/ \E n : Fill(c, n)
  PROVE  RequestInv'
<1>1. PICK k : /\ net' = [net EXCEPT ![c] = k] /\ k.st = net[c].st
               /\ k.wasReset = net[c].wasReset /\ k.rx = net[c].rx
  BY StaysWhere, FillIs
<1>2. sm' = [sm EXCEPT ![c] = s]
  BY StaysWhere DEF Goto
<1>3. s \in Quiet /\ s # "IDLE"
  BY QuietAre
<1>4. k.rx \in {net[c].rx, <<>>}
  BY <1>1
<1> QED
  BY <1>1, <1>2, <1>3, <1>4, QuietAnswers

LEMMA ServeCookiesHears ==
  ASSUME HTTPInv, RequestInv, NEW c \in Conns, ServeCookies(c)
  PROVE  RequestInv'
<1>1. /\ turn = <<c, "process">> /\ sm[c] # "IDLE" /\ UNCHANGED Loaded /\ net' = net
      /\ Answer(c, <<"cookie">>) /\ Goto(c, "SERVE_BODY") /\ Again
  BY DEF ServeCookies, At
<1> QED
  BY <1>1, WordsAre, AnswerHears

LEMMA SendHears ==
  ASSUME HTTPInv, RequestInv, NEW c \in Conns,
         SendLast(c) \/ SendSome(c) \/ SendToCallback(c) \/ CallbackUnknown(c)
  PROVE  RequestInv'
<1>1. turn = <<c, "process">> /\ sm[c] # "IDLE" /\ UNCHANGED Loaded
  BY DEF SendLast, SendSome, SendToCallback, CallbackUnknown, At
<1>2. Got(c).data \in Seq(Words)
  BY <1>1, SendsWhat, WordsAre
<1>3. CASE SendLast(c)
  <2>1. /\ Answer(c, Got(c).data) /\ Fill(c, Len(Got(c).data)) /\ Goto(c, "DISCONNECT") /\ Done(c)
    BY <1>3 DEF SendLast
  <2> QED
    BY <1>1, <1>2, <2>1, AnswerHears
<1>4. CASE SendSome(c)
  <2>1. /\ Answer(c, Got(c).data) /\ Fill(c, Wanted(c)) /\ sm' = sm /\ sm[c] = "SERVE_BODY"
        /\ Again \/ Done(c)
    BY <1>4 DEF SendSome, At
  <2> QED
    BY <1>1, <1>2, <2>1, AnswerHears
<1>5. CASE SendToCallback(c)
  <2>1. /\ Answer(c, Got(c).data) /\ Fill(c, Wanted(c)) /\ Goto(c, "SEND_FROM_CALLBACK")
        /\ Again \/ Done(c)
    BY <1>5 DEF SendToCallback
  <2> QED
    BY <1>1, <1>2, <2>1, AnswerHears
<1>6. CASE CallbackUnknown(c)
  <2>1. /\ Answer(c, <<"!DEF">>) /\ Fill(c, 1) /\ Goto(c, "SERVE_BODY") /\ Again
    BY <1>6 DEF CallbackUnknown
  <2> QED
    BY <1>1, <2>1, WordsAre, AnswerHears
<1> QED
  BY <1>3, <1>4, <1>5, <1>6

LEMMA CallbackHears ==
  ASSUME HTTPInv, RequestInv, NEW c \in Conns, CallbackEnds(c) \/ CallbackPauses(c)
  PROVE  RequestInv'
<1> DEFINE open == MPFSSeek(Included.fs, Included.h, curHTTP.callbackPos.pos)
           part == MPFSGetArray(open, Included.h, PutReady(c))
<1>1. turn = <<c, "process">> /\ sm[c] = "SEND_FROM_CALLBACK" /\ UNCHANGED Loaded
  BY Zenon DEF CallbackEnds, CallbackPauses, At
<1>2. Included.h # MPFS_INVALID_HANDLE => part.data \in Seq(Words)
  <2>1. PutReady(c) \in Nat
    BY <1>1, SendsWhat
  <2>2. Included.h # MPFS_INVALID_HANDLE => part.data \in Seq(Chunks)
    BY <1>1, <2>1, IncludedIs
  <2> QED
    BY <2>2, WordsAre
<1>3. CASE CallbackEnds(c)
  <2>1. /\ Goto(c, "SERVE_BODY") /\ Again
        /\ \/ Answer(c, <<>>) /\ net' = net
           \/ /\ Included.h # MPFS_INVALID_HANDLE /\ Answer(c, part.data)
              /\ \E n : Fill(c, n)
    BY <1>3, Zenon DEF CallbackEnds
  <2> HIDE DEF part
  <2> QED
    BY <1>1, <1>2, <2>1, WordsAre, AnswerHears
<1>4. CASE CallbackPauses(c)
  <2>1. /\ Done(c) /\ sm' = sm
        /\ \/ net' = net /\ client' = client
           \/ /\ Included.h # MPFS_INVALID_HANDLE /\ Answer(c, part.data)
              /\ \E n : Fill(c, n)
    BY <1>4, Zenon DEF CallbackPauses
  <2> HIDE DEF part
  <2>2. CASE net' = net /\ client' = client
    <3>1. Steps(c, "SEND_FROM_CALLBACK", net[c], curHTTP')
      BY <1>1, <2>1, <2>2, StaysWhere DEF Steps, Done, Loaded
    <3>2. "SEND_FROM_CALLBACK" \in Quiet /\ "SEND_FROM_CALLBACK" # "IDLE" /\ sm[c] # "IDLE"
      BY <1>1, QuietAre
    <3> QED
      BY <2>2, <3>1, <3>2, QuietReads
  <2>3. CASE Included.h # MPFS_INVALID_HANDLE /\ Answer(c, part.data) /\ \E n : Fill(c, n)
    BY <1>1, <1>2, <2>1, <2>3, AnswerHears
  <2> QED
    BY <2>1, <2>2, <2>3
<1> QED
  BY <1>3, <1>4

LEMMA DisconnectHears ==
  ASSUME HTTPInv, RequestInv, NEW c \in Conns, Disconnect(c)
  PROVE  RequestInv'
<1> DEFINE a == IF net[c].st = "open" THEN [client[c] EXCEPT !.over = TRUE] ELSE NoClient
<1>1. /\ turn = <<c, "process">> /\ sm[c] = "DISCONNECT" /\ UNCHANGED Loaded
      /\ Goto(c, "IDLE") /\ Done(c) /\ net' = [net EXCEPT ![c] = TCPDisconnect(@)]
      /\ client' = [client EXCEPT ![c] = a]
  BY DEF Disconnect, At
<1>2. a \in Client
  <2>1. client[c] \in Client
    BY DEF RequestInv
  <2>2. [client[c] EXCEPT !.over = TRUE] \in Client
    BY <2>1, Zenon DEF Client
  <2>3. NoClient \in Client
    <3>1. "none" \in DOMAIN Answers /\ <<>> \in Seq(Words)
      BY DEF Answers
    <3> QED
      BY <3>1 DEF NoClient, Client
  <2> QED
    BY <2>2, <2>3
<1> HIDE DEF a
<1>3. Steps(c, "IDLE", TCPDisconnect(net[c]), curHTTP')
  BY <1>1 DEF Steps, Goto, Done, Loaded
<1>4. "IDLE" \in Quiet
  BY StatesAre DEF Quiet, Headers
<1> QED
  BY <1>1, <1>2, <1>3, <1>4, QuietStep

-----------------------------------------------------------------------------
(* What is heard between two steps of HTTPProcess().                        *)

LEMMA HearsMoves ==
  ASSUME HTTPInv, RequestInv, NEW c \in Conns, NEW s, NEW k, NEW r, NEW a \in Client,
         sm' = [sm EXCEPT ![c] = s], net' = [net EXCEPT ![c] = k],
         Records' = [Records EXCEPT ![c] = r], client' = [client EXCEPT ![c] = a],
         Hears(c, s, k, r, a),
         \A d \in Conns : turn' = <<d, "process">> /\ net'[d].st = "open" => ~ net'[d].wasReset
  PROVE  RequestInv'
<1>1. /\ sm'[c] = s /\ net'[c] = k /\ Records'[c] = r /\ client'[c] = a
      /\ \A d \in Conns : d # c => /\ sm'[d] = sm[d] /\ net'[d] = net[d]
                                   /\ Records'[d] = Records[d] /\ client'[d] = client[d]
  BY DEF HTTPInv, Control, Sockets, RequestInv, Records
<1>2. client' \in [Conns -> Client]
  BY DEF RequestInv
<1>3. \A d \in Conns : Hears(d, sm'[d], net'[d], Records'[d], client'[d])
  BY <1>1, Zenon DEF RequestInv
<1> QED
  BY <1>2, <1>3, Zenon DEF RequestInv

LEMMA ForgetResetHears ==
  ASSUME HTTPInv, RequestInv, NEW c \in Conns, ForgetReset(c)
  PROVE  RequestInv'
<1> DEFINE no == FALSE
           k == [net[c] EXCEPT !.wasReset = no]
           r == NewConn
<1>1. /\ turn = <<c, "check">> /\ turn' = turn /\ net[c].wasReset /\ HTTPLoadConn(c)
      /\ sm' = [sm EXCEPT ![c] = "IDLE"] /\ curHTTP' = r
      /\ net' = [net EXCEPT ![c] = k] /\ client' = client
  BY DEF ForgetReset, Goto, ClosedFiles
<1>2. k.st = net[c].st /\ k.wasReset = no /\ k.rx = net[c].rx /\ k.ask = net[c].ask
  <2> HIDE DEF no
  <2>1. net[c] \in Socket
    BY DEF HTTPInv, Sockets
  <2> QED
    BY <2>1, Zenon DEF Socket
<1>3. ~ k.wasReset
  BY <1>2
<1> HIDE DEF k, r
<1>4. Records' = [Records EXCEPT ![c] = r]
  BY <1>1, LoadIs
<1>5. \A d \in Conns : turn' # <<d, "process">>
  BY <1>1, TurnIs
<1>6. Hears(c, sm[c], net[c], Records[c], client[c])
  BY DEF RequestInv
<1>7. Hears(c, "IDLE", k, r, client[c])
  <2>1. CASE net[c].st = "open"
    <3>1. /\ client[c].asked \in Kinds[c] /\ ~ client[c].over
          /\ Ahead(net[c]) = Request[client[c].asked]
      BY <1>1, <1>6, <2>1 DEF Hears
    <3>2. Followed("IDLE", k, r, client[c].asked)
      <4>1. Ahead(k) = Request[client[c].asked]
        BY <1>2, <3>1 DEF Ahead
      <4> QED
        BY <4>1 DEF Followed
    <3> QED
      BY <1>2, <1>3, <2>1, <3>1, <3>2 DEF Hears
  <2>2. CASE net[c].st # "open"
    <3>1. Deaf(sm[c], net[c])
      BY <1>6, <2>2 DEF Hears
    <3>2. Deaf("IDLE", k)
      BY <1>2, <3>1 DEF Deaf, Headers
    <3> QED
      BY <1>2, <2>2, <3>2 DEF Hears
  <2> QED
    BY <2>1, <2>2
<1> QED
  BY <1>1, <1>4, <1>5, <1>7, StaysWhere, HearsMoves

LEMMA EligibleHears ==
  ASSUME HTTPInv, RequestInv, NEW c \in Conns, Eligible(c)
  PROVE  RequestInv'
<1>1. /\ turn' = <<c, "process">> /\ ~ net[c].wasReset /\ HTTPLoadConn(c)
      /\ curHTTP' = Records[c] /\ sm' = sm /\ net' = net /\ client' = client
  BY DEF Eligible, Records
<1>2. Records' = [Records EXCEPT ![c] = Records[c]]
  BY <1>1, LoadIs
<1>3. \A d \in Conns : turn' = <<d, "process">> => ~ net'[d].wasReset
  BY <1>1, TurnIs
<1>4. Hears(c, sm[c], net[c], Records[c], client[c]) /\ client[c] \in Client
  BY DEF RequestInv
<1>5. /\ sm' = [sm EXCEPT ![c] = sm[c]] /\ net' = [net EXCEPT ![c] = net[c]]
      /\ client' = [client EXCEPT ![c] = client[c]]
  BY <1>1, StaysWhere
<1> QED
  BY <1>2, <1>3, <1>4, <1>5, HearsMoves

LEMMA PassHears ==
  ASSUME HTTPInv, RequestInv, UNCHANGED <<sm, curHTTP, curHTTPID, http_memory, net, client>>,
         \A d \in Conns : turn' # <<d, "process">>
  PROVE  RequestInv'
<1>1. Records' = Records
  BY RecordsStay
<1> QED
  BY <1>1 DEF RequestInv

LEMMA SkipHears ==
  ASSUME HTTPInv, RequestInv, NEW c \in Conns, Skip(c)
  PROVE  RequestInv'
<1>1. \A d \in Conns : turn' # <<d, "process">>
  BY AfterIs DEF Skip
<1> QED
  BY <1>1, PassHears DEF Skip

LEMMA StartPassHears ==
  ASSUME HTTPInv, RequestInv, StartPass
  PROVE  RequestInv'
<1>1. \A d \in Conns : turn' # <<d, "process">>
  BY DEF StartPass
<1> QED
  BY <1>1, PassHears DEF StartPass

-----------------------------------------------------------------------------
(* What is heard of the clients.                                            *)

LEMMA ClientHears ==
  ASSUME HTTPInv, RequestInv, NEW c \in Conns, turn = Stack, UNCHANGED ServerSide,
         NEW k, net' = [net EXCEPT ![c] = k], NEW a \in Client, client' = [client EXCEPT ![c] = a],
         Hears(c, sm[c], k, Records[c], a)
  PROVE  RequestInv'
<1>1. Records' = Records /\ Records = [Records EXCEPT ![c] = Records[c]]
  BY RecordsStay DEF ServerSide, Records
<1>2. sm' = [sm EXCEPT ![c] = sm[c]]
  BY StaysWhere DEF ServerSide
<1>3. \A d \in Conns : turn' # <<d, "process">>
  BY TurnIs DEF ServerSide
<1> QED
  BY <1>1, <1>2, <1>3, HearsMoves

LEMMA NoClientIs ==
  NoClient \in Client /\ NoClient.answer = <<>> /\ NoClient.asked = "none" /\ ~ NoClient.over
<1>1. "none" \in DOMAIN Answers /\ <<>> \in Seq(Words)
  BY DEF Answers
<1> QED
  BY <1>1 DEF NoClient, Client

LEMMA ConnectHears ==
  ASSUME HTTPInv, RequestInv, NEW c \in Conns, Connect(c)
  PROVE  RequestInv'
<1>1. PICK kind \in Kinds[c] :
        /\ net' = [net EXCEPT ![c].st = "open", ![c].ask = Request[kind], ![c].room = TxSize]
        /\ client' = [client EXCEPT ![c] = [NoClient EXCEPT !.asked = kind]]
  BY Zenon DEF Connect
<1> DEFINE ask == Request[kind]
           k == [net[c] EXCEPT !.st = "open", !.ask = ask, !.room = TxSize]
           a == [NoClient EXCEPT !.asked = kind]
<1>2. kind \in DOMAIN Request /\ ask \in Stream
  BY KindsAssumption, RequestsAsk
<1>3. SocketOK(net[c]) /\ net[c].rx = <<>> /\ net[c].st = "closed"
  BY DEF HTTPInv, Sockets, SocketOK, Connect
<1>4. net' = [net EXCEPT ![c] = k]
  BY <1>1
<1>5. a \in Client /\ a.asked = kind /\ ~ a.over
  <2>1. kind \in DOMAIN Answers
    BY <1>2 DEF Request, Answers
  <2>2. NoClient \in [asked : DOMAIN Answers, answer : Seq(Words), over : BOOLEAN]
    BY NoClientIs DEF Client
  <2>3. a \in [asked : DOMAIN Answers, answer : Seq(Words), over : BOOLEAN]
        /\ a.asked = kind /\ a.over = NoClient.over
    <3> HIDE DEF NoClient
    <3> QED
      BY <2>1, <2>2, Zenon
  <2> QED
    BY <2>3, NoClientIs DEF Client
<1> HIDE DEF ask, a
<1>6. k.st = "open" /\ k.ask = ask /\ k.rx = net[c].rx /\ k.wasReset = net[c].wasReset
  BY <1>3, Zenon DEF SocketOK, Socket
<1> HIDE DEF k
<1>7. Ahead(k) = Request[kind]
  BY <1>2, <1>3, <1>6, ConcatEmptySeq DEF Stream, Ahead, ask
<1>8. ~ net[c].wasReset => sm[c] = "IDLE"
  BY <1>3 DEF RequestInv, Hears, Deaf
<1>9. sm[c] = "IDLE" => Followed(sm[c], k, Records[c], kind)
  BY <1>7 DEF Followed
<1>10. Hears(c, sm[c], k, Records[c], a)
  BY <1>1, <1>5, <1>6, <1>7, <1>8, <1>9, Zenon DEF Hears
<1>11. client' = [client EXCEPT ![c] = a]
  BY <1>1 DEF a
<1> QED
  BY <1>4, <1>5, <1>10, <1>11, ClientHears DEF Connect

\* A request is followed whichever part of it is in the FIFO.
LEMMA FollowedSame ==
  ASSUME NEW s, NEW k, NEW r, NEW kind, Followed(s, k, r, kind), NEW k2, Ahead(k2) = Ahead(k)
  PROVE  Followed(s, k2, r, kind)
<1>1. \A p : Heard(k2, kind, p) <=> Heard(k, kind, p)
  BY DEF Heard
<1>2. AtHeaders(k, r, kind) => AtHeaders(k2, r, kind)
  BY <1>1, Zenon DEF AtHeaders, Counted
<1>3. AtBody(k, r, kind) => AtBody(k2, r, kind)
  BY <1>1, Zenon DEF AtBody, Counted
<1>4. AtPost(k, r, kind) => AtPost(k2, r, kind)
  BY <1>1, <1>3, Zenon DEF AtPost
<1> QED
  BY <1>2, <1>3, <1>4, Zenon DEF Followed

LEMMA AheadHears ==
  ASSUME HTTPInv, RequestInv, NEW c \in Conns, turn = Stack, UNCHANGED ServerSide,
         client' = client, NEW k, net' = [net EXCEPT ![c] = k], net[c].st = "open",
         k.st = "open", k.wasReset = net[c].wasReset, Ahead(k) = Ahead(net[c])
  PROVE  RequestInv'
<1>1. Hears(c, sm[c], net[c], Records[c], client[c])
  BY DEF RequestInv
<1>2. Followed(sm[c], net[c], Records[c], client[c].asked)
        => Followed(sm[c], k, Records[c], client[c].asked)
  BY FollowedSame
<1>3. Hears(c, sm[c], k, Records[c], client[c])
  BY <1>1, <1>2, Zenon DEF Hears
<1> QED
  BY <1>3, StaysWhere, ClientHears

LEMMA SendHearsMore ==
  ASSUME HTTPInv, RequestInv, NEW c \in Conns, Send(c) \/ Drain(c)
  PROVE  RequestInv'
<1>1. turn = Stack /\ UNCHANGED ServerSide /\ client' = client
  BY DEF Send, Drain
<1>2. CASE Send(c)
  BY <1>1, <1>2, SendIs, AheadHears DEF Ahead
<1>3. CASE Drain(c)
  <2> DEFINE k == [net[c] EXCEPT !.room = TxSize]
  <2>1. net' = [net EXCEPT ![c] = k] /\ net[c].st = "open" /\ net[c] \in Socket
    BY <1>3 DEF Drain, HTTPInv, Sockets
  <2>2. /\ k.st = net[c].st /\ k.rx = net[c].rx /\ k.ask = net[c].ask
        /\ k.wasReset = net[c].wasReset
    BY <2>1, Zenon DEF Socket
  <2> HIDE DEF k
  <2> QED
    BY <1>1, <2>1, <2>2, AheadHears DEF Ahead
<1> QED
  BY <1>2, <1>3

LEMMA LeaveHears ==
  ASSUME HTTPInv, RequestInv, NEW c \in Conns, SendMore(c) \/ HalfClose(c) \/ Gone(c)
  PROVE  RequestInv'
<1>1. turn = Stack /\ UNCHANGED ServerSide
  BY Zenon DEF SendMore, HalfClose, Gone
<1>2. ASSUME NEW k, net' = [net EXCEPT ![c] = k], k.st # "open", Deaf(sm[c], k),
             client' \in {client, [client EXCEPT ![c] = NoClient]}
      PROVE  RequestInv'
  <2>1. PICK a \in Client : client' = [client EXCEPT ![c] = a]
    BY <1>2, NoClientIs, StaysWhere
  <2> QED
    BY <1>1, <1>2, <2>1, ClientHears DEF Hears
<1>3. CASE SendMore(c)
  <2> DEFINE rx == <<"half">>
             k == [net[c] EXCEPT !.rx = rx]
  <2>1. /\ net' = [net EXCEPT ![c] = k] /\ net[c].st = "closing" /\ sm[c] = "IDLE"
        /\ client' = client
    BY <1>3 DEF SendMore
  <2>2. rx \in Stream /\ \A i \in 1 .. Len(rx) : rx[i] = "half"
    BY DEF Stream, Tokens
  <2> HIDE DEF rx
  <2>3. k.st = net[c].st /\ k.rx = rx
    BY <2>2, SocketReads
  <2> HIDE DEF k
  <2>4. Deaf(sm[c], k)
    BY <2>1, <2>2, <2>3 DEF Deaf, Headers
  <2> QED
    BY <1>2, <2>1, <2>3, <2>4
<1>4. CASE HalfClose(c) \/ Gone(c)
  <2>1. PICK k : /\ net' = [net EXCEPT ![c] = k] /\ client' = [client EXCEPT ![c] = NoClient]
                 /\ k = TCPDisconnect(net[c]) \/ k = Reset(net[c])
    BY <1>4 DEF HalfClose, Gone
  <2>2. k.rx = <<>> /\ k.st # "open" /\ (k.st = "closed" => k.wasReset)
    BY <2>1 DEF TCPDisconnect, Reset, ClosedSocket
  <2>3. Deaf(sm[c], k)
    BY <2>2 DEF Deaf
  <2> QED
    BY <1>2, <2>1, <2>2, <2>3
<1> QED
  BY <1>3, <1>4

LEMMA RequestInit ==
  HTTPInit => RequestInv
<1> SUFFICES ASSUME HTTPInit PROVE RequestInv
  OBVIOUS
<1>1. /\ turn = Stack /\ sm = [c \in Conns |-> "IDLE"]
      /\ net = [c \in Conns |-> ClosedSocket] /\ client = [c \in Conns |-> NoClient]
  BY DEF HTTPInit
<1>2. client \in [Conns -> Client]
  BY <1>1, NoClientIs
<1>3. ClosedSocket.st = "closed" /\ Deaf("IDLE", ClosedSocket)
  BY DEF ClosedSocket, Deaf, Headers
<1>4. \A c \in Conns : Hears(c, sm[c], net[c], Records[c], client[c])
  BY <1>1, <1>3 DEF Hears
<1>5. \A c \in Conns : turn # <<c, "process">>
  BY <1>1, TurnIs
<1> QED
  BY <1>2, <1>4, <1>5 DEF RequestInv

LEMMA RequestNext ==
  HTTPInv /\ RequestInv /\ [HTTPNext]_httpVars => RequestInv'
<1> SUFFICES ASSUME HTTPInv, RequestInv, [HTTPNext]_httpVars PROVE RequestInv'
  OBVIOUS
<1>1. CASE StartPass
  BY <1>1, StartPassHears
<1>2. ASSUME NEW c \in Conns, Check(c) PROVE RequestInv'
  BY <1>2, ForgetResetHears, EligibleHears, SkipHears DEF Check
<1>3. ASSUME NEW c \in Conns, Parse(c) PROVE RequestInv'
  BY <1>3, IdleHears, WaitForLineHears, ParseRequestHears, ParseHeadersHears,
     AuthenticateHears, ProcessGetHears DEF Parse
<1>4. ASSUME NEW c \in Conns, Post(c) PROVE RequestInv'
  BY <1>4, PostTimeoutHears, NoPostHears, ExecutePostHears, UploadStartHears,
     UploadWriteHears, UploadRefusedHears DEF Post
<1>5. ASSUME NEW c \in Conns, Serve(c) PROVE RequestInv'
  BY <1>5, ProcessRequestHears, ServeHeadersHears, ServeCookiesHears, SendHears,
     CallbackHears, DisconnectHears DEF Serve
<1>6. ASSUME NEW c \in Conns, Clients(c) PROVE RequestInv'
  BY <1>6, ConnectHears, SendHearsMore, LeaveHears DEF Clients
<1>7. CASE UNCHANGED httpVars
  <2>1. /\ turn' = turn /\ sm' = sm /\ curHTTP' = curHTTP /\ curHTTPID' = curHTTPID
        /\ http_memory' = http_memory /\ net' = net /\ client' = client
    BY <1>7 DEF httpVars
  <2>2. Records' = Records
    BY <2>1, RecordsStay
  <2> QED
    BY <2>1, <2>2 DEF RequestInv
<1> QED
  BY <1>1, <1>2, <1>3, <1>4, <1>5, <1>6, <1>7 DEF HTTPNext, HTTPServer

-----------------------------------------------------------------------------
(* What an operation of the file system leaves alone.                       *)

\* Nothing but the handles in X, and those that were closed, is touched.
Apart(f, g, X) ==
  /\ g.locked = f.locked /\ g.image = f.image /\ g.numFiles = f.numFiles
  /\ \A h \in OpenIn(f) \ X : g.stubs[h] = f.stubs[h]

LEMMA ApartSame ==
  ASSUME NEW f, NEW X
  PROVE  Apart(f, f, X)
BY DEF Apart

LEMMA ApartBoth ==
  ASSUME NEW f, NEW g, NEW k, NEW X, Apart(f, g, X), Apart(g, k, X)
  PROVE  Apart(f, k, X)
<1>1. \A h \in OpenIn(f) \ X : h \in OpenIn(g) \ X
  BY Zenon DEF Apart, OpenIn, IsOpen
<1> QED
  BY <1>1, Zenon DEF Apart

LEMMA ApartMore ==
  ASSUME NEW f, NEW g, NEW X, NEW Y, Apart(f, g, X), X \subseteq Y
  PROVE  Apart(f, g, Y)
BY DEF Apart

LEMMA ApartStub ==
  ASSUME NEW f, FilesOK(f), NEW h \in Handles, NEW stub, NEW g, g = WithStub(f, h, stub)
  PROVE  /\ g.locked = f.locked /\ g.image = f.image /\ g.numFiles = f.numFiles
         /\ g.stubs[h] = stub /\ \A i \in Handles : i # h => g.stubs[i] = f.stubs[i]
<1> DEFINE stubs == [f.stubs EXCEPT ![h] = stub]
<1>1. f \in FileSystem /\ f.stubs \in [Handles -> File]
  BY DEF FilesOK, FileSystem
<1>2. g = [f EXCEPT !.stubs = stubs]
  BY DEF WithStub
<1>3. stubs[h] = stub /\ \A i \in Handles : i # h => stubs[i] = f.stubs[i]
  BY <1>1
<1> HIDE DEF stubs
<1>4. g.stubs = stubs /\ g.locked = f.locked /\ g.image = f.image /\ g.numFiles = f.numFiles
  BY <1>1, <1>2, Zenon DEF FileSystem
<1> QED
  BY <1>3, <1>4, Zenon

LEMMA ApartOpened ==
  ASSUME NEW f, FilesOK(f), NEW id, NEW r, r = Opened(f, id), NEW X
  PROVE  Apart(f, r.fs, X)
<1> DEFINE h == FreeHandle(f)
           stub == [id |-> id, pos |-> 0]
           g == WithStub(f, h, stub)
<1>1. CASE f.locked \/ id > f.numFiles \/ h = MPFS_INVALID_HANDLE
  <2>1. r = [fs |-> f, h |-> MPFS_INVALID_HANDLE]
    BY <1>1, Zenon DEF Opened
  <2> QED
    BY <2>1, ApartSame
<1>2. CASE ~ (f.locked \/ id > f.numFiles \/ h = MPFS_INVALID_HANDLE)
  <2>1. r = [fs |-> [f EXCEPT !.stubs[h] = stub], h |-> h]
    BY <1>2, Zenon DEF Opened
  <2>2. r = [fs |-> g, h |-> h]
    BY <2>1, Zenon DEF WithStub
  <2>3. h \in Handles /\ ~ IsOpen(f, h)
    BY <1>2, FreeHandleIs
  <2> HIDE DEF h, stub
  <2>4. /\ g.locked = f.locked /\ g.image = f.image /\ g.numFiles = f.numFiles
        /\ \A i \in Handles : i # h => g.stubs[i] = f.stubs[i]
    BY <2>3, ApartStub
  <2> HIDE DEF g
  <2>5. r.fs = g
    BY <2>2
  <2> QED
    BY <2>3, <2>4, <2>5, Zenon DEF Apart, OpenIn
<1> QED
  BY <1>1, <1>2

LEMMA ApartClosed ==
  ASSUME NEW f, FilesOK(f), NEW h, NEW g, g = MPFSClose(f, h)
  PROVE  Apart(f, g, {h})
<1>1. CASE h \in Handles
  <2>1. g = WithStub(f, h, Closed)
    BY <1>1, Zenon DEF MPFSClose, WithStub
  <2>2. /\ g.locked = f.locked /\ g.image = f.image /\ g.numFiles = f.numFiles
        /\ \A i \in Handles : i # h => g.stubs[i] = f.stubs[i]
    BY <1>1, <2>1, ApartStub
  <2> QED
    BY <2>2 DEF Apart, OpenIn
<1>2. CASE h \notin Handles
  <2>1. g = f
    BY <1>2, Zenon DEF MPFSClose
  <2> QED
    BY <2>1, ApartSame
<1> QED
  BY <1>1, <1>2

LEMMA ApartRead ==
  ASSUME NEW f, FilesOK(f), NEW h, NEW n \in Nat, NEW r, r = MPFSGetArray(f, h, n)
  PROVE  Apart(f, r.fs, {h})
<1> DEFINE len == Min({n, Remaining(f, h)})
           stub == [f.stubs[h] EXCEPT !.pos = @ + len]
           g == WithStub(f, h, stub)
           got == SubSeq(Fat[f.stubs[h].id].data, f.stubs[h].pos + 1, f.stubs[h].pos + len)
<1>1. CASE len = 0
  <2>1. r = [fs |-> f, data |-> <<>>]
    BY <1>1, Zenon DEF MPFSGetArray
  <2> QED
    BY <2>1, ApartSame
<1>2. CASE len # 0
  <2>1. IsOpen(f, h)
    <3> SUFFICES ASSUME ~ IsOpen(f, h) PROVE FALSE
      OBVIOUS
    <3>1. Remaining(f, h) = 0
      BY Zenon DEF Remaining
    <3> QED
      BY <1>2, <3>1, LesserOfTwo
  <2>2. r = [fs |-> [f EXCEPT !.stubs[h].pos = @ + len], data |-> got]
    BY <1>2, Zenon DEF MPFSGetArray
  <2>3. g = [f EXCEPT !.stubs[h].pos = @ + len]
    BY DEF WithStub
  <2> HIDE DEF stub, got, len
  <2>4. h \in Handles
    BY <2>1 DEF IsOpen
  <2>5. /\ g.locked = f.locked /\ g.image = f.image /\ g.numFiles = f.numFiles
        /\ \A i \in Handles : i # h => g.stubs[i] = f.stubs[i]
    BY <2>4, ApartStub
  <2> HIDE DEF g
  <2>6. r = [fs |-> g, data |-> got]
    BY <2>2, <2>3, Zenon
  <2>7. r.fs = g
    BY <2>6
  <2> QED
    BY <2>5, <2>7 DEF Apart, OpenIn
<1> QED
  BY <1>1, <1>2

\* Each step of a connection touches no files but its own, unless it writes an image.
Own(r) == {r.file, r.offsets}

LEMMA ApartWork ==
  ASSUME HTTPInv, NEW c \in Conns,
         \/ Idle(c) \/ WaitForLine(c) \/ ParseHeaders(c) \/ Authenticate(c) \/ ProcessGet(c)
         \/ PostTimeout(c) \/ NoPost(c) \/ ExecutePost(c) \/ UploadRefused(c)
         \/ ServeHeaders(c) \/ ServeCookies(c) \/ CallbackUnknown(c) \/ CallbackEnds(c)
         \/ CallbackPauses(c) \/ Eligible(c) \/ Skip(c)
  PROVE  fs' = fs /\ \A X : Apart(fs, fs', X)
<1>1. fs' = fs
  BY Zenon DEF Idle, WaitForLine, ParseHeaders, Authenticate, ProcessGet, PostTimeout, NoPost,
     ExecutePost, UploadRefused, ServeHeaders, ServeCookies, CallbackUnknown, CallbackEnds,
     CallbackPauses, Eligible, Skip
<1> QED
  BY <1>1, ApartSame

LEMMA ApartOpenFiles ==
  ASSUME NEW name, FilesOK(fs), NEW o, o = OpenFiles(name), NEW X
  PROVE  Apart(fs, o.fs, X)
<1> DEFINE f == MPFSOpen(fs, name)
           i == IF HasIndex(f.fs, f.h) THEN MPFSOpenID(f.fs, MPFSGetID(f.fs, f.h) + 1)
                ELSE [fs |-> f.fs, h |-> MPFS_INVALID_HANDLE]
<1>1. o.fs = i.fs
  BY DEF OpenFiles
<1>2. FilesOK(f.fs) /\ Apart(fs, f.fs, X)
  <2>1. f = Opened(fs, IdOf(name)) /\ IdOf(name) \in Nat \ {0}
    BY IdOfIs DEF MPFSOpen
  <2> QED
    BY <2>1, OpenedIs, ApartOpened
<1> HIDE DEF f
<1>3. Apart(f.fs, i.fs, X)
  <2>1. CASE HasIndex(f.fs, f.h)
    <3>1. i = Opened(f.fs, MPFSGetID(f.fs, f.h) + 1)
      BY <2>1 DEF MPFSOpenID
    <3> HIDE DEF i
    <3> QED
      BY <1>2, <3>1, ApartOpened
  <2>2. CASE ~ HasIndex(f.fs, f.h)
    <3>1. i.fs = f.fs
      BY <2>2
    <3> QED
      BY <3>1, ApartSame
  <2> QED
    BY <2>1, <2>2
<1> QED
  BY <1>1, <1>2, <1>3, ApartBoth

LEMMA ApartParse ==
  ASSUME HTTPInv, NEW c \in Conns, ParseRequest(c), NEW X
  PROVE  Apart(fs, fs', X)
<1>1. FilesOK(fs)
  BY DEF HTTPInv
<1>2. fs' = fs \/ \E name : fs' = OpenFiles(name).fs
  BY Zenon DEF ParseRequest
<1> QED
  BY <1>1, <1>2, ApartSame, ApartOpenFiles

LEMMA ApartClosedBoth ==
  ASSUME FilesOK(fs), NEW r
  PROVE  Apart(fs, WithoutFiles(r), Own(r))
<1> DEFINE g == MPFSClose(fs, r.file)
           k == MPFSClose(g, r.offsets)
<1>1. FilesOK(g) /\ Apart(fs, g, {r.file})
  BY CloseIs, ApartClosed
<1> HIDE DEF g
<1>2. Apart(g, k, {r.offsets})
  BY <1>1, ApartClosed
<1> HIDE DEF k
<1>3. Apart(fs, g, Own(r)) /\ Apart(g, k, Own(r))
  <2>1. {r.file} \subseteq Own(r) /\ {r.offsets} \subseteq Own(r)
    BY DEF Own
  <2> QED
    BY <1>1, <1>2, <2>1, ApartMore
<1>4. Apart(fs, k, Own(r))
  BY <1>3, ApartBoth
<1> QED
  BY <1>4 DEF k, g, WithoutFiles

LEMMA ApartClose ==
  ASSUME HTTPInv, NEW c \in Conns, Disconnect(c) \/ ForgetReset(c)
  PROVE  Apart(fs, fs', Own(Records[c]))
<1>1. FilesOK(fs)
  BY DEF HTTPInv
<1>2. fs' = WithoutFiles(Records[c])
  <2>1. CASE Disconnect(c)
    <3>1. turn = <<c, "process">> /\ fs' = WithoutFiles(curHTTP)
      BY <2>1 DEF Disconnect, At
    <3> QED
      BY <3>1, AtWork
  <2>2. CASE ForgetReset(c)
    BY <2>2 DEF ForgetReset, Records
  <2> QED
    BY <2>1, <2>2
<1> QED
  BY <1>1, <1>2, ApartClosedBoth

LEMMA ApartServe ==
  ASSUME HTTPInv, NEW c \in Conns,
         ProcessRequest(c) \/ SendLast(c) \/ SendSome(c) \/ SendToCallback(c)
  PROVE  Apart(fs, fs', Own(Records[c]))
<1>1. turn = <<c, "process">>
  BY Zenon DEF ProcessRequest, SendLast, SendSome, SendToCallback, At
<1>2. FilesOK(fs) /\ curHTTP = Records[c]
  BY <1>1, AtWork
<1>3. {curHTTP.file} \subseteq Own(curHTTP) /\ {curHTTP.offsets} \subseteq Own(curHTTP)
  BY DEF Own
<1>4. CASE ProcessRequest(c)
  <2>1. fs' = fs \/ fs' = MPFSGetArray(fs, curHTTP.offsets, 1).fs
    BY <1>4 DEF ProcessRequest
  <2>2. Apart(fs, MPFSGetArray(fs, curHTTP.offsets, 1).fs, {curHTTP.offsets})
    BY <1>2, ApartRead
  <2> QED
    BY <1>2, <1>3, <2>1, <2>2, ApartMore, ApartSame
<1>5. CASE SendLast(c)
  <2>1. fs' = MPFSClose(fs, curHTTP.file)
    BY <1>5 DEF SendLast
  <2> QED
    BY <1>2, <1>3, <2>1, ApartClosed, ApartMore
<1>6. /\ FilesOK(Got(c).fs) /\ Apart(fs, Got(c).fs, Own(curHTTP))
  <2>1. Wanted(c) \in Nat /\ FilesOK(Got(c).fs)
    BY <1>1, SendsWhat
  <2>2. Apart(fs, Got(c).fs, {curHTTP.file})
    BY <1>2, <2>1, ApartRead DEF Got
  <2> QED
    BY <1>3, <2>1, <2>2, ApartMore
<1>7. CASE SendSome(c)
  BY <1>2, <1>6, <1>7 DEF SendSome
<1>8. CASE SendToCallback(c)
  <2> DEFINE past == MPFSGetArray(Got(c).fs, curHTTP.file, 1).fs
             index == MPFSGetArray(past, curHTTP.offsets, 2)
  <2>1. fs' = index.fs \/ fs' = MPFSClose(index.fs, curHTTP.offsets)
    BY <1>8 DEF SendToCallback
  <2>2. FilesOK(past) /\ Apart(Got(c).fs, past, Own(curHTTP))
    BY <1>3, <1>6, GetArrayIs, ApartRead, ApartMore
  <2> HIDE DEF past
  <2>3. FilesOK(index.fs) /\ Apart(past, index.fs, Own(curHTTP))
    BY <1>3, <2>2, GetArrayIs, ApartRead, ApartMore
  <2> HIDE DEF index
  <2>4. Apart(fs, index.fs, Own(curHTTP))
    BY <1>6, <2>2, <2>3, ApartBoth
  <2>5. Apart(index.fs, MPFSClose(index.fs, curHTTP.offsets), Own(curHTTP))
    BY <1>3, <2>3, ApartClosed, ApartMore
  <2> QED
    BY <1>2, <2>1, <2>4, <2>5, ApartBoth
<1> QED
  BY <1>4, <1>5, <1>7, <1>8

-----------------------------------------------------------------------------
(* The image is written from its start to its end.                          *)

LEMMA TagStays ==
  ASSUME TagInv, NEW X, Apart(fs, fs', X)
  PROVE  TagInv'
BY DEF TagInv, Apart

\* No image is written where a connection goes.
Plain(s, r) ==
  \/ s \notin {"PARSE_HEADERS", "AUTHENTICATE", "PROCESS_GET", "PROCESS_POST"}
  \/ r.httpStatus # "MPFS_OK"

LEMMA PlainWrites ==
  ASSUME NEW f, NEW c, NEW s, NEW r, Plain(s, r)
  PROVE  Writes(f, c, s, r)
BY DEF Plain, Writes

LEMMA WritesMove ==
  ASSUME WritingInv, NEW X, Apart(fs, fs', X), NEW c \in Conns,
         \A d \in Conns : d # c => sm'[d] = sm[d] /\ Records'[d] = Records[d],
         Writes(fs, c, sm'[c], Records'[c])
  PROVE  WritingInv'
<1>1. fs'.locked = fs.locked /\ fs'.image = fs.image
  BY DEF Apart
<1>2. \A d \in Conns : Writes(fs, d, sm'[d], Records'[d])
  BY Zenon DEF WritingInv
<1>3. \A d \in Conns : Writes(fs', d, sm'[d], Records'[d])
  BY <1>1, <1>2 DEF Writes
<1> QED
  BY <1>1, <1>3 DEF WritingInv

LEMMA WorkMoves ==
  ASSUME HTTPInv, NEW c \in Conns, turn = <<c, "process">>, UNCHANGED Loaded,
         NEW s, Goto(c, s) \/ (s = sm[c] /\ UNCHANGED sm)
  PROVE  /\ sm'[c] = s /\ Records'[c] = curHTTP' /\ curHTTP = Records[c]
         /\ \A d \in Conns : d # c => sm'[d] = sm[d] /\ Records'[d] = Records[d]
<1>1. /\ curHTTPID = c /\ curHTTPID' = c /\ http_memory' = http_memory /\ curHTTP = Records[c]
  BY AtWork DEF Loaded
<1>2. sm'[c] = s /\ \A d \in Conns : d # c => sm'[d] = sm[d]
  BY DEF HTTPInv, Control, Goto
<1>3. Records'[c] = curHTTP' /\ \A d \in Conns : d # c => Records'[d] = Records[d]
  BY <1>1 DEF Records, Conn
<1> QED
  BY <1>1, <1>2, <1>3, Zenon

LEMMA PlainMove ==
  ASSUME HTTPInv, WritingInv, NEW c \in Conns, turn = <<c, "process">>, UNCHANGED Loaded,
         NEW s, Goto(c, s) \/ (s = sm[c] /\ UNCHANGED sm), Plain(s, curHTTP'),
         NEW X, Apart(fs, fs', X)
  PROVE  WritingInv'
<1>1. /\ sm'[c] = s /\ Records'[c] = curHTTP'
      /\ \A d \in Conns : d # c => sm'[d] = sm[d] /\ Records'[d] = Records[d]
  BY WorkMoves
<1>2. Writes(fs, c, sm'[c], Records'[c])
  BY <1>1, PlainWrites
<1> QED
  BY <1>1, <1>2, WritesMove

\* What is served, and where the request is read before any data of it.
LEMMA ServeWrites ==
  ASSUME HTTPInv, WritingInv, NEW c \in Conns, Serve(c)
  PROVE  WritingInv'
<1> DEFINE quiet == {"SERVE_HEADERS", "SERVE_COOKIES", "SERVE_BODY", "SEND_FROM_CALLBACK",
                     "DISCONNECT", "IDLE"}
<1>1. turn = <<c, "process">> /\ UNCHANGED Loaded
      /\ \E s \in quiet : Goto(c, s) \/ (s = sm[c] /\ UNCHANGED sm)
  BY DEF Serve, ProcessRequest, ServeHeaders, ServeCookies, SendLast, SendSome, SendToCallback,
     CallbackUnknown, CallbackEnds, CallbackPauses, Disconnect, At, Loaded
<1>2. PICK s \in quiet : Goto(c, s) \/ (s = sm[c] /\ UNCHANGED sm)
  BY <1>1
<1>3. Plain(s, curHTTP')
  BY DEF Plain
<1>4. \E X : Apart(fs, fs', X)
  BY ApartWork, ApartServe, ApartClose, Zenon DEF Serve
<1> QED
  BY <1>1, <1>2, <1>3, <1>4, PlainMove

LEMMA ParseWrites ==
  ASSUME HTTPInv, WritingInv, NEW c \in Conns, Parse(c)
  PROVE  WritingInv'
<1>1. turn = <<c, "process">> /\ UNCHANGED Loaded
  BY Zenon DEF Parse, Idle, WaitForLine, ParseRequest, ParseHeaders, Authenticate, ProcessGet, At
<1>2. curHTTP = Records[c] /\ curHTTP \in Record /\ Writes(fs, c, sm[c], curHTTP)
  BY <1>1, AtWork DEF WritingInv, RecordOK
<1>3. \E X : Apart(fs, fs', X)
  BY ApartWork, ApartParse, Zenon DEF Parse
<1>4. CASE Idle(c)
  <2>1. Goto(c, "PARSE_REQUEST") /\ Plain("PARSE_REQUEST", curHTTP')
    BY <1>4 DEF Idle, Plain
  <2> QED
    BY <1>1, <1>3, <2>1, PlainMove
<1>5. CASE WaitForLine(c)
  <2>1. CASE UNCHANGED sm /\ UNCHANGED curHTTP
    <3>1. sm[c] \in {"PARSE_REQUEST", "PARSE_HEADERS"}
      BY <1>5 DEF WaitForLine, At
    <3>2. Plain(sm[c], curHTTP')
      BY <1>2, <2>1, <3>1 DEF Plain, Writes
    <3> QED
      BY <1>1, <1>3, <2>1, <3>2, PlainMove
  <2>2. CASE Goto(c, "SERVE_HEADERS") \/ Goto(c, "DISCONNECT")
    <3>1. Plain("SERVE_HEADERS", curHTTP') /\ Plain("DISCONNECT", curHTTP')
      BY DEF Plain
    <3> QED
      BY <1>1, <1>3, <2>2, <3>1, PlainMove
  <2> QED
    BY <1>5, <2>1, <2>2, Zenon DEF WaitForLine
<1>6. CASE ParseRequest(c)
  <2>1. CASE Goto(c, "SERVE_HEADERS")
    <3>1. Plain("SERVE_HEADERS", curHTTP')
      BY DEF Plain
    <3> QED
      BY <1>1, <1>3, <2>1, <3>1, PlainMove
  <2>2. CASE Goto(c, "PARSE_HEADERS") /\ curHTTP'.httpStatus # "MPFS_OK"
    <3>1. Plain("PARSE_HEADERS", curHTTP')
      BY <2>2 DEF Plain
    <3> QED
      BY <1>1, <1>3, <2>2, <3>1, PlainMove
  <2>3. \/ Goto(c, "SERVE_HEADERS")
        \/ Goto(c, "PARSE_HEADERS") /\ curHTTP'.httpStatus # "MPFS_OK"
    <3> DEFINE line == Line[FirstLine(c)]
               form == IF line.method = "GET" THEN "MPFS_FORM" ELSE "MPFS_UP"
               upload == [curHTTP EXCEPT !.httpStatus = form]
               opened == OpenFiles(line.name)
               page == [curHTTP EXCEPT !.httpStatus = line.method, !.file = opened.file,
                                       !.offsets = opened.offsets, !.hasArgs = line.args]
    <3>1. line.method # "MPFS_OK"
      <4>1. sm[c] = "PARSE_REQUEST" /\ LineEnds(c) # {}
        BY <1>6 DEF ParseRequest, At
      <4>2. FirstLine(c) \in DOMAIN Line
        BY <1>1, <4>1, RequestIsKnown
      <4>3. \A l \in DOMAIN Line : Line[l].method \in {"GET", "POST", "PUT"}
        BY DEF Line
      <4> QED
        BY <4>2, <4>3
    <3> HIDE DEF line, opened
    <3>2. form # "MPFS_OK"
      OBVIOUS
    <3> HIDE DEF form
    <3>3. upload.httpStatus = form /\ page.httpStatus = line.method
      BY <1>2, Zenon DEF Record
    <3> HIDE DEF upload, page
    <3>4. \/ Goto(c, "SERVE_HEADERS")
          \/ Goto(c, "PARSE_HEADERS") /\ (curHTTP' = upload \/ curHTTP' = page)
      BY <1>6, Zenon DEF ParseRequest, upload, page, form, line, opened
    <3> QED
      BY <3>1, <3>2, <3>3, <3>4, Zenon
  <2> QED
    BY <2>1, <2>2, <2>3
<1>7. CASE ParseHeaders(c)
  <2>1. sm[c] = "PARSE_HEADERS"
    BY <1>7 DEF ParseHeaders, At
  <2>2. curHTTP.httpStatus # "MPFS_OK"
    BY <1>2, <2>1 DEF Writes
  <2>3. [curHTTP EXCEPT !.byteCount = ContentLength].httpStatus = curHTTP.httpStatus
    BY <1>2, Zenon DEF Record
  <2>4. /\ curHTTP'.httpStatus # "MPFS_OK"
        /\ Goto(c, "AUTHENTICATE") \/ (UNCHANGED sm)
    BY <1>7, <2>2, <2>3, Zenon DEF ParseHeaders
  <2>5. Plain("AUTHENTICATE", curHTTP') /\ Plain(sm[c], curHTTP')
    BY <2>4 DEF Plain
  <2> QED
    BY <1>1, <1>3, <2>4, <2>5, PlainMove
<1>8. CASE Authenticate(c)
  <2> DEFINE s == IF curHTTP.httpStatus = "MPFS_FORM" THEN "SERVE_HEADERS"
                  ELSE IF curHTTP.hasArgs THEN "PROCESS_GET" ELSE "PROCESS_POST"
             no == FALSE
  <2>1. sm[c] = "AUTHENTICATE" /\ Goto(c, s) /\ curHTTP' = [curHTTP EXCEPT !.hasArgs = no]
    BY <1>8 DEF Authenticate, At
  <2>2. curHTTP.httpStatus # "MPFS_OK"
    BY <1>2, <2>1 DEF Writes
  <2> HIDE DEF no, s
  <2>3. curHTTP'.httpStatus = curHTTP.httpStatus
    BY <1>2, <2>1, Zenon DEF Record
  <2>4. Plain(s, curHTTP')
    BY <2>2, <2>3 DEF Plain
  <2> QED
    BY <1>1, <1>3, <2>1, <2>4, PlainMove
<1>9. CASE ProcessGet(c)
  <2>1. sm[c] = "PROCESS_GET" /\ Goto(c, "PROCESS_POST")
        /\ \E cookies : curHTTP' = [curHTTP EXCEPT !.hasArgs = cookies]
    BY <1>9, Zenon DEF ProcessGet, At
  <2>2. curHTTP.httpStatus # "MPFS_OK"
    BY <1>2, <2>1 DEF Writes
  <2>3. curHTTP'.httpStatus = curHTTP.httpStatus
    BY <1>2, <2>1, Zenon DEF Record
  <2>4. Plain("PROCESS_POST", curHTTP')
    BY <2>2, <2>3 DEF Plain
  <2> QED
    BY <1>1, <1>3, <2>1, <2>4, PlainMove
<1> QED
  BY <1>4, <1>5, <1>6, <1>7, <1>8, <1>9 DEF Parse

LEMMA CheckWrites ==
  ASSUME HTTPInv, WritingInv, NEW c \in Conns, Check(c)
  PROVE  WritingInv'
<1>1. \E X : Apart(fs, fs', X)
  BY ApartWork, ApartClose, Zenon DEF Check
<1>2. CASE ForgetReset(c)
  <2>1. HTTPLoadConn(c) /\ sm' = [sm EXCEPT ![c] = "IDLE"]
    BY <1>2 DEF ForgetReset
  <2>2. DOMAIN Records = Conns /\ Records' = [Records EXCEPT ![c] = curHTTP']
    BY <2>1, LoadIs
  <2>3. /\ sm'[c] = "IDLE"
        /\ \A d \in Conns : d # c => sm'[d] = sm[d] /\ Records'[d] = Records[d]
    BY <2>1, <2>2 DEF HTTPInv, Control
  <2>4. Writes(fs, c, sm'[c], Records'[c])
    BY <2>3 DEF Writes
  <2> QED
    BY <1>1, <2>3, <2>4, WritesMove
<1>3. CASE Eligible(c)
  <2>1. HTTPLoadConn(c) /\ sm' = sm /\ curHTTP' = Records[c]
    BY <1>3 DEF Eligible, Records
  <2>2. DOMAIN Records = Conns /\ Records' = [Records EXCEPT ![c] = Records[c]]
    BY <2>1, LoadIs
  <2>3. \A d \in Conns : sm'[d] = sm[d] /\ Records'[d] = Records[d]
    BY <2>1, <2>2
  <2>4. Writes(fs, c, sm'[c], Records'[c])
    BY <2>3 DEF WritingInv
  <2> QED
    BY <1>1, <2>3, <2>4, WritesMove
<1>4. CASE Skip(c)
  <2>1. sm' = sm /\ Records' = Records
    BY <1>4, RecordsStay DEF Skip
  <2>2. Writes(fs, c, sm'[c], Records'[c])
    BY <2>1 DEF WritingInv
  <2> QED
    BY <1>1, <2>1, <2>2, WritesMove
<1> QED
  BY <1>2, <1>3, <1>4 DEF Check

LEMMA PostPlain ==
  ASSUME HTTPInv, WritingInv, NEW c \in Conns, turn = <<c, "process">>, UNCHANGED Loaded,
         NEW r \in Record, NEW rx,
         \/ r.httpStatus # "MPFS_OK" /\ (Waiting(c, r, rx) \/ NeedData(c, r, rx))
         \/ \E s \in {"PROCESS_REQUEST", "SERVE_HEADERS"} : PostDone(c, r, rx, s),
         NEW X, Apart(fs, fs', X)
  PROVE  WritingInv'
<1>1. \A n : [r EXCEPT !.lastReady = n].httpStatus = r.httpStatus
  BY Zenon DEF Record
<1>2. CASE r.httpStatus # "MPFS_OK" /\ Waiting(c, r, rx)
  <2>1. curHTTP'.httpStatus = r.httpStatus
    BY <1>1, <1>2, Zenon DEF Waiting
  <2>2. Plain(sm[c], curHTTP')
    BY <1>2, <2>1 DEF Plain
  <2> QED
    BY <1>2, <2>2, PlainMove DEF Waiting
<1>3. CASE r.httpStatus # "MPFS_OK" /\ NeedData(c, r, rx)
  <2>1. CASE curHTTP' = [r EXCEPT !.lastReady = Len(rx)] /\ UNCHANGED sm
    <3>1. curHTTP'.httpStatus = r.httpStatus
      BY <1>1, <2>1
    <3>2. Plain(sm[c], curHTTP')
      BY <1>3, <3>1 DEF Plain
    <3> QED
      BY <2>1, <3>2, PlainMove
  <2>2. CASE Goto(c, "SERVE_HEADERS")
    <3>1. Plain("SERVE_HEADERS", curHTTP')
      BY DEF Plain
    <3> QED
      BY <2>2, <3>1, PlainMove
  <2> QED
    BY <1>3, <2>1, <2>2, Zenon DEF NeedData
<1>4. CASE \E s \in {"PROCESS_REQUEST", "SERVE_HEADERS"} : PostDone(c, r, rx, s)
  <2>1. PICK s \in {"PROCESS_REQUEST", "SERVE_HEADERS"} : PostDone(c, r, rx, s)
    BY <1>4
  <2>2. Plain(s, curHTTP')
    BY DEF Plain
  <2> QED
    BY <2>1, <2>2, PlainMove DEF PostDone
<1> QED
  BY <1>2, <1>3, <1>4

\* What no image is, and what comes before one.
LEMMA PostWrites ==
  ASSUME HTTPInv, WritingInv, NEW c \in Conns,
         PostTimeout(c) \/ NoPost(c) \/ ExecutePost(c) \/ UploadRefused(c)
  PROVE  WritingInv'
<1>1. turn = <<c, "process">> /\ UNCHANGED Loaded
  BY Zenon DEF PostTimeout, NoPost, ExecutePost, UploadRefused, At, Loaded
<1>2. \E X : Apart(fs, fs', X)
  BY ApartWork, Zenon
<1>3. CASE PostTimeout(c) \/ NoPost(c)
  <2>1. Goto(c, "DISCONNECT") \/ Goto(c, "PROCESS_REQUEST")
    BY <1>3 DEF PostTimeout, NoPost
  <2>2. Plain("DISCONNECT", curHTTP') /\ Plain("PROCESS_REQUEST", curHTTP')
    BY DEF Plain
  <2> QED
    BY <1>1, <1>2, <2>1, <2>2, PlainMove
<1>4. CASE ExecutePost(c)
  <2>1. PICK r \in Record :
          \/ /\ r.httpStatus = "POST"
             /\ \E s \in Stream : Waiting(c, r, s) \/ NeedData(c, r, s)
          \/ PostDone(c, r, net[c].rx, "PROCESS_REQUEST")
    BY <1>4, ExecutePostIs
  <2> QED
    BY <1>1, <1>2, <2>1, PostPlain
<1>5. CASE UploadRefused(c)
  <2> DEFINE m == Minus(curHTTP.byteCount, Ready(c))
             r == [curHTTP EXCEPT !.byteCount = m]
  <2>1. curHTTP \in Record /\ m \in Nat
    <3>1. RecordOK(curHTTP) /\ net[c].rx \in Stream
      BY <1>1, AtWork DEF SocketOK, Socket
    <3>2. curHTTP \in Record /\ curHTTP.byteCount \in Nat /\ Ready(c) \in Nat
      BY <3>1, LenProperties DEF RecordOK, Record, Ready, Stream
    <3> QED
      BY <3>2, MinusIs
  <2>2. curHTTP.httpStatus = "MPFS_ERROR"
        /\ (PostDone(c, r, <<>>, "SERVE_HEADERS") \/ NeedData(c, r, <<>>))
    BY <1>5, Zenon DEF UploadRefused
  <2> HIDE DEF m
  <2>3. r \in Record /\ r.httpStatus = "MPFS_ERROR"
    BY <2>1, <2>2, Zenon DEF Record
  <2> HIDE DEF r
  <2> QED
    BY <1>1, <1>2, <2>2, <2>3, PostPlain
<1> QED
  BY <1>3, <1>4, <1>5

-----------------------------------------------------------------------------

LEMMA WholeIs ==
  /\ WholeImage \in Stream /\ Len(WholeImage) = ImageLen /\ ImageLen \in Nat \ {0}
  /\ WholeImage[1] = "tag" /\ \A i \in 2 .. ImageLen : WholeImage[i] = "data"
<1>1. ImageLen \in Nat \ {0}
  BY MPFSAssumption
<1>2. \A i \in 1 .. ImageLen : (IF i = 1 THEN "tag" ELSE "data") \in Tokens
  BY DEF Tokens
<1>3. WholeImage \in [1 .. ImageLen -> Tokens]
  BY <1>2 DEF WholeImage
<1>4. WholeImage \in Stream /\ Len(WholeImage) = ImageLen
  BY <1>1, <1>3 DEF Stream
<1>5. \A i \in 1 .. ImageLen : WholeImage[i] = IF i = 1 THEN "tag" ELSE "data"
  BY DEF WholeImage
<1> QED
  BY <1>1, <1>4, <1>5

\* The part of an image that is there has its length and its chunks.
LEMMA UploadedIs ==
  ASSUME NEW n \in 0 .. ImageLen
  PROVE  /\ Uploaded(n) \in Stream /\ Len(Uploaded(n)) = ImageLen - n
         /\ \A i \in 1 .. ImageLen - n : Uploaded(n)[i] = WholeImage[i]
<1>1. ImageLen \in Nat /\ ImageLen - n \in 0 .. Len(WholeImage) /\ WholeImage \in Stream
  BY WholeIs
<1>2. Uploaded(n) \in Stream
  BY <1>1, PrefixIs DEF Uploaded
<1>3. \A i \in 1 .. ImageLen - n : i \in 1 .. Len(WholeImage) /\ WholeImage[i] \in Tokens
  BY <1>1, WholeIs, ElementOfSeq DEF Stream
<1>4. /\ Len(Uploaded(n)) = IF 1 <= ImageLen - n THEN (ImageLen - n) - 1 + 1 ELSE 0
      /\ \A i \in 1 .. (ImageLen - n) - 1 + 1 : Uploaded(n)[i] = WholeImage[1 + i - 1]
  BY <1>1, <1>3, SubSeqProperties DEF Uploaded
<1>5. \A i \in 1 .. ImageLen - n : i \in 1 .. (ImageLen - n) - 1 + 1 /\ 1 + i - 1 = i
  BY <1>1
<1>6. Len(Uploaded(n)) = ImageLen - n
  BY <1>1, <1>4
<1> QED
  BY <1>2, <1>4, <1>5, <1>6

LEMMA UploadedGrows ==
  ASSUME NEW n \in Nat, n < ImageLen, NEW s \in Stream, Len(s) <= n,
         \A i \in 1 .. Len(s) : s[i] = "data"
  PROVE  Uploaded(n) \o s = Uploaded(n - Len(s))
<1> DEFINE m == Len(s)
           t == Uploaded(n)
           u == Uploaded(n - m)
           a == ImageLen - n
<1>1. m \in Nat /\ n \in 0 .. ImageLen /\ n - m \in 0 .. ImageLen /\ ImageLen \in Nat \ {0}
      /\ a \in Nat \ {0}
  BY WholeIs, LenProperties DEF Stream
<1>2. /\ t \in Stream /\ Len(t) = a
      /\ \A i \in 1 .. a : t[i] = WholeImage[i]
  BY <1>1, UploadedIs
<1>3. u \in Stream /\ Len(u) = a + m /\ \A i \in 1 .. a + m : u[i] = WholeImage[i]
  <2>1. ImageLen - (n - m) = a + m
    BY <1>1
  <2> HIDE DEF a
  <2> QED
    BY <1>1, <2>1, UploadedIs
<1>4. \A i \in a + 1 .. a + m : WholeImage[i] = "data"
  <2>1. \A i \in a + 1 .. a + m : i \in 2 .. ImageLen
    BY <1>1
  <2> QED
    BY <2>1, WholeIs
<1> HIDE DEF t, u, a
<1>5. t \o s \in Stream /\ Len(t \o s) = a + m
      /\ \A i \in 1 .. a + m : (t \o s)[i] = IF i <= a THEN t[i] ELSE s[i - a]
  BY <1>2, ConcatProperties DEF Stream
<1>6. ASSUME NEW i \in 1 .. a + m PROVE (t \o s)[i] = u[i]
  <2>1. CASE i <= a
    <3>1. i \in 1 .. a
      BY <1>1, <2>1
    <3> QED
      BY <1>2, <1>3, <1>5, <2>1, <3>1, Zenon
  <2>2. CASE ~ (i <= a)
    <3>1. i \in a + 1 .. a + m /\ i - a \in 1 .. m
      BY <1>1, <2>2
    <3>2. s[i - a] = "data"
      BY <3>1
    <3> QED
      BY <1>3, <1>4, <1>5, <2>2, <3>1, <3>2, Zenon
  <2> QED
    BY <2>1, <2>2
<1> HIDE DEF m
<1>7. t \o s = u
  BY <1>3, <1>5, <1>6, SeqEqual DEF Stream
<1> QED
  BY <1>7 DEF t, u, m

LEMMA UploadedEnds ==
  Uploaded(0) = WholeImage /\ Uploaded(ImageLen - 1) = <<"tag">>
<1>1. ImageLen \in Nat \ {0} /\ 0 \in 0 .. ImageLen /\ ImageLen - 1 \in 0 .. ImageLen
      /\ ImageLen - 0 = ImageLen /\ ImageLen - (ImageLen - 1) = 1
  BY WholeIs
<1>2. Uploaded(0) = WholeImage
  <2>1. /\ Uploaded(0) \in Stream /\ Len(Uploaded(0)) = ImageLen
        /\ \A i \in 1 .. ImageLen : Uploaded(0)[i] = WholeImage[i]
    BY <1>1, UploadedIs
  <2> QED
    BY <2>1, WholeIs, SeqEqual DEF Stream
<1>3. Uploaded(ImageLen - 1) = <<"tag">>
  <2> DEFINE u == Uploaded(ImageLen - 1)
  <2>1. /\ u \in Stream /\ Len(u) = 1 /\ \A i \in 1 .. 1 : u[i] = WholeImage[i]
    BY <1>1, UploadedIs
  <2> HIDE DEF u
  <2>2. <<"tag">> \in Stream /\ Len(<<"tag">>) = 1 /\ \A i \in 1 .. 1 : u[i] = <<"tag">>[i]
    BY <2>1, WholeIs DEF Stream, Tokens
  <2>3. u = <<"tag">>
    BY <2>1, <2>2, SeqEqual DEF Stream
  <2> QED
    BY <2>3 DEF u
<1> QED
  BY <1>2, <1>3

\* What no client that has gone has sent, and no other than that of an image.
LEMMA UploadTag ==
  ASSUME HTTPInv, RequestInv, NEW c \in Conns, turn = <<c, "process">>, sm[c] = "PROCESS_POST",
         curHTTP.httpStatus = "MPFS_UP",
         NEW starts, starts = SelectInSeq(net[c].rx, IsStart), starts > 0,
         starts < Len(net[c].rx), net[c].rx[starts + 1] = "tag"
  PROVE  "image" \in Kinds[c] /\ Minus(curHTTP.byteCount, starts + 1) = ImageLen - 1
<1> DEFINE kind == client[c].asked
           k == net[c]
<1>1. k.rx \in Stream /\ k.ask \in Stream /\ Len(k.rx) \in Nat
  <2>1. k.rx \in Stream /\ k.ask \in Stream
    BY AtWork DEF SocketOK, Socket
  <2> QED
    BY <2>1, LenProperties DEF Stream
<1>2. starts \in 0 .. Len(k.rx) /\ starts # 0 /\ k.rx[starts] = "mime"
  BY <1>1, StartFirst
<1>3. k.st = "open"
  <2> SUFFICES ASSUME k.st # "open" PROVE FALSE
    OBVIOUS
  <2>1. k.rx = <<>>
    BY HearsAtWork DEF Deaf, Headers
  <2> QED
    BY <1>1, <1>2, <2>1
<1>4. kind \in Kinds[c] /\ AtPost(k, curHTTP, kind)
  BY <1>3, HearsAtWork DEF Followed
<1> HIDE DEF kind, k
<1>5. \/ AtBody(k, curHTTP, kind) /\ kind \in {"image", "badimage"}
      \/ kind = "nolength" /\ \E p \in 2 .. 3 : Heard(k, kind, p)
  BY <1>4, PostIs
<1>6. CASE kind = "nolength" /\ \E p \in 2 .. 3 : Heard(k, kind, p)
  <2>1. starts = 0
    BY <1>1, <1>6, NoImageStarts DEF k
  <2> QED
    BY <1>2, <2>1
<1>7. CASE AtBody(k, curHTTP, kind) /\ kind \in {"image", "badimage"}
  <2>1. Heard(k, kind, 3) /\ curHTTP.byteCount = ContentLength
    <3>1. BodyAt(kind) = 3 /\ CountAt(kind, 3) = ContentLength
      BY <1>7 DEF BodyAt, LineAt, Measured, CountAt
    <3> QED
      BY <1>7, <3>1 DEF AtBody, Counted
  <2>2. /\ starts \in 0 .. 1
        /\ Len(k.rx) > 1 => k.rx[2] = IF kind = "image" THEN "tag" ELSE "badtag"
    BY <1>1, <1>7, <2>1, ImageStarts DEF k
  <2>3. starts = 1 /\ starts + 1 = 2 /\ Len(k.rx) > 1
    BY <1>1, <1>2, <2>2 DEF k
  <2>4. kind = "image"
    BY <1>7, <2>2, <2>3 DEF k
  <2>5. Minus(curHTTP.byteCount, starts + 1) = ImageLen - 1
    BY <2>1, <2>3, CountOfImage
  <2> QED
    BY <1>4, <2>4, <2>5
<1> QED
  BY <1>5, <1>6, <1>7

LEMMA WritingIs ==
  ASSUME NEW c \in Conns
  PROVE  /\ Writing(c) <=> sm[c] = "PROCESS_POST" /\ Records[c].httpStatus = "MPFS_OK"
         /\ Writing(c)' <=> sm'[c] = "PROCESS_POST" /\ Records'[c].httpStatus = "MPFS_OK"
<1> QED
  BY DEF Writing, Records

\* Where one writes the image, nobody else does.
LEMMA WriterMoves ==
  ASSUME WritingInv, NEW c \in Conns, ~ TwoWrite, Writing(c) \/ (~ TwoWrite /\ Writing(c))',
         \A d \in Conns : d # c => sm'[d] = sm[d] /\ Records'[d] = Records[d],
         Writes(fs', c, sm'[c], Records'[c]), ~ fs'.locked => fs'.image = WholeImage
  PROVE  WritingInv'
<1>1. ASSUME NEW d \in Conns, d # c PROVE Writes(fs', d, sm'[d], Records'[d])
  <2>1. ~ (sm'[d] = "PROCESS_POST" /\ Records'[d].httpStatus = "MPFS_OK")
    <3>1. CASE Writing(c)
      <4>1. ~ Writing(d)
        BY <1>1, <3>1 DEF TwoWrite
      <4> QED
        BY <1>1, <4>1, WritingIs
    <3>2. CASE (~ TwoWrite /\ Writing(c))'
      <4>1. ~ Writing(d)'
        BY <1>1, <3>2 DEF TwoWrite
      <4> QED
        BY <1>1, <4>1, WritingIs
    <3> QED
      BY <3>1, <3>2
  <2>2. Writes(fs, d, sm'[d], Records'[d])
    BY <1>1 DEF WritingInv
  <2> QED
    BY <2>1, <2>2 DEF Writes
<1>2. \A d \in Conns : Writes(fs', d, sm'[d], Records'[d])
  BY <1>1
<1> QED
  BY <1>2 DEF WritingInv

\* The tag, behind which the count is that of the chunks to come.
LEMMA TagWrites ==
  ASSUME ~ TwoWrite, ~ TwoWrite', HTTPInv, WritingInv, NEW c \in Conns, turn = <<c, "process">>,
         sm[c] = "PROCESS_POST", UNCHANGED Loaded, "image" \in Kinds[c], NEW n, n = ImageLen - 1,
         NEW r, r = [curHTTP EXCEPT !.byteCount = n, !.httpStatus = "MPFS_OK", !.file = 0],
         NEW rx, Waiting(c, r, rx), fs' = MPFSPutArray(MPFSFormat(fs), <<"tag">>)
  PROVE  WritingInv'
<1>1. curHTTP \in Record /\ FilesOK(fs)
  BY AtWork DEF RecordOK
<1>2. \A l : /\ [r EXCEPT !.lastReady = l].byteCount = n
             /\ [r EXCEPT !.lastReady = l].httpStatus = "MPFS_OK"
  BY <1>1, Zenon DEF Record
<1>3. curHTTP'.byteCount = n /\ curHTTP'.httpStatus = "MPFS_OK" /\ sm' = sm
  BY <1>2, Zenon DEF Waiting
<1>4. fs'.locked /\ fs'.image = <<"tag">>
  <2> DEFINE f == MPFSFormat(fs)
  <2>1. FilesOK(f) /\ f.locked /\ f.image = <<>>
    BY <1>1, FormatIs
  <2> HIDE DEF f
  <2>2. <<"tag">> \in Stream /\ <<>> \o <<"tag">> = <<"tag">>
    BY DEF Stream, Tokens
  <2>3. fs' = MPFSPutArray(f, <<"tag">>)
    BY DEF f
  <2>4. fs'.locked = f.locked /\ fs'.image = f.image \o <<"tag">>
    BY <2>1, <2>2, <2>3, PutArrayIs
  <2> QED
    BY <2>1, <2>2, <2>4
<1>5. /\ sm'[c] = sm[c] /\ Records'[c] = curHTTP'
      /\ \A d \in Conns : d # c => sm'[d] = sm[d] /\ Records'[d] = Records[d]
  BY <1>3, WorkMoves
<1>6. n < ImageLen /\ fs'.image = Uploaded(n)
  BY <1>4, UploadedEnds, WholeIs
<1>7. (~ TwoWrite /\ Writing(c))'
  BY <1>3, <1>5, WritingIs
<1> QED
  BY <1>3, <1>4, <1>5, <1>6, <1>7, WriterMoves DEF Writes

LEMMA UploadStartWrites ==
  ASSUME ~ TwoWrite, ~ TwoWrite', HTTPInv, RequestInv, WritingInv, NEW c \in Conns, UploadStart(c)
  PROVE  WritingInv'
<1> DEFINE rx == net[c].rx
           starts == SelectInSeq(rx, IsStart)
           first == [curHTTP EXCEPT !.byteCount = Minus(@, Len(rx))]
           second == [curHTTP EXCEPT !.byteCount = Minus(@, starts - 1)]
           third == [curHTTP EXCEPT !.byteCount = Minus(@, starts + 1),
                                    !.httpStatus = "MPFS_OK", !.file = 0]
           fourth == [curHTTP EXCEPT !.byteCount = Minus(@, starts + 1),
                                     !.httpStatus = "MPFS_ERROR"]
<1>1. /\ turn = <<c, "process">> /\ sm[c] = "PROCESS_POST" /\ UNCHANGED Loaded
      /\ curHTTP.httpStatus = "MPFS_UP"
  BY Zenon DEF UploadStart, At
<1>2. /\ curHTTP \in Record /\ curHTTP.byteCount \in Nat /\ rx \in Stream /\ Len(rx) \in Nat
  <2>1. RecordOK(curHTTP) /\ rx \in Stream
    BY <1>1, AtWork DEF SocketOK, Socket
  <2> QED
    BY <2>1, LenProperties DEF RecordOK, Record, Stream
<1>3. starts \in 0 .. Len(rx)
  BY <1>2, StartIs
<1>4. \/ starts = 0 /\ NeedData(c, first, <<>>) /\ fs' = fs
      \/ starts > 0 /\ NeedData(c, second, SubSeq(rx, starts, Len(rx))) /\ fs' = fs
      \/ /\ starts > 0 /\ starts < Len(rx) /\ rx[starts + 1] = "tag"
         /\ Waiting(c, third, SubSeq(rx, starts + 2, Len(rx)))
         /\ fs' = MPFSPutArray(MPFSFormat(fs), <<"tag">>)
      \/ starts > 0 /\ Waiting(c, fourth, SubSeq(rx, starts + 2, Len(rx))) /\ fs' = fs
  BY Zenon DEF UploadStart
<1>5. /\ Minus(curHTTP.byteCount, Len(rx)) \in Nat
      /\ starts > 0 => /\ Minus(curHTTP.byteCount, starts - 1) \in Nat
                       /\ Minus(curHTTP.byteCount, starts + 1) \in Nat
  <2>1. starts + 1 \in Nat /\ (starts > 0 => starts - 1 \in Nat)
    BY <1>2, <1>3
  <2> QED
    BY <1>2, <2>1, MinusIs
<1> HIDE DEF starts, rx
<1>6. CASE /\ starts > 0 /\ starts < Len(rx) /\ rx[starts + 1] = "tag"
           /\ Waiting(c, third, SubSeq(rx, starts + 2, Len(rx)))
           /\ fs' = MPFSPutArray(MPFSFormat(fs), <<"tag">>)
  <2>1. "image" \in Kinds[c] /\ Minus(curHTTP.byteCount, starts + 1) = ImageLen - 1
    BY <1>1, <1>6, UploadTag DEF starts, rx
  <2> QED
    BY <1>1, <1>6, <2>1, TagWrites
<1>7. CASE fs' = fs
  <2>1. \E X : Apart(fs, fs', X)
    BY <1>7, ApartSame
  <2>2. CASE NeedData(c, first, <<>>)
    <3>1. first \in Record /\ first.httpStatus = "MPFS_UP"
      BY <1>1, <1>2, <1>5, Zenon DEF Record
    <3> HIDE DEF first
    <3> QED
      BY <1>1, <2>1, <2>2, <3>1, PostPlain
  <2>3. CASE starts > 0 /\ NeedData(c, second, SubSeq(rx, starts, Len(rx)))
    <3>1. second \in Record /\ second.httpStatus = "MPFS_UP"
      BY <1>1, <1>2, <1>5, <2>3, Zenon DEF Record
    <3> HIDE DEF second
    <3> QED
      BY <1>1, <2>1, <2>3, <3>1, PostPlain
  <2>4. CASE starts > 0 /\ Waiting(c, fourth, SubSeq(rx, starts + 2, Len(rx)))
    <3>1. fourth \in Record /\ fourth.httpStatus = "MPFS_ERROR"
      BY <1>1, <1>2, <1>5, <2>4, Zenon DEF Record, Status
    <3> HIDE DEF fourth
    <3> QED
      BY <1>1, <2>1, <2>4, <3>1, PostPlain
  <2> QED
    BY <1>4, <1>6, <2>2, <2>3, <2>4
<1> QED
  BY <1>4, <1>6, <1>7

LEMMA UploadWriteWrites ==
  ASSUME ~ TwoWrite, HTTPInv, RequestInv, WritingInv, NEW c \in Conns, UploadWrite(c)
  PROVE  WritingInv'
<1> DEFINE rx == net[c].rx
           n == Min({Len(rx), curHTTP.byteCount})
           m == Minus(curHTTP.byteCount, n)
           r == [curHTTP EXCEPT !.byteCount = m]
           rest == SubSeq(rx, n + 1, Len(rx))
           front == SubSeq(rx, 1, n)
           written == MPFSPutArray(fs, front)
<1>1. /\ turn = <<c, "process">> /\ sm[c] = "PROCESS_POST" /\ UNCHANGED Loaded
      /\ curHTTP.httpStatus = "MPFS_OK"
  BY Zenon DEF UploadWrite, At
<1>2. /\ curHTTP \in Record /\ curHTTP.byteCount \in Nat /\ FilesOK(fs) /\ curHTTP = Records[c]
      /\ rx \in Stream /\ Len(rx) \in Nat /\ net[c].ask \in Stream
  <2>1. RecordOK(curHTTP) /\ rx \in Stream /\ net[c].ask \in Stream /\ FilesOK(fs)
    BY <1>1, AtWork DEF SocketOK, Socket
  <2> QED
    BY <1>1, <2>1, AtWork, LenProperties DEF RecordOK, Record, Stream
<1>3. /\ "image" \in Kinds[c] /\ fs.locked
      /\ curHTTP.byteCount < ImageLen /\ fs.image = Uploaded(curHTTP.byteCount)
      /\ Writing(c)
  <2>1. Writes(fs, c, sm[c], curHTTP)
    BY <1>2 DEF WritingInv
  <2> QED
    BY <1>1, <1>2, <2>1, WritingIs DEF Writes
<1>4. /\ Len(rx) <= curHTTP.byteCount
      /\ Minus(curHTTP.byteCount, Len(rx)) = curHTTP.byteCount - Len(rx)
      /\ \A i \in 1 .. Len(rx) : rx[i] = "data"
  <2>1. CASE net[c].st = "open"
    <3>1. AtPost(net[c], curHTTP, client[c].asked)
      BY <1>1, <2>1, HearsAtWork DEF Followed
    <3>2. /\ client[c].asked = "image"
          /\ Heard(net[c], client[c].asked, Len(Request.image) - curHTTP.byteCount)
      BY <1>1, <3>1, PostIs
    <3> QED
      BY <1>2, <1>3, <3>2, UploadTakes
  <2>2. CASE net[c].st # "open"
    <3>1. rx = <<>>
      BY <1>1, <2>2, HearsAtWork DEF Deaf, Headers
    <3>2. Len(rx) = 0
      BY <3>1
    <3>3. curHTTP.byteCount < Wrapped
      <4>1. Wrapped \in Nat
        BY StatesAre
      <4> QED
        BY <1>2, <1>3, <4>1, WholeIs, LengthAssumption DEF ContentLength
    <3>4. Minus(curHTTP.byteCount, 0) = curHTTP.byteCount - 0
      <4>1. curHTTP.byteCount # Wrapped /\ ~ (0 > curHTTP.byteCount)
        BY <1>2, <3>3
      <4> QED
        BY <4>1, Zenon DEF Minus
    <3> QED
      BY <1>2, <3>2, <3>4
  <2> QED
    BY <2>1, <2>2
<1>5. n = Len(rx)
  <2>1. n \in {Len(rx), curHTTP.byteCount} /\ n <= Len(rx) /\ n \in Nat
    BY <1>2, LesserOfTwo
  <2> QED
    BY <1>2, <1>4, <2>1
<1>6. m \in Nat /\ m < ImageLen /\ m = curHTTP.byteCount - Len(rx)
  <2>1. m = curHTTP.byteCount - Len(rx)
    BY <1>4, <1>5
  <2> HIDE DEF m
  <2> QED
    BY <1>2, <1>3, <1>4, <2>1, WholeIs
<1>7. front \in Stream /\ front = rx
  <2>1. SubSeq(rx, 1, Len(rx)) = rx
    BY <1>2 DEF Stream
  <2> QED
    BY <1>2, <1>5, <2>1
<1>8. FilesOK(written) /\ written.locked /\ written.image = Uploaded(m)
  <2> HIDE DEF front, n, m
  <2>1. /\ FilesOK(written) /\ written.locked = fs.locked
        /\ written.image = fs.image \o front
    BY <1>2, <1>7, PutArrayIs
  <2>2. Uploaded(curHTTP.byteCount) \o rx = Uploaded(curHTTP.byteCount - Len(rx))
    BY <1>2, <1>3, <1>4, UploadedGrows
  <2> QED
    BY <1>3, <1>6, <1>7, <2>1, <2>2
<1>9. \/ m = 0 /\ fs' = MPFSPutEnd(written) /\ PostDone(c, r, rest, "SERVE_HEADERS")
      \/ fs' = written /\ NeedData(c, r, rest)
  <2>1. \/ r.byteCount = 0 /\ fs' = MPFSPutEnd(written) /\ PostDone(c, r, rest, "SERVE_HEADERS")
        \/ fs' = written /\ NeedData(c, r, rest)
    BY Zenon DEF UploadWrite
  <2> HIDE DEF m
  <2>2. r.byteCount = m
    BY <1>2, Zenon DEF Record
  <2> QED
    BY <2>1, <2>2
<1> HIDE DEF written, rest, m
<1>10. r.byteCount = m /\ \A l : [r EXCEPT !.lastReady = l].byteCount = m
  BY <1>2, Zenon DEF Record
<1> HIDE DEF r
<1>11. CASE m = 0 /\ fs' = MPFSPutEnd(written) /\ PostDone(c, r, rest, "SERVE_HEADERS")
  <2>1. fs'.image = WholeImage
    BY <1>8, <1>11, PutEndIs, UploadedEnds
  <2>2. /\ sm'[c] = "SERVE_HEADERS"
        /\ \A d \in Conns : d # c => sm'[d] = sm[d] /\ Records'[d] = Records[d]
    BY <1>1, <1>11, WorkMoves DEF PostDone
  <2>3. Writes(fs', c, sm'[c], Records'[c])
    BY <2>2 DEF Writes
  <2> QED
    BY <1>3, <2>1, <2>2, <2>3, WriterMoves
<1>12. CASE fs' = written /\ NeedData(c, r, rest)
  <2>1. CASE curHTTP' = [r EXCEPT !.lastReady = Len(rest)] /\ UNCHANGED sm
    <3>1. /\ sm'[c] = sm[c] /\ Records'[c] = curHTTP'
          /\ \A d \in Conns : d # c => sm'[d] = sm[d] /\ Records'[d] = Records[d]
      BY <1>1, <2>1, WorkMoves
    <3>2. curHTTP'.byteCount = m
      BY <1>10, <2>1
    <3>3. Writes(fs', c, sm'[c], Records'[c])
      BY <1>1, <1>3, <1>6, <1>8, <1>12, <3>1, <3>2 DEF Writes
    <3> QED
      BY <1>3, <1>8, <1>12, <3>1, <3>3, WriterMoves
  <2>2. CASE Goto(c, "SERVE_HEADERS")
    <3>1. /\ sm'[c] = "SERVE_HEADERS"
          /\ \A d \in Conns : d # c => sm'[d] = sm[d] /\ Records'[d] = Records[d]
      BY <1>1, <2>2, WorkMoves
    <3>2. Writes(fs', c, sm'[c], Records'[c])
      BY <3>1 DEF Writes
    <3> QED
      BY <1>3, <1>8, <1>12, <3>1, <3>2, WriterMoves
  <2> QED
    BY <1>12, <2>1, <2>2, Zenon DEF NeedData
<1> QED
  BY <1>9, <1>11, <1>12

LEMMA WritingInit ==
  HTTPInit => WritingInv
<1> SUFFICES ASSUME HTTPInit PROVE WritingInv
  OBVIOUS
<1>1. sm = [c \in Conns |-> "IDLE"] /\ fs.image = WholeImage
  BY DEF HTTPInit, MPFSInit
<1>2. \A c \in Conns : Writes(fs, c, sm[c], Records[c])
  BY <1>1 DEF Writes
<1> QED
  BY <1>1, <1>2 DEF WritingInv

\* What moves no connection and no file.
LEMMA WritesStay ==
  ASSUME WritingInv, UNCHANGED <<sm, curHTTP, curHTTPID, http_memory, fs>>
  PROVE  WritingInv'
<1>1. Records' = Records /\ sm' = sm /\ fs' = fs
  BY RecordsStay
<1> QED
  BY <1>1 DEF WritingInv

LEMMA WritingNext ==
  ASSUME ~ TwoWrite, ~ TwoWrite', HTTPInv, RequestInv, WritingInv, [HTTPNext]_httpVars
  PROVE  WritingInv'
<1>1. CASE StartPass
  BY <1>1, WritesStay DEF StartPass
<1>2. ASSUME NEW c \in Conns, Check(c) PROVE WritingInv'
  BY <1>2, CheckWrites
<1>3. ASSUME NEW c \in Conns, Parse(c) PROVE WritingInv'
  BY <1>3, ParseWrites
<1>4. ASSUME NEW c \in Conns, Post(c) PROVE WritingInv'
  BY <1>4, PostWrites, UploadStartWrites, UploadWriteWrites DEF Post
<1>5. ASSUME NEW c \in Conns, Serve(c) PROVE WritingInv'
  BY <1>5, ServeWrites
<1>6. ASSUME NEW c \in Conns, Clients(c) PROVE WritingInv'
  <2>1. UNCHANGED ServerSide
    BY <1>6, Zenon DEF Clients, Connect, Send, SendMore, Drain, HalfClose, Gone
  <2> QED
    BY <2>1, WritesStay DEF ServerSide
<1>7. CASE UNCHANGED httpVars
  BY <1>7, WritesStay DEF httpVars
<1> QED
  BY <1>1, <1>2, <1>3, <1>4, <1>5, <1>6, <1>7 DEF HTTPNext, HTTPServer

\* What a client that is there has sent and has yet to send is its own request
\* from where the server has read it, through resets, timeouts and the turns of
\* the connections, and nothing is read of a request that was broken off
\* (HTTPProcess(), HTTPServer()).
THEOREM RequestsAreHeard ==
  HTTPSpec => []RequestInv
<1> QED
  BY HTTPInvariant, RequestInit, RequestNext, PTL DEF HTTPSpec

\* Until two connections have written at the same time.
Written == ~ mixed => ~ TwoWrite /\ WritingInv

LEMMA WrittenInit ==
  HTTPInit => Written
<1> SUFFICES ASSUME HTTPInit PROVE Written
  OBVIOUS
<1>1. ~ TwoWrite
  <2>1. \A c \in Conns : sm[c] = "IDLE"
    BY DEF HTTPInit
  <2> QED
    BY <2>1 DEF TwoWrite, Writing
<1> QED
  BY <1>1, WritingInit DEF Written

LEMMA WrittenNext ==
  HTTPInv /\ RequestInv /\ Written /\ [HTTPNext]_httpVars => Written'
<1> SUFFICES ASSUME HTTPInv, RequestInv, Written, [HTTPNext]_httpVars, ~ mixed'
             PROVE  ~ TwoWrite' /\ WritingInv'
  BY DEF Written
<1>1. ~ mixed /\ ~ TwoWrite'
  <2>1. CASE HTTPServer
    BY <2>1, Zenon DEF HTTPServer
  <2>2. ASSUME sm' = sm, Records' = Records, mixed' = mixed PROVE ~ mixed /\ ~ TwoWrite'
    <3>1. \A c \in Conns : (sm[c] = "PROCESS_POST" /\ Records[c].httpStatus = "MPFS_OK")'
                            <=> sm[c] = "PROCESS_POST" /\ Records[c].httpStatus = "MPFS_OK"
      BY <2>2
    <3>2. \A c \in Conns : Writing(c)' <=> Writing(c)
      BY <3>1, WritingIs
    <3> QED
      BY <2>2, <3>2 DEF Written, TwoWrite
  <2>3. CASE UNCHANGED ServerSide
    BY <2>2, <2>3, RecordsStay DEF ServerSide
  <2>4. CASE UNCHANGED httpVars
    BY <2>2, <2>4, RecordsStay DEF httpVars
  <2> QED
    BY <2>1, <2>3, <2>4, ClientsAlone DEF HTTPNext
<1> QED
  BY <1>1, WritingNext DEF Written

\* An image that can be read was written to its end, once and in order, and
\* nothing reads one that is locked, whichever connections are asked for a new
\* one and whoever goes and comes while it is written: the count of the data is
\* that of the request.  The limit is that of the property, two that were
\* writing at the same time (HTTPMPFSUpload(), MPFSFormat(), MPFSPutEnd()).
THEOREM WholeImagesAreRead ==
  HTTPSpec => []ImageIsWhole
<1>1. HTTPInv /\ Written => ImageIsWhole
  <2> SUFFICES ASSUME HTTPInv, Written PROVE ImageIsWhole
    OBVIOUS
  <2>1. fs.locked => OpenIn(fs) = {}
    BY DEF HTTPInv, FilesOK
  <2>2. fs.locked => ~ \E h \in Handles : IsOpen(fs, h)
    BY <2>1 DEF OpenIn
  <2>3. ~ fs.locked /\ ~ mixed => fs.image = WholeImage
    BY DEF Written, WritingInv
  <2> QED
    BY <2>2, <2>3, Zenon DEF ImageIsWhole
<1> QED
  BY <1>1, HTTPInvariant, RequestsAreHeard, WrittenInit, WrittenNext, PTL DEF HTTPSpec
=============================================================================
