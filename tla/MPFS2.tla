-------------------------------- MODULE MPFS2 --------------------------------
(***************************************************************************)
(* The file system of the web pages (MPFS2.c): a read-only image, a pool   *)
(* of file handles, and a lock while a new image is written.  Each         *)
(* operator is one function of the module, from a state fs of the file     *)
(* system to its result and its next state.                                *)
(***************************************************************************)
EXTENDS Naturals, Sequences, FiniteSetsExt

CONSTANTS
  MAX_MPFS_HANDLES,
  Fat,        \* the FAT of a whole image: [name, data, hasIndex] per file
  Chunks,     \* what the data of a file is made of
  ImageLen    \* chunks that make a whole image, the first one its tag

ASSUME MPFSAssumption ==
  /\ MAX_MPFS_HANDLES \in 2 .. 254 /\ ImageLen \in Nat \ {0}
  /\ Len(Fat) \in Nat
  /\ \A id \in 1 .. Len(Fat) : /\ Fat[id].data \in Seq(Chunks)
                               /\ Fat[id].hasIndex => id < Len(Fat)

MPFS_INVALID_HANDLE == 255
Handles == 1 .. MAX_MPFS_HANDLES
Ids == 1 .. Len(Fat)
Closed == [id |-> 0, pos |-> 0]    \* addr = MPFS_INVALID

WholeImage == [i \in 1 .. ImageLen |-> IF i = 1 THEN "tag" ELSE "data"]

\* MPFSInit(), where the image is the one the device was delivered with.
MPFSInit == [stubs |-> [h \in Handles |-> Closed], locked |-> FALSE,
             image |-> WholeImage, numFiles |-> Len(Fat)]

IsOpen(fs, h) == h \in Handles /\ fs.stubs[h] # Closed

\* The first free handle; the last one of the array is refused.
FreeHandle(fs) ==
  LET h == Min({i \in Handles : i = MAX_MPFS_HANDLES \/ ~ IsOpen(fs, i)}) IN
  IF h = MAX_MPFS_HANDLES THEN MPFS_INVALID_HANDLE ELSE h

\* The state after an open of file id, and the handle that it returns.
Opened(fs, id) ==
  LET h == FreeHandle(fs) IN
  IF fs.locked \/ id > fs.numFiles \/ h = MPFS_INVALID_HANDLE
  THEN [fs |-> fs, h |-> MPFS_INVALID_HANDLE]
  ELSE [fs |-> [fs EXCEPT !.stubs[h] = [id |-> id, pos |-> 0]], h |-> h]

IdOf(name) == LET found == {id \in Ids : Fat[id].name = name} IN
              IF found = {} THEN Len(Fat) + 1 ELSE Min(found)
MPFSOpen(fs, name) == Opened(fs, IdOf(name))
MPFSOpenID(fs, id) == Opened(fs, id)

MPFSClose(fs, h) ==
  IF h \in Handles THEN [fs EXCEPT !.stubs[h] = Closed] ELSE fs

MPFSGetID(fs, h) == fs.stubs[h].id
MPFSTell(fs, h) == fs.stubs[h].pos
HasIndex(fs, h) == IsOpen(fs, h) /\ Fat[fs.stubs[h].id].hasIndex
NameOf(fs, h) == IF IsOpen(fs, h) THEN Fat[fs.stubs[h].id].name ELSE ""

\* bytesRem: what is left to read, nothing from a handle that is closed.
Remaining(fs, h) ==
  IF IsOpen(fs, h) THEN Len(Fat[fs.stubs[h].id].data) - fs.stubs[h].pos ELSE 0

\* MPFSGetArray(): at most n chunks, and the position moves past them.
MPFSGetArray(fs, h, n) ==
  LET len == Min({n, Remaining(fs, h)}) IN
  IF len = 0 THEN [fs |-> fs, data |-> <<>>]
  ELSE [fs |-> [fs EXCEPT !.stubs[h].pos = @ + len],
        data |-> SubSeq(Fat[fs.stubs[h].id].data, fs.stubs[h].pos + 1,
                        fs.stubs[h].pos + len)]

MPFSSeek(fs, h, pos) == [fs EXCEPT !.stubs[h].pos = pos]

-----------------------------------------------------------------------------
(* A new image.                                                             *)

\* Seeded fault: the files that are being read stay open.
MPFSFormatWhileRead(fs) == [fs EXCEPT !.locked = TRUE, !.image = <<>>]
MPFSFormat(fs) ==
  [fs EXCEPT !.stubs = [h \in Handles |-> IF h < MAX_MPFS_HANDLES THEN Closed ELSE @[h]],
             !.locked = TRUE, !.image = <<>>]

MPFSPutArray(fs, chunks) == [fs EXCEPT !.image = @ \o chunks]

\* MPFSPutEnd(TRUE): the image is unlocked and its tag and FAT are read.
MPFSPutEnd(fs) ==
  [fs EXCEPT !.locked = FALSE,
             !.numFiles = IF Len(fs.image) > 0 /\ Head(fs.image) = "tag"
                          THEN Len(Fat) ELSE 0]
==============================================================================
