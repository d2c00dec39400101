----------------------------- MODULE FileTransfer -----------------------------
(***************************************************************************)
(* Transfers of files and firmware, block by block, over parameters of the *)
(* device.  The synchronous API is downloadFile, uploadFile and            *)
(* updateDevice of class Channel over its read and write loops; the        *)
(* asynchronous one is DownloadFileRequest and UploadFileRequest over      *)
(* ReadParamRequest and WriteParamRequest.  One transfer runs at a time    *)
(* and each of its exchanges ends before the next one begins.              *)
(*                                                                         *)
(* The device keeps a pointer into its file that each exchange moves, also *)
(* one whose answer is lost.  The n-th byte of a file is the number n; the *)
(* byte of an image that belongs to address a is the number a.             *)
(***************************************************************************)
EXTENDS Integers, Sequences, FiniteSetsExt

CONSTANTS
  Sizes,        \* sizes of files and images
  Buffers,      \* [block, max]: bytes of a block of a file, and of one write
  MaxPerRead,   \* items of one read request (0xFF)
  UpdateBlock,  \* bytes of a block of firmware (0x80)
  Wrap,         \* values of a 16-bit address
  CountMod      \* values of the count of items in a write request (2^8)

ASSUME TransferAssumption ==
  /\ Sizes \subseteq Nat /\ \E most \in Sizes : \A n \in Sizes : n <= most
  /\ Buffers \subseteq [block: Nat \ {0}, max: Nat \ {0}]
  /\ {MaxPerRead, UpdateBlock, Wrap, CountMod} \subseteq Nat \ {0}
  /\ Wrap % UpdateBlock = 0

VARIABLES
  device,     \* its file and pointer, flash, address profile, confirmation
  local,      \* the file a download writes
  sizeKnown,  \* m_fileDataSize # 0
  task        \* the transfer

vars == <<device, local, sizeKnown, task>>

Bytes(n) == [i \in 1 .. n |-> i]

Lesser(m, n) == Min({m, n})

Last == Max(Sizes) + 1

\* Steps of each transfer before its first block, in the order of the code.
Prologue(api, kind) ==
  CASE kind = "download" /\ api = "sync" ->
         <<"dataSize", "open", "attr", "seek", "create", "read">>
    [] kind = "download" /\ api = "async" ->
         <<"open", "attr", "seek", "create", "read">>
    [] kind = "upload" /\ api = "sync" -> <<"dataSize", "source", "open", "next">>
    [] kind = "upload" /\ api = "async" -> <<"source", "open", "next">>
    [] OTHER -> <<"source", "softId", "auth", "header", "next">>

Steps ==
  {"idle", "dataSize", "open", "attr", "seek", "create", "read", "again", "store",
   "source", "softId", "auth", "header", "next", "profile", "write", "confirm",
   "restart", "reconnect"}

TypeOK ==
  /\ device.file \in Seq(1 .. Last) /\ device.pos \in 0 .. Len(device.file)
  /\ DOMAIN device.flash \subseteq Nat /\ device.profile \in Nat
  /\ device.confirmed \in BOOLEAN
  /\ local.state \in {"old", "open", "gone"} /\ local.data \in Seq(1 .. Last)
  /\ sizeKnown \in BOOLEAN
  /\ task.api \in {"sync", "async"} /\ task.kind \in {"download", "upload", "update"}
  /\ task.step \in Steps /\ task.size \in 0 .. Last /\ task.done \in 0 .. task.size
  /\ task.block \in Nat \ {0} /\ task.max \in Nat \ {0}
  /\ Len(task.pack) <= task.block /\ task.count \in 0 .. task.block - 1
  /\ task.retried \in BOOLEAN /\ task.warned \in BOOLEAN /\ task.profile \in Nat
  /\ task.result \in {"none", "ok", "failed", "crashed"}

Init ==
  /\ device = [file |-> <<>>, pos |-> 0, flash |-> <<>>, profile |-> 0,
               confirmed |-> FALSE]
  /\ local = [state |-> "old", data |-> <<>>]
  /\ sizeKnown = FALSE
  /\ task = [api |-> "sync", kind |-> "download", step |-> "idle", size |-> 0,
             block |-> 1, max |-> 1, done |-> 0, pack |-> <<>>, count |-> 0,
             retried |-> FALSE, warned |-> FALSE, profile |-> 0, result |-> "none"]

\* Calls of downloadFile, uploadFile and updateDevice, and their requests.
Begin(api, kind, size, buffer) ==
  /\ task.step = "idle"
  /\ api = "async" => kind # "update"
  /\ device' = [file |-> IF kind = "download" THEN Bytes(size) ELSE <<>>, pos |-> 0,
                flash |-> <<>>, profile |-> 0, confirmed |-> FALSE]
  /\ local' = [state |-> "old", data |-> <<>>]
  /\ sizeKnown' = (sizeKnown /\ task.result # "crashed")
  /\ task' = [api |-> api, kind |-> kind, step |-> Prologue(api, kind)[1],
              size |-> IF kind = "download" THEN 0 ELSE size,
              block |-> IF kind = "update" THEN UpdateBlock ELSE buffer.block,
              max |-> buffer.max, done |-> 0, pack |-> <<>>, count |-> 0,
              retried |-> FALSE, warned |-> FALSE, profile |-> 0,
              result |-> "none"]

-----------------------------------------------------------------------------
(* Before the first block.                                                 *)

Ended(result) == [task EXCEPT !.step = "idle", !.result = result]

\* The transfer at the step of the prologue after the present one.
Advanced ==
  LET p == Prologue(task.api, task.kind)
  IN [task EXCEPT !.step = p[1 + CHOOSE i \in DOMAIN p : p[i] = task.step]]

\* A step that asks the device and changes nothing the transfer works on:
\* the size of the data parameter, login, the image's header.
Ask ==
  /\ task.step \in {"dataSize", "softId", "auth", "header"}
  /\ \/ task' = Advanced
     \/ /\ ~(task.step = "dataSize" /\ sizeKnown)
        /\ task' = Ended(IF task.step = "softId" THEN "crashed" ELSE "failed")
  /\ sizeKnown' = (sizeKnown \/ (task.step = "dataSize" /\ task' = Advanced))
  /\ UNCHANGED <<device, local>>

\* The image is meant for another device.
WrongImage ==
  /\ task.step = "softId"
  /\ task' = Ended("failed")
  /\ UNCHANGED <<device, local, sizeKnown>>

\* OPFL: opened for writing, the file on the device is empty.
Open ==
  /\ task.step = "open"
  /\ \/ /\ task' \in {Advanced, Ended("failed")}
        /\ device' = [device EXCEPT !.file = IF task.kind = "upload" THEN <<>> ELSE @,
                                    !.pos = 0]
     \/ task' = Ended("failed") /\ device' = device
  /\ UNCHANGED <<local, sizeKnown>>

\* FATR: the size the device tells may be more than it then reads.
Attr ==
  /\ task.step = "attr"
  /\ \/ \E extra \in {0, 1} :
          task' = [Advanced EXCEPT !.size = Len(device.file) + extra]
     \/ task' = Ended("failed")
  /\ UNCHANGED <<device, local, sizeKnown>>

Seek ==
  /\ task.step = "seek"
  /\ \/ task' \in {Advanced, Ended("failed")} /\ device' = [device EXCEPT !.pos = 0]
     \/ task' = Ended("failed") /\ device' = device
  /\ UNCHANGED <<local, sizeKnown>>

\* The local file to write is opened, which empties it, or cannot be.
Create ==
  /\ task.step = "create"
  /\ \/ task' = Advanced /\ local' = [state |-> "open", data |-> <<>>]
     \/ task' = Ended("failed") /\ local' = local
  /\ UNCHANGED <<device, sizeKnown>>

\* The local file to read is opened; an update also checks its header.
OpenSource ==
  /\ task.step = "source"
  /\ task' \in {Advanced, Ended("failed")}
  /\ UNCHANGED <<device, local, sizeKnown>>

-----------------------------------------------------------------------------
(* Downloads: read loops of at most MaxPerRead items, block by block.      *)

\* Bytes of the present block still to be read.
Left == Lesser(task.block, task.size - task.done) - Len(task.pack)

Discard(result) == local' = [local EXCEPT !.state = "gone"] /\ task' = Ended(result)

\* The bytes the device reads out for a request of n.
Read(n) == SubSeq(device.file, device.pos + 1, device.pos + n)

\* The device answers with some of the items it was asked for.
ReadAnswered ==
  /\ task.step = "read" /\ Left > 0
  /\ \E n \in 1 .. Lesser(MaxPerRead, Left) :
       /\ device.pos + n <= Len(device.file)
       /\ device' = [device EXCEPT !.pos = @ + n]
       /\ task' = [task EXCEPT !.pack = @ \o Read(n)]
  /\ UNCHANGED <<local, sizeKnown>>

\* The device is busy: the synchronous API sets its pointer and asks for the
\* whole block once more.
ReadBusy ==
  /\ task.step = "read" /\ Left > 0
  /\ task.api = "sync" /\ ~task.retried
  /\ task' = [task EXCEPT !.step = "again"]
  /\ UNCHANGED <<device, local, sizeKnown>>

\* Any other failure, and the second time busy, ends the download.  The device
\* may have moved its pointer when it is its answer that was lost.
ReadFails ==
  /\ task.step = "read" /\ Left > 0
  /\ \E n \in 0 .. Lesser(MaxPerRead, Left) :
       /\ device.pos + n <= Len(device.file)
       /\ device' = [device EXCEPT !.pos = @ + n]
  /\ Discard("failed")
  /\ UNCHANGED sizeKnown

\* The device is at the end of its file in the middle of a block:
\* ReadParamRequest warns and hands over what it has.
ReadEnds ==
  /\ task.step = "read" /\ Left > 0
  /\ task.api = "async" /\ task.pack # <<>> /\ device.pos = Len(device.file)
  /\ task' = [task EXCEPT !.step = "store", !.warned = TRUE]
  /\ UNCHANGED <<device, local, sizeKnown>>

\* Of an empty file no block is read: no items, and no error either.
ReadNothing ==
  /\ task.step = "read" /\ Left = 0 /\ task.pack = <<>>
  /\ IF task.api = "sync" THEN Discard("failed")
                          ELSE task' = Ended("crashed") /\ UNCHANGED local
  /\ UNCHANGED <<device, sizeKnown>>

\* Faulty variant: the repeated block is read from the start of the file.
AgainFromStart ==
  /\ task.step = "again"
  /\ \/ /\ device' = [device EXCEPT !.pos = 0]
        /\ task' = [task EXCEPT !.step = "read", !.pack = <<>>, !.retried = TRUE]
        /\ UNCHANGED local
     \/ Discard("failed") /\ UNCHANGED device
  /\ UNCHANGED sizeKnown

Again ==
  /\ task.step = "again"
  /\ \/ /\ device' = [device EXCEPT !.pos = task.done]
        /\ task' = [task EXCEPT !.step = "read", !.pack = <<>>, !.retried = TRUE]
        /\ UNCHANGED local
     \/ Discard("failed") /\ device' \in {device, [device EXCEPT !.pos = task.done]}
  /\ UNCHANGED sizeKnown

\* A block is appended to the local file, or the disk is full.
Store ==
  /\ task.pack # <<>>
  /\ task.step = "store" \/ (task.step = "read" /\ Left = 0)
  /\ \/ LET done == task.done + Len(task.pack)
            next == IF done < task.size THEN [task EXCEPT !.step = "read"]
                                        ELSE Ended("ok")
        IN  /\ local' = [local EXCEPT !.data = @ \o task.pack]
            /\ task' = [next EXCEPT !.done = done, !.pack = <<>>, !.retried = FALSE]
     \/ Discard("failed")
  /\ UNCHANGED <<device, sizeKnown>>

-----------------------------------------------------------------------------
(* Uploads and updates: write loops of at most max bytes, block by block.  *)

\* updateDevice gives the device a new profile of addresses whenever the
\* 16-bit uploadedPart is 0.
Part == task.done % Wrap

\* Faulty variant: only the first profile is set.
BlockStepOnce ==
  IF task.kind = "update" /\ task.done = 0 THEN "profile" ELSE "write"

BlockStep == IF task.kind = "update" /\ Part = 0 THEN "profile" ELSE "write"

\* The next block is read from the local file.
NextBlock ==
  /\ task.step = "next"
  /\ task' = IF task.done < task.size THEN [task EXCEPT !.step = BlockStep]
             ELSE IF task.kind = "update" THEN [task EXCEPT !.step = "confirm"]
             ELSE Ended("ok")
  /\ UNCHANGED <<device, local, sizeKnown>>

\* A failed update restarts the device.
Broken ==
  IF task.kind = "update" THEN [task EXCEPT !.step = "restart", !.result = "failed"]
                          ELSE Ended("failed")

SourceFails ==
  /\ task.step = "next"
  /\ task' = Broken
  /\ UNCHANGED <<device, local, sizeKnown>>

SetProfile ==
  /\ task.step = "profile"
  /\ \/ /\ device' = [device EXCEPT !.profile = task.profile]
        /\ task' \in {Broken, [task EXCEPT !.step = "write", !.profile = @ + 1]}
     \/ task' = Broken /\ device' = device
  /\ UNCHANGED <<local, sizeKnown>>

BlockSize == Lesser(task.block, task.size - task.done)

\* Items of one write request, and how many the device takes them for.
Batch == Lesser(task.max, BlockSize - task.count)
Counted == Batch % CountMod

\* The device with the first n bytes of the request.
Took(n) ==
  IF task.kind = "upload"
    THEN [device EXCEPT !.file = @ \o [i \in 1 .. n |-> task.done + task.count + i],
                        !.pos = @ + n]
    ELSE LET Address(i) == (device.profile * Wrap) + ((Part + task.count + i) % Wrap)
             new == {Address(i) : i \in 0 .. n - 1}
             ByteAt(a) == task.done + task.count
                            + (CHOOSE i \in 0 .. n - 1 : Address(i) = a)
         IN  [device EXCEPT !.flash = [a \in new \union DOMAIN @ |->
                                         IF a \in new THEN ByteAt(a) ELSE @[a]]]

\* Faulty variant: the next block's first items are taken for written.
BlockOverCounted(t) == [t EXCEPT !.done = @ + BlockSize, !.step = "next"]

\* The block is left behind, whether all of it was written or not.
BlockOver(t) == [t EXCEPT !.done = @ + BlockSize, !.count = 0, !.step = "next"]

WriteAnswered ==
  /\ task.step = "write"
  /\ device' = Took(Counted)
  /\ task' = IF task.count + Batch = BlockSize THEN BlockOver(task)
             ELSE [task EXCEPT !.count = @ + Batch]
  /\ UNCHANGED <<local, sizeKnown>>

\* Faulty variant: a request that fails with InvalidIndex is only warned of.
WriteFailsWarning ==
  /\ task.step = "write"
  /\ device' \in {device, Took(Counted)}
  /\ task' = IF task.api = "async" THEN BlockOver(task) ELSE Broken
  /\ UNCHANGED <<local, sizeKnown>>

\* A write request fails, taken by the device or not.  setParam returns what was
\* written before, and anything but 0 passes for success; WriteParamRequest does
\* so, with a warning, only when the answer was InvalidIndex.
WriteFails ==
  /\ task.step = "write"
  /\ device' \in {device, Took(Counted)}
  /\ \/ /\ task.api = "sync" \/ device' = device
        /\ task.count > 0
        /\ task' = [BlockOver(task) EXCEPT !.warned = @ \/ task.api = "async"]
     \/ /\ task.api = "async" \/ task.count = 0
        /\ task' = Broken
  /\ UNCHANGED <<local, sizeKnown>>

\* The confirmation that makes the device use its new image.
Confirm ==
  /\ task.step = "confirm"
  /\ \/ /\ device' = [device EXCEPT !.confirmed = TRUE]
        /\ task' \in {Broken, [task EXCEPT !.step = "restart"]}
     \/ task' = Broken /\ device' = device
  /\ UNCHANGED <<local, sizeKnown>>

\* Sizes known of the old firmware are forgotten after a success.
Restart ==
  /\ task.step = "restart"
  /\ IF task.result = "failed"
       THEN task' = Ended("failed") /\ UNCHANGED sizeKnown
       ELSE task' = [task EXCEPT !.step = "reconnect"] /\ sizeKnown' = FALSE
  /\ UNCHANGED <<device, local>>

\* The device comes back in time or not.
Reconnect ==
  /\ task.step = "reconnect"
  /\ task' \in {Ended("ok"), Ended("failed")}
  /\ UNCHANGED <<device, local, sizeKnown>>

Next ==
  \/ \E api \in {"sync", "async"}, kind \in {"download", "upload", "update"},
        size \in Sizes, buffer \in Buffers : Begin(api, kind, size, buffer)
  \/ Ask \/ WrongImage \/ Open \/ Attr \/ Seek \/ Create \/ OpenSource
  \/ ReadAnswered \/ ReadBusy \/ ReadFails \/ ReadEnds \/ ReadNothing \/ Again
  \/ Store
  \/ NextBlock \/ SourceFails \/ SetProfile \/ WriteAnswered \/ WriteFails
  \/ Confirm \/ Restart \/ Reconnect

Spec == Init /\ [][Next]_vars

-----------------------------------------------------------------------------
(* Properties.                                                             *)

\* Whatever was lost, repeated or cut short, a download leaves the whole file
\* of the device or no file, never a part of it or a mixture.
LocalWholeOrGone ==
  task.kind = "download" /\ task.step = "idle" =>
    /\ task.result = "ok" => local.state = "open" /\ local.data = device.file
    /\ task.result = "failed" => local.state # "open"

\* A reported success of an upload means that the device has the file, for the
\* requests as long as they gave no warning and for uploadFile as long as each
\* block fits in one write.
UploadedWhole ==
  task.kind = "upload" /\ task.result = "ok"
    /\ (IF task.api = "async" THEN ~task.warned ELSE task.block <= task.max)
  => device.file = Bytes(task.size)

\* Across the wraps of its 16-bit addresses an image is confirmed only with
\* every byte at its own address, and with no byte missing as long as each block
\* fits in one write.
FlashIsImage ==
  device.confirmed =>
    /\ \A a \in DOMAIN device.flash : device.flash[a] = a
    /\ task.block <= task.max => DOMAIN device.flash = 0 .. task.size - 1

\* What Channel.h says of setParam, for the file: when it is not set whole an
\* error is raised, so that a success is the whole file.
UploadIsWhole ==
  task.kind = "upload" /\ task.api = "sync" /\ task.result = "ok" =>
    device.file = Bytes(task.size)

=============================================================================
