------------------------- MODULE FileTransferProofs -------------------------
(***************************************************************************)
(* What FileTransfer does to a file and to the flash of a device, for any  *)
(* sizes of files, buffers and addresses.                                  *)
(***************************************************************************)
EXTENDS FileTransfer, SequenceTheorems, TLAPS

Data == Seq(1 .. Last)

\* What the flash may hold at any addresses.
Flashes == UNION {[addresses -> Nat] : addresses \in SUBSET Nat}

Devices == [file: Data, pos: Nat, flash: Flashes, profile: Nat, confirmed: BOOLEAN]
Locals == [state: {"old", "open", "gone"}, data: Data]
Tasks ==
  [api: {"sync", "async"}, kind: {"download", "upload", "update"}, step: Steps,
   size: 0 .. Last, block: Nat \ {0}, max: Nat \ {0}, done: Nat, pack: Data,
   count: Nat, retried: BOOLEAN, warned: BOOLEAN, profile: Nat,
   result: {"none", "ok", "failed", "crashed"}]

Types ==
  device \in Devices /\ local \in Locals /\ sizeKnown \in BOOLEAN /\ task \in Tasks

\* Steps before the first block of a transfer.
Asking == {"dataSize", "open", "attr", "seek", "create", "source", "softId", "auth",
           "header"}

\* The steps a transfer goes through.
StepsOf(api, kind) ==
  CASE kind = "download" ->
         {"open", "attr", "seek", "create", "read"}
            \union (IF api = "sync" THEN {"dataSize", "again"} ELSE {"store"})
    [] kind = "upload" ->
         {"source", "open", "next", "write"}
            \union (IF api = "sync" THEN {"dataSize"} ELSE {})
    [] OTHER -> {"source", "softId", "auth", "header", "next", "profile", "write",
                 "confirm", "restart", "reconnect"}

Course ==
  /\ task.step \in {"idle"} \union StepsOf(task.api, task.kind)
  /\ task.kind = "update" => task.api = "sync"
  /\ task.step # "idle" =>
       task.result = "none" \/ (task.step = "restart" /\ task.result = "failed")

BlockLeft == Lesser(task.block, task.size - task.done)

\* The parts of a transfer stay within it.
Counts ==
  /\ device.pos <= Len(device.file)
  /\ task.kind = "download" => Len(device.file) < Last
  /\ task.done <= task.size
  /\ task.step \in Asking => task.done = 0 /\ task.count = 0 /\ task.pack = <<>>
  /\ task.kind # "download" => task.pack = <<>>
  /\ Len(task.pack) <= task.block
  /\ task.step \in {"read", "again", "store"} => Len(task.pack) <= BlockLeft
  /\ task.count < task.block
  /\ task.step \in {"next", "profile"} => task.count = 0
  /\ task.step \in {"write", "profile"} => task.done < task.size /\ task.count < BlockLeft

-----------------------------------------------------------------------------
(* Downloads.                                                              *)

\* What was stored and what was read but not stored are the beginning of the
\* device's file, and its pointer is at the end of them.
Stored ==
  /\ local.state = "open" /\ local.data = SubSeq(device.file, 1, task.done)
  /\ device.pos = task.done + Len(task.pack)
  /\ task.pack = SubSeq(device.file, task.done + 1, device.pos)

DownloadInv ==
  task.kind = "download" =>
    /\ task.step \in Asking => local.state = "old"
    /\ task.step \in {"seek", "create", "read", "again", "store"} =>
         task.size >= Len(device.file)
    /\ task.step = "create" => device.pos = 0
    /\ task.step \in {"read", "again", "store"} => Stored
    /\ LocalWholeOrGone

-----------------------------------------------------------------------------
(* Uploads.                                                                *)

\* Transfers that skip no part of a block.
Unbroken == IF task.api = "async" THEN ~task.warned ELSE task.block <= task.max

UploadInv ==
  task.kind = "upload" =>
    /\ Lesser(task.max, task.block) < CountMod
    /\ Unbroken =>
         /\ task.step \in {"next", "write"} => device.file = Bytes(task.done + task.count)
         /\ task.step = "write" /\ task.api = "sync" => task.count = 0
         /\ task.step = "idle" => UploadedWhole

-----------------------------------------------------------------------------
(* Updates.                                                                *)

Placed == \A a \in DOMAIN device.flash : device.flash[a] = a

\* The address in flash of the first byte of the block, by the profile set last,
\* or by the one to be set next.
Set == device.profile * Wrap + Part = task.done /\ task.profile = device.profile + 1
ToSet == task.profile * Wrap = task.done

UpdateInv ==
  /\ device.confirmed => task.kind = "update"
  /\ task.kind = "update" =>
       /\ task.block = UpdateBlock
       /\ task.step \in Asking => DOMAIN device.flash = {} /\ task.profile = 0
       /\ task.step \in Asking \union {"next", "profile", "write", "confirm"} =>
            /\ ~device.confirmed
            /\ Placed
            /\ task.block <= task.max =>
                 DOMAIN device.flash = 0 .. task.done + task.count - 1
       /\ task.step \in {"next", "profile", "write"} =>
            task.done = task.size \/ task.done % UpdateBlock = 0
       /\ task.step = "next" => task.done = task.size \/ (IF Part = 0 THEN ToSet ELSE Set)
       /\ task.step = "profile" => Part = 0 /\ ToSet
       /\ task.step = "write" => Set
       /\ task.step = "write" /\ task.block <= task.max => task.count = 0
       /\ task.step = "confirm" => task.done = task.size /\ task.count = 0
       /\ device.confirmed => FlashIsImage

\* The invariants that hold for any numbers of items in a write.
BaseInv == Types /\ Course /\ Counts /\ DownloadInv

\* The number of items of a write fits its field, in uploads and in updates.
UploadsFit == \A b \in Buffers : Lesser(b.max, b.block) < CountMod
UpdatesFit == UpdateBlock < CountMod

-----------------------------------------------------------------------------
(* Numbers.                                                                *)

LEMMA LesserIs ==
  ASSUME NEW m \in Int, NEW n \in Int
  PROVE  Lesser(m, n) = IF m <= n THEN m ELSE n
<1>1. PICK k \in {m, n} : \A i \in {m, n} : k <= i
  OBVIOUS
<1>2. /\ Lesser(m, n) \in {m, n}
      /\ \A i \in {m, n} : Lesser(m, n) <= i
  BY <1>1 DEF Lesser, Min
<1> QED
  BY <1>2

LEMMA LastIs ==
  ASSUME TransferAssumption
  PROVE  Last \in Nat /\ \A n \in Sizes : n < Last
<1>1. PICK most \in Sizes : \A n \in Sizes : most >= n
  BY DEF TransferAssumption
<1>2. Max(Sizes) \in Sizes /\ \A n \in Sizes : Max(Sizes) >= n
  BY <1>1 DEF Max
<1>3. Sizes \subseteq Nat
  BY DEF TransferAssumption
<1>4. PICK top \in Nat : top = Max(Sizes) /\ \A n \in Sizes : top >= n
  BY <1>2, <1>3
<1> QED
  BY <1>3, <1>4 DEF Last

LEMMA DivMod ==
  ASSUME NEW W \in Nat \ {0}, NEW d \in Nat
  PROVE  /\ d \div W \in Nat /\ d % W \in 0 .. W - 1
         /\ d = W * (d \div W) + (d % W)
OBVIOUS

LEMMA MultPos ==
  ASSUME NEW W \in Nat \ {0}, NEW a \in Int, a >= 1
  PROVE  W * a >= W
OBVIOUS

LEMMA Unique ==
  ASSUME NEW W \in Nat \ {0}, NEW q \in Int, NEW p \in Int,
         NEW r \in 0 .. W - 1, NEW s \in 0 .. W - 1, W * q + r = W * p + s
  PROVE  q = p /\ r = s
<1>1. W * (q - p) = s - r
  OBVIOUS
<1>2. ~(q - p >= 1)
  BY <1>1, MultPos
<1>3. ~(p - q >= 1)
  <2>1. W * (p - q) = r - s
    OBVIOUS
  <2> QED BY <2>1, MultPos
<1>4. q = p
  BY <1>2, <1>3
<1> QED BY <1>1, <1>4

LEMMA ModIs ==
  ASSUME NEW W \in Nat \ {0}, NEW d \in Nat, NEW q \in Int, NEW r \in 0 .. W - 1, d = W * q + r
  PROVE  d % W = r
<1>1. PICK p \in Nat, s \in 0 .. W - 1 : p = d \div W /\ s = d % W /\ d = W * p + s
  BY DivMod
<1>2. W * p + s = W * q + r
  BY <1>1
<1>3. s = r
  BY <1>2, Unique
<1> QED BY <1>1, <1>3

LEMMA Multiple ==
  ASSUME NEW U \in Nat \ {0}, NEW d \in Nat, d % U = 0
  PROVE  \E m \in Nat : d = U * m
<1>1. d \div U \in Nat /\ d = U * (d \div U) + (d % U)
  BY DivMod
<1>2. U * (d \div U) \in Int
  BY <1>1
<1>3. d = U * (d \div U)
  BY <1>1, <1>2
<1> QED BY <1>1, <1>3

LEMMA NextMultiple ==
  ASSUME NEW U \in Nat \ {0}, NEW d \in Nat, d % U = 0
  PROVE  (d + U) % U = 0
<1>1. PICK m \in Nat : d = U * m
  BY Multiple
<1>2. d + U = U * (m + 1) + 0
  BY <1>1
<1>3. d + U \in Nat /\ m + 1 \in Int /\ 0 \in 0 .. (U - 1)
  OBVIOUS
<1> QED BY <1>2, <1>3, ModIs

\* A block that starts at a multiple of its size does not cross a wrap.
LEMMA Room ==
  ASSUME NEW U \in Nat \ {0}, NEW W \in Nat \ {0}, W % U = 0, NEW d \in Nat, d % U = 0
  PROVE  (d % W) + U <= W
<1>1. PICK k \in Nat : W = U * k
  BY Multiple
<1>2. PICK m \in Nat : d = U * m
  BY Multiple
<1>3. PICK q \in Nat, r \in 0 .. W - 1 : d = W * q + r /\ r = d % W
  BY DivMod
<1>4. PICK x \in Int : x = k * q
  OBVIOUS
<1>5. W * q = U * x
  <2>1. (U * k) * q = U * (k * q)
    OBVIOUS
  <2>2. W * q = (U * k) * q
    BY <1>1, Zenon
  <2> QED BY <2>1, <2>2, <1>4, Zenon
<1>6. r = U * (m - x)
  <2>1. U * (m - x) = U * m - U * x
    OBVIOUS
  <2>2. U * m = U * x + r
    BY <1>2, <1>3, <1>5, Zenon
  <2>3. U * m \in Int /\ U * x \in Int
    OBVIOUS
  <2> QED BY <2>1, <2>2, <2>3
<1>7. W - r = U * (k - (m - x))
  <2>1. U * (k - (m - x)) = U * k - U * (m - x)
    OBVIOUS
  <2> QED BY <2>1, <1>1, <1>6
<1>8. PICK y \in Int : y = k - (m - x)
  OBVIOUS
<1>9. W - r = U * y
  BY <1>7, <1>8
<1>10. y >= 1
  <2>1. ASSUME y <= 0 PROVE FALSE
    <3>1. U * (0 - y) >= 0
      BY <2>1
    <3>2. U * (0 - y) = 0 - U * y
      OBVIOUS
    <3>3. W - r > 0
      BY <1>3
    <3>4. U * y \in Int
      OBVIOUS
    <3> QED BY <3>1, <3>2, <3>3, <3>4, <1>9
  <2> QED BY <2>1
<1>11. W - r >= U
  BY <1>9, <1>10, MultPos
<1> QED BY <1>3, <1>11

\* Steps within a wrap and to its end.
LEMMA ModStep ==
  ASSUME NEW W \in Nat \ {0}, NEW d \in Nat, NEW n \in Nat, NEW e \in Nat, e = d + n,
         NEW r \in Nat, r = d % W
  PROVE  /\ r + n = W => e % W = 0
         /\ r + n < W => e % W = r + n
<1>1. PICK q \in Nat : d = W * q + r /\ r \in 0 .. W - 1
  BY DivMod
<1>2. PICK v \in Int : v = W * q
  OBVIOUS
<1>3. ASSUME r + n = W PROVE e % W = 0
  <2>1. W * (q + 1) = v + W
    BY <1>2
  <2>2. e = W * (q + 1) + 0
    BY <1>1, <1>2, <1>3, <2>1
  <2>3. q + 1 \in Int /\ 0 \in 0 .. W - 1
    OBVIOUS
  <2> QED BY <2>2, <2>3, ModIs
<1>4. ASSUME r + n < W PROVE e % W = r + n
  <2>1. e = W * q + (r + n)
    BY <1>1, <1>2
  <2>2. q \in Int /\ r + n \in 0 .. W - 1
    BY <1>1, <1>4
  <2> QED BY <2>1, <2>2, ModIs
<1> QED BY <1>3, <1>4

-----------------------------------------------------------------------------
(* The prologue.                                                           *)

\* The step of the prologue after the present one.
After ==
  CASE task.step = "dataSize" -> IF task.kind = "download" THEN "open" ELSE "source"
    [] task.step = "source" -> IF task.kind = "upload" THEN "open" ELSE "softId"
    [] task.step = "open" -> IF task.kind = "download" THEN "attr" ELSE "next"
    [] task.step = "attr" -> "seek"
    [] task.step = "seek" -> "create"
    [] task.step = "create" -> "read"
    [] task.step = "softId" -> "auth"
    [] task.step = "auth" -> "header"
    [] OTHER -> "next"

LEMMA AdvancedIs ==
  ASSUME Types, Course, task.step \in Asking
  PROVE  Advanced = [task EXCEPT !.step = After]
<1>1. DEFINE p == Prologue(task.api, task.kind)
<1>2. p[1 + CHOOSE i \in DOMAIN p : p[i] = task.step] = After
  <2>1. CASE task.kind = "download" /\ task.api = "sync"
    <3>1. p = <<"dataSize", "open", "attr", "seek", "create", "read">>
      BY <2>1 DEF Prologue
    <3> QED BY <3>1, <2>1 DEF Course, StepsOf, Asking, After
  <2>2. CASE task.kind = "download" /\ task.api = "async"
    <3>1. p = <<"open", "attr", "seek", "create", "read">>
      BY <2>2 DEF Prologue
    <3> QED BY <3>1, <2>2 DEF Course, StepsOf, Asking, After
  <2>3. CASE task.kind = "upload" /\ task.api = "sync"
    <3>1. p = <<"dataSize", "source", "open", "next">>
      BY <2>3 DEF Prologue
    <3> QED BY <3>1, <2>3 DEF Course, StepsOf, Asking, After
  <2>4. CASE task.kind = "upload" /\ task.api = "async"
    <3>1. p = <<"source", "open", "next">>
      BY <2>4 DEF Prologue
    <3> QED BY <3>1, <2>4 DEF Course, StepsOf, Asking, After
  <2>5. CASE task.kind = "update"
    <3>1. p = <<"source", "softId", "auth", "header", "next">>
      BY <2>5 DEF Prologue
    <3> QED BY <3>1, <2>5 DEF Course, StepsOf, Asking, After
  <2> QED
    BY <2>1, <2>2, <2>3, <2>4, <2>5 DEF Types, Tasks
<1> QED
  BY <1>2 DEF Advanced

-----------------------------------------------------------------------------
(* Sequences of bytes.                                                     *)

LEMMA BytesAre ==
  ASSUME TransferAssumption, NEW n \in 0 .. Last
  PROVE  Bytes(n) \in Data /\ Len(Bytes(n)) = n
BY LastIs DEF Bytes, Data

LEMMA BytesExtended ==
  ASSUME NEW m \in Nat, NEW n \in Nat
  PROVE  Bytes(m) \o [i \in 1 .. n |-> m + i] = Bytes(m + n)
BY DEF Bytes

LEMMA Adjacent ==
  ASSUME NEW s \in Data, NEW a \in Nat \ {0}, NEW b \in Nat, NEW c \in Nat,
         NEW next \in Nat, next = b + 1, a <= next, b <= c, c <= Len(s)
  PROVE  SubSeq(s, a, b) \o SubSeq(s, next, c) = SubSeq(s, a, c)
<1>1. s \in Seq(1 .. Last) /\ Len(s) \in Nat
  BY LenProperties DEF Data
<1>2. a \in 1 .. Len(s) + 1 /\ b \in a - 1 .. Len(s) /\ c \in b .. Len(s)
  BY <1>1
<1> QED
  BY <1>1, <1>2, ConcatAdjacentSubSeq

-----------------------------------------------------------------------------
(* Types.                                                                  *)

LEMMA ReadTypes ==
  ASSUME Types, NEW n \in Nat, device.pos + n <= Len(device.file)
  PROVE  /\ Read(n) \in Data /\ Len(Read(n)) = n
         /\ Read(n) = SubSeq(device.file, device.pos + 1, device.pos + n)
<1>1. device.file \in Data /\ device.pos \in Nat
  BY DEF Types, Devices
<1>2. \A i \in device.pos + 1 .. device.pos + n : device.file[i] \in 1 .. Last
  <2>1. device.file \in [1 .. Len(device.file) -> 1 .. Last] /\ Len(device.file) \in Nat
    BY <1>1, LenProperties DEF Data
  <2> QED BY <1>1, <2>1
<1>3. /\ SubSeq(device.file, device.pos + 1, device.pos + n) \in Data
      /\ Len(SubSeq(device.file, device.pos + 1, device.pos + n)) = n
  BY <1>1, <1>2, SubSeqProperties DEF Data
<1> QED
  BY <1>3 DEF Read

LEMMA Fields ==
  ASSUME Types, Counts, TransferAssumption
  PROVE  /\ Last \in Nat /\ task.size \in Nat /\ task.size <= Last
         /\ task.done \in Nat /\ task.done <= task.size
         /\ task.block \in Nat \ {0} /\ task.max \in Nat \ {0}
         /\ task.count \in Nat /\ task.profile \in Nat
         /\ task.pack \in Data /\ Len(task.pack) \in Nat
         /\ device.file \in Data /\ Len(device.file) \in Nat
         /\ device.pos \in Nat /\ device.pos <= Len(device.file)
         /\ device.profile \in Nat
BY LastIs, LenProperties DEF Types, Tasks, Devices, Counts, Data

LEMMA BlockIs ==
  ASSUME Types, Counts, TransferAssumption
  PROVE  /\ BlockLeft = (IF task.block <= task.size - task.done THEN task.block
                                                          ELSE task.size - task.done)
         /\ BlockLeft \in Nat /\ BlockSize = BlockLeft
         /\ BlockLeft <= task.size - task.done /\ BlockLeft <= task.block
         /\ Left = BlockLeft - Len(task.pack)
BY SMTT(30), LesserIs DEF Types, Tasks, Counts, BlockLeft, BlockSize, Left

LEMMA BatchIs ==
  ASSUME TransferAssumption, Types, Counts, task.step = "write"
  PROVE  /\ Batch = (IF task.max <= BlockLeft - task.count THEN task.max
                                                          ELSE BlockLeft - task.count)
         /\ Batch \in 1 .. BlockLeft - task.count
         /\ Counted \in 0 .. Batch
         /\ Batch < CountMod => Counted = Batch
<1>1. /\ BlockLeft \in Nat /\ BlockSize = BlockLeft /\ task.count \in Nat
      /\ task.max \in Nat \ {0} /\ task.count < BlockLeft /\ CountMod \in Nat \ {0}
  BY BlockIs DEF Types, Tasks, Counts, TransferAssumption
<1>2. /\ Batch = (IF task.max <= BlockLeft - task.count THEN task.max
                                                       ELSE BlockLeft - task.count)
      /\ Batch \in 1 .. BlockLeft - task.count
  BY <1>1, LesserIs DEF Batch
<1>3. /\ Batch % CountMod \in 0 .. Batch
      /\ Batch < CountMod => Batch % CountMod = Batch
  BY <1>1, <1>2
<1> QED
  BY <1>2, <1>3 DEF Counted

\* An upload's request is appended to the file.
LEMMA TookFile ==
  ASSUME TransferAssumption, Types, Counts, task.step = "write", task.kind = "upload",
         NEW n \in 0 .. Batch
  PROVE  /\ Took(n) \in Devices
         /\ Len(Took(n).file) = Len(device.file) + n
         /\ Took(n).file = device.file \o [i \in 1 .. n |-> task.done + task.count + i]
         /\ Took(n).pos = device.pos + n
         /\ Took(n).confirmed = device.confirmed
<1>1. n \in Nat /\ n <= BlockLeft - task.count /\ BlockLeft \in Nat
  <2>1. Batch \in 1 .. BlockLeft - task.count
    BY BatchIs
  <2>2. BlockLeft \in Nat
    BY BlockIs
  <2> QED BY SMTT(30), <2>1, <2>2, Fields
<1>2. BlockLeft <= task.size - task.done
  BY BlockIs
<1>3. \A i \in 1 .. n : task.done + task.count + i \in 1 .. Last
  <2>1. \A i \in 1 .. n : i \in Nat /\ i <= BlockLeft - task.count
    BY SMTT(30), <1>1, Fields
  <2>2. /\ Last \in Nat /\ task.size \in Nat /\ task.size <= Last
        /\ task.done \in Nat /\ task.count \in Nat
    BY Fields
  <2> QED BY <1>1, <1>2, <2>1, <2>2
<1> DEFINE new == [i \in 1 .. n |-> task.done + task.count + i]
<1>4. new \in Data /\ Len(new) = n
  BY <1>1, <1>3 DEF Data
<1>5. device.file \o new \in Data /\ Len(device.file \o new) = Len(device.file) + n
  BY <1>4, ConcatProperties DEF Types, Devices, Data
<1>6. Took(n) = [device EXCEPT !.file = device.file \o new, !.pos = device.pos + n]
  BY DEF Took, Types, Devices
<1> HIDE DEF new
<1>7. [device EXCEPT !.file = device.file \o new, !.pos = device.pos + n] \in Devices
  <2>1. \A f \in Data, p \in Nat : [device EXCEPT !.file = f, !.pos = p] \in Devices
    BY DEF Types, Devices
  <2>2. device.pos + n \in Nat
    BY SMTT(30), <1>1, Fields
  <2> QED BY <1>5, <2>1, <2>2
<1>8. /\ Took(n).file = device.file \o new /\ Took(n).pos = device.pos + n
      /\ Took(n).confirmed = device.confirmed
  BY <1>6 DEF Types, Devices
<1> QED
  BY <1>5, <1>6, <1>7, <1>8 DEF new

\* Where the flash puts the items of a request, and what they are.
Address(i) == device.profile * Wrap + ((Part + task.count + i) % Wrap)
Written(n) == {Address(i) : i \in 0 .. n - 1}
ByteAt(n, a) == task.done + task.count + (CHOOSE i \in 0 .. n - 1 : Address(i) = a)

LEMMA TookFlash ==
  ASSUME TransferAssumption, Types, Counts, task.step = "write", task.kind = "update",
         NEW n \in 0 .. Batch
  PROVE  /\ Took(n) \in Devices
         /\ Took(n) = [device EXCEPT !.flash =
                          [a \in Written(n) \union DOMAIN device.flash |->
                             IF a \in Written(n) THEN ByteAt(n, a) ELSE device.flash[a]]]
<1> DEFINE flash == [a \in Written(n) \union DOMAIN device.flash |->
                       IF a \in Written(n) THEN ByteAt(n, a) ELSE device.flash[a]]
<1>1. Took(n) = [device EXCEPT !.flash = flash]
  BY DEF Took, Written, ByteAt, Address, Types, Devices
<1>2. n \in Nat
  BY BatchIs, BlockIs DEF Types, Tasks
<1>3. \A i \in 0 .. n - 1 : Address(i) \in Nat
  <2>1. device.profile * Wrap \in Nat /\ Wrap \in Nat \ {0} /\ Part \in Nat
    BY DEF Types, Devices, Tasks, TransferAssumption, Part
  <2>2. \A i \in 0 .. n - 1 : (Part + task.count + i) % Wrap \in Nat
    BY <2>1, <1>2 DEF Types, Tasks
  <2> QED BY <2>1, <2>2 DEF Address
<1>4. \A a \in Written(n) : a \in Nat /\ ByteAt(n, a) \in Nat
  <2>1. ASSUME NEW a \in Written(n) PROVE a \in Nat /\ ByteAt(n, a) \in Nat
    <3>1. PICK i \in 0 .. n - 1 : Address(i) = a
      BY DEF Written
    <3>2. (CHOOSE j \in 0 .. n - 1 : Address(j) = a) \in 0 .. n - 1
      BY <3>1
    <3> QED BY <1>2, <1>3, <3>1, <3>2 DEF ByteAt, Types, Tasks
  <2> QED BY <2>1
<1>5. PICK addresses \in SUBSET Nat : device.flash \in [addresses -> Nat]
  BY DEF Types, Devices, Flashes
<1>6. flash \in [Written(n) \union addresses -> Nat]
  BY <1>4, <1>5
<1>7. flash \in Flashes
  BY <1>4, <1>5, <1>6 DEF Flashes
<1> HIDE DEF flash
<1>8. [device EXCEPT !.flash = flash] \in Devices
  BY <1>7 DEF Types, Devices
<1> QED
  BY <1>1, <1>8 DEF flash

LEMMA TypesBegin ==
  ASSUME TransferAssumption, Types,
         NEW api \in {"sync", "async"}, NEW kind \in {"download", "upload", "update"},
         NEW size \in Sizes, NEW buffer \in Buffers, Begin(api, kind, size, buffer)
  PROVE  Types'
<1>1. Bytes(size) \in Data /\ <<>> \in Data
  BY LastIs, BytesAre, EmptySeq DEF Data, TransferAssumption
<1>2. <<>> \in Flashes
  <2>1. <<>> \in [{} -> Nat]
    OBVIOUS
  <2> QED BY <2>1 DEF Flashes
<1>3. device' \in Devices
  BY <1>1, <1>2 DEF Begin, Devices
<1>4. local' \in Locals /\ sizeKnown' \in BOOLEAN
  BY <1>1 DEF Begin, Locals, Types
<1>5. Prologue(api, kind)[1] \in Steps
  BY DEF Prologue, Steps
<1>6. buffer.block \in Nat \ {0} /\ buffer.max \in Nat \ {0} /\ UpdateBlock \in Nat \ {0}
  BY DEF TransferAssumption
<1>7. size \in 0 .. Last /\ 0 \in 0 .. Last
  BY LastIs DEF TransferAssumption
<1>8. task' \in Tasks
  BY <1>1, <1>5, <1>6, <1>7 DEF Begin, Tasks
<1> QED
  BY <1>3, <1>4, <1>8 DEF Types

\* The transfer with some fields changed.
LEMMA FieldTypes ==
  ASSUME NEW t \in Tasks
  PROVE  /\ \A step \in Steps : [t EXCEPT !.step = step] \in Tasks
         /\ \A step \in Steps, result \in {"ok", "failed", "crashed"} :
              [t EXCEPT !.step = step, !.result = result] \in Tasks
         /\ \A step \in Steps, done \in Nat :
              [t EXCEPT !.done = done, !.count = 0, !.step = step] \in Tasks
         /\ \A done \in Nat :
              [t EXCEPT !.done = done, !.pack = <<>>, !.retried = FALSE] \in Tasks
         /\ \A step \in Steps :
              [t EXCEPT !.step = step, !.pack = <<>>, !.retried = TRUE] \in Tasks
         /\ \A step \in Steps, profile \in Nat :
              [t EXCEPT !.step = step, !.profile = profile] \in Tasks
         /\ \A size \in 0 .. Last : [t EXCEPT !.size = size] \in Tasks
<1>1. <<>> \in Data
  BY EmptySeq DEF Data
<1>2. \A step \in Steps : [t EXCEPT !.step = step] \in Tasks
  BY DEF Tasks
<1>3. \A step \in Steps, result \in {"ok", "failed", "crashed"} :
        [t EXCEPT !.step = step, !.result = result] \in Tasks
  BY DEF Tasks
<1>4. \A step \in Steps, done \in Nat :
        [t EXCEPT !.done = done, !.count = 0, !.step = step] \in Tasks
  BY DEF Tasks
<1>5. \A done \in Nat : [t EXCEPT !.done = done, !.pack = <<>>, !.retried = FALSE] \in Tasks
  BY <1>1 DEF Tasks
<1>6. \A step \in Steps : [t EXCEPT !.step = step, !.pack = <<>>, !.retried = TRUE] \in Tasks
  BY <1>1 DEF Tasks
<1>7. \A step \in Steps, profile \in Nat :
        [t EXCEPT !.step = step, !.profile = profile] \in Tasks
  BY DEF Tasks
<1>8. \A size \in 0 .. Last : [t EXCEPT !.size = size] \in Tasks
  BY DEF Tasks
<1> QED
  BY <1>2, <1>3, <1>4, <1>5, <1>6, <1>7, <1>8

LEMMA EndedTypes ==
  ASSUME Types
  PROVE  \A result \in {"ok", "failed", "crashed"} :
           /\ Ended(result) \in Tasks
           /\ Discard(result) => task' \in Tasks /\ local' \in Locals
<1>1. \A result \in {"ok", "failed", "crashed"} : Ended(result) \in Tasks
  BY FieldTypes DEF Types, Ended, Steps
<1>2. [local EXCEPT !.state = "gone"] \in Locals
  BY DEF Types, Locals
<1> QED
  BY <1>1, <1>2 DEF Discard

LEMMA AdvancedTypes ==
  ASSUME Types, Course, task.step \in Asking
  PROVE  Advanced \in Tasks
<1>1. After \in Steps
  BY DEF After, Steps
<1> QED
  BY <1>1, AdvancedIs DEF Types, Tasks

LEMMA AtMostIs ==
  ASSUME TransferAssumption, Types, Counts
  PROVE  /\ Lesser(MaxPerRead, Left) \in Int
         /\ Lesser(MaxPerRead, Left) <= Left
         /\ Left \in Int
<1>1. Left \in Int
  <2>1. Left = BlockLeft - Len(task.pack) /\ BlockLeft \in Nat
    BY BlockIs
  <2> QED BY <2>1, Fields
<1>2. MaxPerRead \in Nat
  BY DEF TransferAssumption
<1> QED
  BY <1>1, <1>2, LesserIs

LEMMA TypesNext ==
  ASSUME TransferAssumption, Types, Course, Counts, Next
  PROVE  Types'
<1> USE DEF Types
<1>1. CASE Ask
  BY <1>1, EndedTypes, AdvancedTypes DEF Ask, Asking
<1>2. CASE WrongImage
  BY <1>2, EndedTypes DEF WrongImage
<1>3. CASE Open
  <2>1. \A file \in Data : [device EXCEPT !.file = file, !.pos = 0] \in Devices
    BY DEF Devices
  <2>2. <<>> \in Data /\ device.file \in Data
    BY EmptySeq DEF Devices, Data
  <2>3. device' \in Devices
    BY <1>3, <2>1, <2>2 DEF Open
  <2> QED BY <1>3, <2>3, EndedTypes, AdvancedTypes DEF Open, Asking
<1>4. CASE Attr
  <2>1. CASE task' = Ended("failed")
    BY <1>4, <2>1, EndedTypes DEF Attr
  <2>2. ASSUME NEW extra \in {0, 1}, task' = [Advanced EXCEPT !.size = Len(device.file) + extra]
        PROVE  task' \in Tasks
    <3>1. task.kind = "download"
      BY <1>4 DEF Attr, Course, StepsOf, Tasks
    <3>2. Len(device.file) + extra \in 0 .. Last
      BY SMTT(30), <3>1, Fields DEF Counts
    <3> QED BY <1>4, <2>2, <3>2, AdvancedTypes, FieldTypes DEF Attr, Asking
  <2> QED BY <1>4, <2>1, <2>2 DEF Attr
<1>5. CASE Seek
  <2>1. device' \in Devices
    BY <1>5 DEF Seek, Devices
  <2> QED BY <1>5, <2>1, EndedTypes, AdvancedTypes DEF Seek, Asking
<1>6. CASE Create
  <2>1. local' \in Locals
    <3>1. <<>> \in Data
      BY EmptySeq DEF Data
    <3>2. [state |-> "open", data |-> <<>>] \in Locals
      BY <3>1 DEF Locals
    <3> QED BY <1>6, <3>2 DEF Create
  <2> QED BY <1>6, <2>1, EndedTypes, AdvancedTypes DEF Create, Asking
<1>7. CASE OpenSource
  BY <1>7, EndedTypes, AdvancedTypes DEF OpenSource, Asking
<1>8. CASE ReadAnswered
  <2>1. PICK n \in 1 .. Lesser(MaxPerRead, Left) :
          /\ device.pos + n <= Len(device.file)
          /\ device' = [device EXCEPT !.pos = @ + n]
          /\ task' = [task EXCEPT !.pack = @ \o Read(n)]
    BY <1>8 DEF ReadAnswered
  <2>2. Lesser(MaxPerRead, Left) \in Int
    BY AtMostIs
  <2>3. n \in Nat
    BY <2>2
  <2>4. Read(n) \in Data
    BY <2>1, <2>3, ReadTypes
  <2>5. task.pack \o Read(n) \in Data
    BY <2>4, Fields, ConcatProperties DEF Data
  <2>6. task' \in Tasks
    BY <2>1, <2>5 DEF Tasks
  <2>7. device' \in Devices
    BY <2>1, <2>3 DEF Devices
  <2> QED BY <1>8, <2>6, <2>7 DEF ReadAnswered
<1>9. CASE ReadBusy
  BY <1>9 DEF ReadBusy, Tasks, Steps
<1>10. CASE ReadFails
  <2>1. PICK n \in 0 .. Lesser(MaxPerRead, Left) :
          device' = [device EXCEPT !.pos = @ + n]
    BY <1>10 DEF ReadFails
  <2>2. Lesser(MaxPerRead, Left) \in Int
    BY AtMostIs
  <2>3. device' \in Devices
    BY <2>1, <2>2 DEF Devices
  <2> QED BY <1>10, <2>3, EndedTypes DEF ReadFails
<1>11. CASE ReadEnds
  BY <1>11 DEF ReadEnds, Tasks, Steps
<1>12. CASE ReadNothing
  BY <1>12, EndedTypes DEF ReadNothing
<1>13. CASE Again
  <2>1. device' \in Devices
    BY <1>13, Fields DEF Again, Devices
  <2>2. CASE Discard("failed")
    BY <1>13, <2>1, <2>2, EndedTypes DEF Again
  <2>3. [task EXCEPT !.step = "read", !.pack = <<>>, !.retried = TRUE] \in Tasks
    BY FieldTypes DEF Steps
  <2> QED BY <1>13, <2>1, <2>2, <2>3 DEF Again
<1>14. CASE Store
  <2>1. CASE Discard("failed")
    BY <1>14, <2>1, EndedTypes DEF Store
  <2>2. CASE ~Discard("failed")
    <3>1. local' = [local EXCEPT !.data = @ \o task.pack]
      BY <1>14, <2>2 DEF Store
    <3>2. local.data \o task.pack \in Data
      BY Fields, ConcatProperties DEF Data, Locals
    <3>3. local' \in Locals
      BY <3>1, <3>2 DEF Locals
    <3>4. task.done + Len(task.pack) \in Nat
      BY SMTT(30), Fields
    <3>5. PICK next \in {Ended("ok"), [task EXCEPT !.step = "read"]} :
            task' = [next EXCEPT !.done = task.done + Len(task.pack), !.pack = <<>>,
                                 !.retried = FALSE]
      BY <1>14, <2>2 DEF Store
    <3>6. next \in Tasks
      <4>1. Ended("ok") \in Tasks
        BY EndedTypes
      <4>2. [task EXCEPT !.step = "read"] \in Tasks
        BY FieldTypes DEF Steps
      <4> QED BY <3>5, <4>1, <4>2
    <3>7. task' \in Tasks
      BY <3>4, <3>5, <3>6, FieldTypes
    <3> QED BY <1>14, <3>3, <3>7 DEF Store
  <2> QED BY <2>1, <2>2
<1>15. CASE NextBlock
  <2>1. \A step \in Steps : [task EXCEPT !.step = step] \in Tasks
    BY DEF Tasks
  <2>2. BlockStep \in Steps /\ "confirm" \in Steps
    BY DEF BlockStep, Steps
  <2> QED BY <1>15, <2>1, <2>2, EndedTypes DEF NextBlock
<1>16. Broken \in Tasks
  BY EndedTypes, FieldTypes DEF Broken, Steps
<1>17. CASE SourceFails
  BY <1>16, <1>17 DEF SourceFails
<1>18. CASE SetProfile
  <2>1. device' \in Devices
    BY <1>18, Fields DEF SetProfile, Devices
  <2>2. [task EXCEPT !.step = "write", !.profile = task.profile + 1] \in Tasks
    <3>1. task.profile + 1 \in Nat /\ "write" \in Steps
      BY SMTT(30), Fields DEF Steps
    <3> QED BY <3>1, FieldTypes
  <2> QED BY <1>16, <1>18, <2>1, <2>2 DEF SetProfile
<1>19. task.step = "write" => Took(Counted) \in Devices
  BY TookFile, TookFlash, BatchIs DEF Course, StepsOf, Tasks
<1>20. task.step = "write" =>
         /\ BlockOver(task) \in Tasks
         /\ [BlockOver(task) EXCEPT !.warned = @ \/ task.api = "async"] \in Tasks
         /\ [task EXCEPT !.count = @ + Batch] \in Tasks
  <2>1. BlockSize \in Nat
    BY BlockIs
  <2>2. task.step = "write" => Batch \in Nat
    BY BatchIs
  <2>3. BlockOver(task) \in Tasks
    <3>1. PICK done \in Nat : done = task.done + BlockSize
      BY <2>1, Fields
    <3>2. BlockOver(task) = [task EXCEPT !.done = done, !.count = 0, !.step = "next"]
      BY <3>1 DEF BlockOver, Tasks
    <3>3. [task EXCEPT !.done = done, !.count = 0, !.step = "next"] \in Tasks
      BY FieldTypes DEF Steps
    <3> QED BY <3>2, <3>3
  <2>4. \A t \in Tasks : [t EXCEPT !.warned = @ \/ task.api = "async"] \in Tasks
    BY ZenonT(60) DEF Tasks
  <2>5. \A n \in Nat : [task EXCEPT !.count = @ + n] \in Tasks
    BY DEF Tasks
  <2> QED BY <2>2, <2>3, <2>4, <2>5
<1>21. CASE WriteAnswered
  BY <1>19, <1>20, <1>21 DEF WriteAnswered
<1>22. CASE WriteFails
  BY <1>16, <1>19, <1>20, <1>22 DEF WriteFails
<1>23. CASE Confirm
  <2>1. [device EXCEPT !.confirmed = TRUE] \in Devices
    BY DEF Devices
  <2>2. [task EXCEPT !.step = "restart"] \in Tasks
    BY DEF Tasks, Steps
  <2> QED BY <1>16, <1>23, <2>1, <2>2 DEF Confirm
<1>24. CASE Restart
  <2>1. [task EXCEPT !.step = "reconnect"] \in Tasks
    BY DEF Tasks, Steps
  <2> QED BY <1>24, <2>1, EndedTypes DEF Restart
<1>25. CASE Reconnect
  BY <1>25, EndedTypes DEF Reconnect
<1>26. ASSUME NEW api \in {"sync", "async"}, NEW kind \in {"download", "upload", "update"},
              NEW size \in Sizes, NEW buffer \in Buffers, Begin(api, kind, size, buffer)
       PROVE  Types'
  BY <1>26, TypesBegin
<1> QED
  BY <1>1, <1>2, <1>3, <1>4, <1>5, <1>6, <1>7, <1>8, <1>9, <1>10, <1>11, <1>12, <1>13,
     <1>14, <1>15, <1>17, <1>18, <1>21, <1>22, <1>23, <1>24, <1>25, <1>26 DEF Next

-----------------------------------------------------------------------------
(* What a step leaves of the transfer.                                     *)

\* What no step of a transfer changes.
SameCall(t) ==
  t.api = task.api /\ t.kind = task.kind /\ t.block = task.block /\ t.max = task.max

\* Nor does most of them change how far it has come.
SameParts(t) ==
  /\ SameCall(t) /\ t.size = task.size /\ t.done = task.done /\ t.count = task.count
  /\ t.pack = task.pack /\ t.warned = task.warned /\ t.profile = task.profile

LEMMA EndedIs ==
  ASSUME Types
  PROVE  \A result : /\ Ended(result).step = "idle" /\ Ended(result).result = result
                     /\ SameParts(Ended(result))
BY DEF Types, Tasks, Ended, SameParts, SameCall

LEMMA StepIs ==
  ASSUME Types
  PROVE  \A step : LET t == [task EXCEPT !.step = step]
                   IN  t.step = step /\ t.result = task.result /\ SameParts(t)
BY DEF Types, Tasks, SameParts, SameCall

LEMMA AfterIs ==
  ASSUME Types, Course, task.step \in Asking
  PROVE  /\ Advanced.step = After /\ Advanced.result = "none" /\ SameParts(Advanced)
         /\ After \in StepsOf(task.api, task.kind)
<1>1. Advanced = [task EXCEPT !.step = After]
  BY AdvancedIs
<1>2. After \in StepsOf(task.api, task.kind)
  BY DEF Types, Tasks, Course, StepsOf, Asking, After
<1>3. task.result = "none"
  BY DEF Course, Asking
<1> QED
  BY <1>1, <1>2, <1>3, StepIs

LEMMA BrokenIs ==
  ASSUME Types
  PROVE  /\ SameParts(Broken)
         /\ IF task.kind = "update" THEN Broken.step = "restart" /\ Broken.result = "failed"
                                    ELSE Broken.step = "idle" /\ Broken.result = "failed"
<1>1. CASE task.kind = "update"
  BY <1>1 DEF Types, Tasks, Broken, SameParts, SameCall
<1>2. CASE task.kind # "update"
  BY <1>2, EndedIs DEF Broken
<1> QED
  BY <1>1, <1>2

LEMMA BlockOverIs ==
  ASSUME Types
  PROVE  LET t == BlockOver(task)
         IN  /\ t.step = "next" /\ t.done = task.done + BlockSize /\ t.count = 0
             /\ t.result = task.result /\ t.size = task.size /\ t.pack = task.pack
             /\ t.warned = task.warned /\ t.profile = task.profile /\ SameCall(t)
BY DEF Types, Tasks, BlockOver, SameCall

-----------------------------------------------------------------------------
(* The course of a transfer and its counts.                                *)

LEMMA BeginIs ==
  ASSUME TransferAssumption,
         NEW api \in {"sync", "async"}, NEW kind \in {"download", "upload", "update"},
         NEW size \in Sizes, NEW buffer \in Buffers, Begin(api, kind, size, buffer)
  PROVE  /\ task'.api = api /\ task'.kind = kind /\ task'.max = buffer.max
         /\ task'.block = IF kind = "update" THEN UpdateBlock ELSE buffer.block
         /\ task'.size = IF kind = "download" THEN 0 ELSE size
         /\ task'.done = 0 /\ task'.count = 0 /\ task'.pack = <<>>
         /\ task'.result = "none" /\ task'.profile = 0 /\ task'.warned = FALSE
         /\ task'.step \in StepsOf(api, kind) \intersect {"dataSize", "open", "source"}
         /\ kind = "update" => api = "sync"
         /\ device'.pos = 0 /\ device'.confirmed = FALSE /\ DOMAIN device'.flash = {}
         /\ device'.file = IF kind = "download" THEN Bytes(size) ELSE <<>>
         /\ local'.state = "old"
<1>1. task'.step = Prologue(api, kind)[1]
  BY DEF Begin
<1>2. Prologue(api, kind)[1] \in StepsOf(api, kind) \intersect {"dataSize", "open", "source"}
  BY DEF Prologue, StepsOf
<1> QED
  BY <1>1, <1>2 DEF Begin

LEMMA CourseNext ==
  ASSUME TransferAssumption, Types, Course, Counts, Next
  PROVE  Course'
<1> DEFINE Kept(t) == t.api = task.api /\ t.kind = task.kind
                      /\ t.step \in {"idle"} \union StepsOf(task.api, task.kind)
                      /\ (t.step # "idle" =>
                            t.result = "none" \/ (t.step = "restart" /\ t.result = "failed"))
<1>1. ASSUME Kept(task') PROVE Course'
  BY <1>1 DEF Course
<1>2. \A result : Kept(Ended(result))
  BY EndedIs DEF SameParts, SameCall
<1>3. Kept(Broken)
  BY BrokenIs DEF SameParts, SameCall, Course, StepsOf, Types, Tasks
<1>4. task.step \in Asking => Kept(Advanced)
  BY AfterIs DEF SameParts, SameCall
<1>5. \A step \in StepsOf(task.api, task.kind) :
        task.step \notin {"idle", "restart"} => Kept([task EXCEPT !.step = step])
  BY StepIs DEF SameParts, SameCall, Course
<1>6. task.step \in {"next", "write"} => Kept(BlockOver(task))
  BY BlockOverIs DEF SameCall, Course, StepsOf, Types, Tasks
<1>7. \A t : Kept(t) <=>
        /\ t.api = task.api /\ t.kind = task.kind
        /\ t.step \in {"idle"} \union StepsOf(task.api, task.kind)
        /\ t.step # "idle" =>
             t.result = "none" \/ (t.step = "restart" /\ t.result = "failed")
  OBVIOUS
<1> HIDE DEF Kept
<1>8. CASE Ask \/ WrongImage \/ Open \/ Seek \/ Create \/ OpenSource
  BY <1>1, <1>2, <1>4, <1>8 DEF Ask, WrongImage, Open, Seek, Create, OpenSource, Asking
<1>9. CASE Attr
  <2>1. ASSUME NEW size, task' = [Advanced EXCEPT !.size = size] PROVE Course'
    <3>1. task.step \in Asking
      BY <1>9 DEF Attr, Asking
    <3>2. task'.api = Advanced.api /\ task'.kind = Advanced.kind
          /\ task'.step = Advanced.step /\ task'.result = Advanced.result
      BY <2>1, <3>1, AdvancedTypes DEF Tasks
    <3> QED BY <1>1, <1>4, <1>7, <3>1, <3>2
  <2> QED BY <1>1, <1>2, <1>9, <2>1 DEF Attr
<1>10. CASE ReadAnswered
  <2>1. task'.api = task.api /\ task'.kind = task.kind
        /\ task'.step = task.step /\ task'.result = task.result
    BY <1>10 DEF ReadAnswered, Types, Tasks
  <2> QED BY <2>1 DEF Course
<1>11. CASE ReadBusy \/ ReadEnds
  <2>1. task'.api = task.api /\ task'.kind = task.kind /\ task'.result = task.result
        /\ task'.step = (IF ReadBusy THEN "again" ELSE "store")
    BY <1>11 DEF ReadBusy, ReadEnds, Types, Tasks
  <2> QED BY <1>11, <2>1 DEF Course, StepsOf, ReadBusy, ReadEnds
<1>12. CASE ReadFails \/ ReadNothing
  BY <1>1, <1>2, <1>12 DEF ReadFails, ReadNothing, Discard
<1>13. CASE Again
  <2>1. CASE task' = [task EXCEPT !.step = "read", !.pack = <<>>, !.retried = TRUE]
    <3>1. task'.api = task.api /\ task'.kind = task.kind /\ task'.result = task.result
          /\ task'.step = "read"
      BY <2>1 DEF Types, Tasks
    <3> QED BY <1>13, <3>1 DEF Course, StepsOf, Again
  <2> QED BY <1>1, <1>2, <1>13, <2>1 DEF Again, Discard
<1>14. CASE Store
  <2>1. CASE Discard("failed")
    BY <1>1, <1>2, <2>1 DEF Discard
  <2>2. CASE ~Discard("failed")
    <3>1. PICK next \in {Ended("ok"), [task EXCEPT !.step = "read"]} :
            task' = [next EXCEPT !.done = task.done + Len(task.pack), !.pack = <<>>,
                                 !.retried = FALSE]
      BY <1>14, <2>2 DEF Store
    <3>2. Kept(next)
      <4>1. "read" \in StepsOf(task.api, task.kind) /\ task.step \notin {"idle", "restart"}
        BY <1>14 DEF Store, Course, StepsOf
      <4> QED BY <1>2, <1>5, <3>1, <4>1
    <3>3. next \in Tasks
      <4>1. Ended("ok") \in Tasks
        BY EndedTypes
      <4>2. [task EXCEPT !.step = "read"] \in Tasks
        BY FieldTypes DEF Steps, Types
      <4> QED BY <3>1, <4>1, <4>2
    <3>4. task'.api = next.api /\ task'.kind = next.kind
          /\ task'.step = next.step /\ task'.result = next.result
      BY <3>1, <3>3 DEF Tasks
    <3> QED BY <1>1, <1>7, <3>2, <3>4
  <2> QED BY <2>1, <2>2
<1>15. CASE NextBlock
  <2>1. task.step = "next" /\ task.kind \in {"upload", "update"}
    BY <1>15 DEF NextBlock, Course, StepsOf, Types, Tasks
  <2>2. BlockStep \in StepsOf(task.api, task.kind)
    BY <2>1 DEF BlockStep, StepsOf
  <2>3. task.kind = "update" => "confirm" \in StepsOf(task.api, task.kind)
    BY DEF StepsOf
  <2> QED BY <1>1, <1>2, <1>5, <1>15, <2>1, <2>2, <2>3 DEF NextBlock
<1>16. CASE SourceFails
  BY <1>1, <1>3, <1>16 DEF SourceFails
<1>17. CASE SetProfile
  <2>1. CASE task' = Broken
    BY <1>1, <1>3, <2>1
  <2>2. CASE task' = [task EXCEPT !.step = "write", !.profile = @ + 1]
    <3>1. task'.api = task.api /\ task'.kind = task.kind /\ task'.result = task.result
          /\ task'.step = "write"
      BY <2>2 DEF Types, Tasks
    <3> QED BY <1>17, <3>1 DEF Course, StepsOf, SetProfile
  <2> QED BY <1>17, <2>1, <2>2 DEF SetProfile
<1>18. CASE WriteAnswered
  <2>1. CASE task' = [task EXCEPT !.count = @ + Batch]
    <3>1. task'.api = task.api /\ task'.kind = task.kind
          /\ task'.step = task.step /\ task'.result = task.result
      BY <2>1 DEF Types, Tasks
    <3> QED BY <3>1 DEF Course
  <2> QED BY <1>1, <1>6, <1>18, <2>1 DEF WriteAnswered
<1>19. CASE WriteFails
  <2>1. CASE task' = [BlockOver(task) EXCEPT !.warned = @ \/ task.api = "async"]
    <3>1. task'.api = BlockOver(task).api /\ task'.kind = BlockOver(task).kind
          /\ task'.step = BlockOver(task).step /\ task'.result = BlockOver(task).result
      BY <2>1 DEF BlockOver, Types, Tasks
    <3> QED BY <1>1, <1>6, <1>7, <1>19, <3>1 DEF WriteFails
  <2> QED BY <1>1, <1>3, <1>19, <2>1 DEF WriteFails
<1>20. CASE Confirm
  <2>1. task.step = "confirm" /\ "restart" \in StepsOf(task.api, task.kind)
    BY <1>20 DEF Confirm, Course, StepsOf
  <2> QED BY <1>1, <1>3, <1>5, <1>20, <2>1 DEF Confirm
<1>21. CASE Restart
  <2>1. CASE task.result = "failed"
    BY <1>1, <1>2, <1>21, <2>1 DEF Restart
  <2>2. CASE task.result # "failed"
    <3>1. task'.api = task.api /\ task'.kind = task.kind /\ task'.result = task.result
          /\ task'.step = "reconnect"
      BY <1>21, <2>2 DEF Restart, Types, Tasks
    <3> QED BY <1>21, <2>2, <3>1 DEF Course, StepsOf, Restart
  <2> QED BY <2>1, <2>2
<1>22. CASE Reconnect
  BY <1>1, <1>2, <1>22 DEF Reconnect
<1>23. ASSUME NEW api \in {"sync", "async"}, NEW kind \in {"download", "upload", "update"},
              NEW size \in Sizes, NEW buffer \in Buffers, Begin(api, kind, size, buffer)
       PROVE  Course'
  <2>1. /\ task'.api = api /\ task'.kind = kind /\ task'.result = "none"
        /\ task'.step \in StepsOf(api, kind) /\ (kind = "update" => api = "sync")
    BY ZenonT(60), <1>23, BeginIs
  <2> QED BY <2>1 DEF Course
<1> QED
  BY <1>8, <1>9, <1>10, <1>11, <1>12, <1>13, <1>14, <1>15, <1>16, <1>17, <1>18, <1>19,
     <1>20, <1>21, <1>22, <1>23 DEF Next

FileFits == /\ device.pos <= Len(device.file)
            /\ task.kind = "download" => Len(device.file) < Last

\* A step that only moves on.
LEMMA CountsSame ==
  ASSUME TransferAssumption, Types, Counts, SameParts(task'), FileFits',
         \/ task'.step \in {"idle", "confirm", "restart", "reconnect"}
         \/ task.step \in {"read", "again", "store"} /\ task'.step \in {"read", "again", "store"}
         \/ task.step \in Asking /\ task'.step \in Asking \union {"read", "next"}
         \/ task.step = "next" /\ task.done < task.size /\ task'.step \in {"profile", "write"}
         \/ task.step = "profile" /\ task'.step = "write"
  PROVE  Counts'
<1>1. /\ task'.kind = task.kind /\ task'.block = task.block /\ task'.size = task.size
      /\ task'.done = task.done /\ task'.count = task.count /\ task'.pack = task.pack
  BY DEF SameParts, SameCall
<1>2. BlockLeft' = BlockLeft
  BY <1>1 DEF BlockLeft
<1>3. BlockLeft = (IF task.block <= task.size - task.done THEN task.block
                                                          ELSE task.size - task.done)
  BY BlockIs
<1>4. /\ task.size \in Nat /\ task.done \in Nat /\ task.done <= task.size
      /\ task.block \in Nat \ {0}
  BY Fields
<1>5. task.step \in Asking => Len(task.pack) <= BlockLeft
  BY <1>3, <1>4, EmptySeq DEF Counts
<1>6. task.step = "next" /\ task.done < task.size => task.count < BlockLeft
  BY <1>3, <1>4 DEF Counts
<1>7. /\ Len(task.pack) <= task.block /\ task.count < task.block
      /\ task.kind # "download" => task.pack = <<>>
      /\ task.step \in Asking => task.done = 0 /\ task.count = 0 /\ task.pack = <<>>
      /\ task.step \in {"read", "again", "store"} => Len(task.pack) <= BlockLeft
      /\ task.step \in {"next", "profile"} => task.count = 0
      /\ task.step \in {"write", "profile"} => task.done < task.size /\ task.count < BlockLeft
  BY DEF Counts
<1>8. /\ device'.pos <= Len(device'.file)
      /\ task'.kind = "download" => Len(device'.file) < Last
  BY DEF FileFits
<1>9. /\ task'.step \in Asking => task.step \in Asking
      /\ task'.step \in {"read", "again", "store"} =>
           task.step \in Asking \union {"read", "again", "store"}
      /\ task'.step \in {"next", "profile"} => task.step \in Asking \union {"next"}
      /\ task'.step \in {"write", "profile"} =>
           task.step = "profile" \/ (task.step = "next" /\ task.done < task.size)
  BY DEF Asking
<1>10. /\ task'.step \in Asking => task'.done = 0 /\ task'.count = 0 /\ task'.pack = <<>>
       /\ task'.step \in {"read", "again", "store"} => Len(task'.pack) <= BlockLeft'
       /\ task'.step \in {"next", "profile"} => task'.count = 0
       /\ task'.step \in {"write", "profile"} =>
            task'.done < task'.size /\ task'.count < BlockLeft'
  BY <1>1, <1>2, <1>5, <1>6, <1>7, <1>9
<1> QED
  BY <1>1, <1>4, <1>7, <1>8, <1>10 DEF Counts

\* What comes after a block that was written.
LEMMA CountsBlock ==
  ASSUME TransferAssumption, Types, Counts, task.step = "write", task.kind # "download",
         /\ task'.step = "next" /\ task'.done = task.done + BlockSize /\ task'.count = 0
         /\ task'.size = task.size /\ task'.pack = task.pack /\ SameCall(task'),
         FileFits'
  PROVE  Counts'
<1>1. /\ BlockSize = BlockLeft /\ BlockLeft \in Nat /\ BlockLeft <= task.size - task.done
      /\ task.done \in Nat /\ task.size \in Nat /\ task.block \in Nat \ {0}
  BY BlockIs, Fields
<1>2. task'.done <= task'.size
  BY <1>1
<1>3. task.pack = <<>> /\ Len(task.pack) <= task.block
  BY DEF Counts
<1>4. /\ device'.pos <= Len(device'.file)
      /\ task'.kind = "download" => Len(device'.file) < Last
  BY DEF FileFits
<1> QED
  BY <1>1, <1>2, <1>3, <1>4 DEF Counts, SameCall, Asking

LEMMA CountsNext ==
  ASSUME TransferAssumption, Types, Types', Course, Counts, DownloadInv, Next
  PROVE  Counts'
<1>1. FileFits
  BY DEF FileFits, Counts
<1>2. device' = device /\ task'.kind = task.kind => FileFits'
  BY <1>1 DEF FileFits
<1>3. \A p \in 0 .. Len(device.file) :
        device' = [device EXCEPT !.pos = p] /\ task'.kind = task.kind => FileFits'
  BY <1>1 DEF FileFits, Types, Devices
<1>4. \A result : task' = Ended(result) /\ FileFits' => Counts'
  BY EndedIs, CountsSame
<1>5. task' = Broken /\ FileFits' => Counts'
  BY BrokenIs, CountsSame
<1>6. task' = Advanced /\ task.step \in Asking /\ FileFits' => Counts'
  <2>1. After \in Asking \union {"read", "next"}
    BY DEF After, Asking
  <2> QED BY <2>1, AfterIs, CountsSame
<1>7. \A result : task' = Ended(result) => task'.kind = task.kind
  BY EndedIs DEF SameParts, SameCall
<1>8. task' = Broken => task'.kind = task.kind
  BY BrokenIs DEF SameParts, SameCall
<1>9. task' = Advanced /\ task.step \in Asking => task'.kind = task.kind
  BY AfterIs DEF SameParts, SameCall
<1>10. CASE Ask \/ WrongImage \/ Create \/ OpenSource
  BY <1>2, <1>4, <1>6, <1>7, <1>9, <1>10 DEF Ask, WrongImage, Create, OpenSource, Asking
<1>11. CASE Open
  <2>1. task'.kind = task.kind
    BY <1>7, <1>9, <1>11 DEF Open, Asking
  <2>2. CASE device' = device
    BY <1>2, <1>4, <1>6, <1>11, <2>1, <2>2 DEF Open, Asking
  <2>3. CASE device' = [device EXCEPT !.file = IF task.kind = "upload" THEN <<>> ELSE @,
                                      !.pos = 0]
    <3>1. device'.pos = 0 /\ device'.file = IF task.kind = "upload" THEN <<>> ELSE device.file
      BY <2>3 DEF Types, Devices
    <3>2. Len(device.file) \in Nat
      BY Fields
    <3>3. FileFits'
      BY <1>1, <2>1, <3>1, <3>2 DEF FileFits
    <3> QED BY <1>4, <1>6, <1>11, <3>3 DEF Open, Asking
  <2> QED BY <1>11, <2>2, <2>3 DEF Open
<1>12. CASE Attr
  <2>1. ASSUME NEW extra \in {0, 1},
               task' = [Advanced EXCEPT !.size = Len(device.file) + extra]
        PROVE  Counts'
    <3>1. task.step \in Asking
      BY <1>12 DEF Attr, Asking
    <3>2. task'.kind = Advanced.kind /\ task'.step = Advanced.step
          /\ task'.size = Len(device.file) + extra /\ task'.done = Advanced.done
          /\ task'.count = Advanced.count /\ task'.pack = Advanced.pack
          /\ task'.block = Advanced.block
      BY <2>1, <3>1, AdvancedTypes DEF Tasks
    <3>3. task'.step = "seek"
      BY <1>12, <3>1, <3>2, AfterIs DEF After, Attr
    <3>4. /\ task'.kind = task.kind /\ task'.done = 0 /\ task'.count = 0
          /\ task'.pack = <<>> /\ task'.block = task.block
      BY <3>1, <3>2, AfterIs DEF SameParts, SameCall, Counts
    <3>5. Len(device.file) + extra \in Nat /\ Len(<<>>) = 0 /\ task.block \in Nat \ {0}
      BY Fields
    <3>6. FileFits'
      BY <1>2, <1>12, <3>4 DEF Attr
    <3> QED BY <3>2, <3>3, <3>4, <3>5, <3>6 DEF Counts, FileFits
  <2> QED BY <1>2, <1>4, <1>7, <1>12, <2>1 DEF Attr
<1>13. CASE Seek
  <2>1. task'.kind = task.kind /\ task.step \in Asking
    BY <1>7, <1>9, <1>13 DEF Seek, Asking
  <2>2. 0 \in 0 .. Len(device.file)
    BY Fields
  <2>3. FileFits'
    BY <1>2, <1>3, <1>13, <2>1, <2>2 DEF Seek
  <2> QED BY <1>4, <1>6, <1>13, <2>1, <2>3 DEF Seek
<1>14. CASE ReadAnswered
  <2>1. PICK n \in 1 .. Lesser(MaxPerRead, Left) :
          /\ device.pos + n <= Len(device.file)
          /\ device' = [device EXCEPT !.pos = @ + n]
          /\ task' = [task EXCEPT !.pack = @ \o Read(n)]
    BY <1>14 DEF ReadAnswered
  <2>2. n \in Nat /\ n <= Left
    BY AtMostIs
  <2>3. Read(n) \in Data /\ Len(Read(n)) = n
    BY <2>1, <2>2, ReadTypes
  <2>4. Len(task.pack \o Read(n)) = Len(task.pack) + n
    <3>1. task.pack \in Seq(1 .. Last) /\ Read(n) \in Seq(1 .. Last)
      BY <2>3, Fields DEF Data
    <3>2. Len(task.pack \o Read(n)) = Len(task.pack) + Len(Read(n))
      BY <3>1, ConcatProperties
    <3> QED BY <2>3, <3>2
  <2>5. /\ task'.pack = task.pack \o Read(n) /\ task'.kind = task.kind
        /\ task'.step = task.step /\ task'.size = task.size /\ task'.done = task.done
        /\ task'.block = task.block /\ task'.count = task.count
    BY <2>1 DEF Types, Tasks
  <2>6. BlockLeft' = BlockLeft
    BY <2>5 DEF BlockLeft
  <2>7. /\ Left = BlockLeft - Len(task.pack) /\ BlockLeft \in Nat
        /\ BlockLeft <= task.block
    BY BlockIs, Fields
  <2>8. Len(task'.pack) <= BlockLeft' /\ Len(task'.pack) <= task'.block
    <3>1. Len(task.pack) \in Nat /\ task.block \in Nat
      BY Fields
    <3> QED BY <2>2, <2>4, <2>5, <2>6, <2>7, <3>1
  <2>9. task.kind = "download" /\ task.step = "read"
    BY <1>14 DEF ReadAnswered, Course, StepsOf, Types, Tasks
  <2>10. device'.pos <= Len(device'.file) /\ Len(device'.file) < Last
    BY <2>1, <2>9, <1>1 DEF FileFits, Types, Devices
  <2> QED BY <2>5, <2>8, <2>9, <2>10 DEF Counts, Asking
<1>15. CASE ReadBusy \/ ReadEnds
  <2>1. /\ task'.kind = task.kind /\ task'.block = task.block /\ task'.size = task.size
        /\ task'.done = task.done /\ task'.count = task.count /\ task'.pack = task.pack
        /\ task'.step \in {"again", "store"} /\ device' = device /\ task.step = "read"
    BY <1>15 DEF ReadBusy, ReadEnds, Types, Tasks
  <2>2. FileFits'
    BY <1>2, <2>1
  <2>3. BlockLeft' = BlockLeft
    BY <2>1 DEF BlockLeft
  <2> QED BY <2>1, <2>2, <2>3 DEF Counts, FileFits, Asking
<1>16. CASE ReadFails
  <2>1. PICK n \in 0 .. Lesser(MaxPerRead, Left) :
          /\ device.pos + n <= Len(device.file)
          /\ device' = [device EXCEPT !.pos = @ + n]
    BY <1>16 DEF ReadFails
  <2>2. n \in Nat
    BY AtMostIs
  <2>3. device.pos + n \in 0 .. Len(device.file)
    BY SMTT(30), <2>1, <2>2, Fields
  <2>4. device' = [device EXCEPT !.pos = device.pos + n]
    BY <2>1 DEF Types, Devices
  <2>5. task' = Ended("failed")
    BY <1>16 DEF ReadFails, Discard
  <2> QED BY <1>3, <1>4, <1>7, <2>3, <2>4, <2>5
<1>17. CASE ReadNothing
  BY <1>2, <1>4, <1>7, <1>17 DEF ReadNothing, Discard
<1>18. CASE Again
  <2>1. task.kind = "download" /\ task.step = "again"
    BY <1>18 DEF Again, Course, StepsOf, Types, Tasks
  <2>2. task.done \in 0 .. Len(device.file)
    <3>1. device.pos = task.done + Len(task.pack)
      BY <2>1 DEF DownloadInv, Stored
    <3> QED BY SMTT(30), <3>1, Fields
  <2>3. CASE Discard("failed")
    BY <1>2, <1>3, <1>4, <1>7, <1>18, <2>2, <2>3 DEF Again, Discard
  <2>4. CASE ~Discard("failed")
    <3>1. /\ device' = [device EXCEPT !.pos = task.done]
          /\ task' = [task EXCEPT !.step = "read", !.pack = <<>>, !.retried = TRUE]
      BY <1>18, <2>4 DEF Again
    <3>2. /\ task'.pack = <<>> /\ task'.kind = task.kind /\ task'.step = "read"
          /\ task'.size = task.size /\ task'.done = task.done
          /\ task'.block = task.block /\ task'.count = task.count
      BY <3>1 DEF Types, Tasks
    <3>3. BlockLeft' = BlockLeft
      BY <3>2 DEF BlockLeft
    <3>4. BlockLeft \in Nat /\ Len(<<>>) = 0 /\ task.block \in Nat
      BY BlockIs, Fields
    <3>5. FileFits'
      BY <1>3, <2>2, <3>1, <3>2
    <3> QED BY <2>1, <3>2, <3>3, <3>4, <3>5 DEF Counts, FileFits, Asking
  <2> QED BY <2>3, <2>4
<1>19. CASE Store
  <2>1. task.kind = "download"
    BY <1>19 DEF Store, Course, StepsOf, Types, Tasks
  <2>2. CASE Discard("failed")
    BY <1>2, <1>4, <1>7, <1>19, <2>2 DEF Store, Discard
  <2>3. CASE ~Discard("failed")
    <3>1. PICK next \in {Ended("ok"), [task EXCEPT !.step = "read"]} :
            /\ task' = [next EXCEPT !.done = task.done + Len(task.pack), !.pack = <<>>,
                                    !.retried = FALSE]
            /\ next = IF task.done + Len(task.pack) < task.size
                        THEN [task EXCEPT !.step = "read"] ELSE Ended("ok")
      BY <1>19, <2>3 DEF Store
    <3>2. next \in Tasks
      BY EndedTypes, FieldTypes, <3>1 DEF Steps, Types
    <3>3. SameParts(next) /\ next.step \in {"read", "idle"}
      BY <3>1, EndedIs, StepIs
    <3>4. /\ task'.done = task.done + Len(task.pack) /\ task'.pack = <<>>
          /\ task'.kind = next.kind /\ task'.step = next.step /\ task'.size = next.size
          /\ task'.block = next.block /\ task'.count = next.count
      BY <3>1, <3>2 DEF Tasks
    <3>5. /\ task'.kind = task.kind /\ task'.size = task.size /\ task'.block = task.block
          /\ task'.count = task.count /\ task'.step \in {"read", "idle"}
      BY <3>3, <3>4 DEF SameParts, SameCall
    <3>6. Len(task.pack) <= BlockLeft
      BY <1>19 DEF Store, Counts
    <3>7. /\ BlockLeft \in Nat /\ BlockLeft <= task.size - task.done
          /\ task.done \in Nat /\ task.size \in Nat /\ Len(task.pack) \in Nat
          /\ task.block \in Nat \ {0} /\ Len(<<>>) = 0
      BY BlockIs, Fields
    <3>8. task'.done <= task'.size
      BY <3>4, <3>5, <3>6, <3>7
    <3>9. BlockLeft' \in Nat
      <4>1. task'.block \in Nat /\ task'.size - task'.done \in Nat
        BY SMTT(30), <3>4, <3>5, <3>7, <3>8
      <4>2. Lesser(task'.block, task'.size - task'.done) \in Nat
        BY <4>1, LesserIs
      <4> QED BY <4>2 DEF BlockLeft
    <3>10. FileFits'
      BY <1>2, <1>19, <3>5 DEF Store
    <3> QED BY SMTT(30), <2>1, <3>4, <3>5, <3>7, <3>8, <3>9, <3>10 DEF Counts, FileFits, Asking
  <2> QED BY <2>2, <2>3
<1>20. CASE NextBlock
  <2>1. task'.kind = task.kind /\ task.step = "next" /\ device' = device
    BY <1>20 DEF NextBlock, Ended, Types, Tasks
  <2>2. FileFits'
    BY <1>2, <2>1
  <2>3. CASE task.done < task.size
    <3>1. task' = [task EXCEPT !.step = BlockStep] /\ BlockStep \in {"profile", "write"}
      BY <1>20, <2>3 DEF NextBlock, BlockStep
    <3> QED BY <2>1, <2>2, <2>3, <3>1, StepIs, CountsSame
  <2>4. CASE task' = [task EXCEPT !.step = "confirm"]
    BY <2>2, <2>4, StepIs, CountsSame
  <2> QED BY <1>4, <1>20, <2>2, <2>3, <2>4 DEF NextBlock
<1>21. CASE SourceFails
  BY <1>2, <1>5, <1>8, <1>21 DEF SourceFails
<1>22. ASSUME NEW p, device' = [device EXCEPT !.profile = p] \/ device' = device,
              task'.kind = task.kind
       PROVE  FileFits'
  BY <1>1, <1>22 DEF FileFits, Types, Devices
<1>23. CASE SetProfile
  <2>1. CASE task' = Broken
    BY <1>5, <1>8, <1>22, <1>23, <2>1 DEF SetProfile
  <2>2. CASE task' = [task EXCEPT !.step = "write", !.profile = @ + 1]
    <3>1. /\ task'.kind = task.kind /\ task'.block = task.block /\ task'.size = task.size
          /\ task'.done = task.done /\ task'.count = task.count /\ task'.pack = task.pack
          /\ task'.step = "write" /\ task.step = "profile"
      BY <1>23, <2>2 DEF SetProfile, Types, Tasks
    <3>2. FileFits'
      BY <1>22, <1>23, <3>1 DEF SetProfile
    <3>3. BlockLeft' = BlockLeft
      BY <3>1 DEF BlockLeft
    <3> QED BY <3>1, <3>2, <3>3 DEF Counts, FileFits, Asking
  <2> QED BY <1>23, <2>1, <2>2 DEF SetProfile
<1>24. ASSUME task.step = "write", device' \in {device, Took(Counted)}, task'.kind = task.kind
       PROVE  task.kind # "download" /\ FileFits'
  <2>1. task.kind # "download" /\ task.kind \in {"download", "upload", "update"}
    BY <1>24 DEF Course, StepsOf, Types, Tasks
  <2>2. Counted \in 0 .. Batch
    BY <1>24, BatchIs
  <2>3. CASE task.kind = "upload"
    <3>1. Took(Counted).pos <= Len(Took(Counted).file)
      <4>1. PICK n \in 0 .. Batch : n = Counted
        BY <2>2
      <4>2. Took(n).pos = device.pos + n /\ Len(Took(n).file) = Len(device.file) + n
        BY <1>24, <2>3, TookFile
      <4>3. n \in Int /\ device.pos \in Nat /\ Len(device.file) \in Nat
            /\ device.pos <= Len(device.file)
        BY <1>24, BatchIs, Fields
      <4> QED BY <4>1, <4>2, <4>3
    <3> QED BY <1>1, <1>24, <2>1, <3>1 DEF FileFits
  <2>4. CASE task.kind = "update"
    <3>1. Took(Counted).pos = device.pos /\ Took(Counted).file = device.file
      BY ZenonT(60), <1>24, <2>2, <2>4, TookFlash DEF Types, Devices
    <3> QED BY <1>1, <1>24, <2>1, <3>1 DEF FileFits
  <2> QED BY <2>1, <2>3, <2>4
<1>25. CASE WriteAnswered
  <2>1. task.step = "write"
    BY <1>25 DEF WriteAnswered
  <2>2. CASE task.count + Batch = BlockSize
    <3>1. task' = BlockOver(task)
      BY <1>25, <2>2 DEF WriteAnswered
    <3>2. task'.kind = task.kind
      BY <3>1, BlockOverIs DEF SameCall
    <3>3. task.kind # "download" /\ FileFits'
      BY <1>24, <1>25, <2>1, <3>2 DEF WriteAnswered
    <3> QED BY <2>1, <3>1, <3>3, BlockOverIs, CountsBlock
  <2>3. CASE task.count + Batch # BlockSize
    <3>1. task' = [task EXCEPT !.count = @ + Batch]
      BY <1>25, <2>3 DEF WriteAnswered
    <3>2. /\ task'.kind = task.kind /\ task'.block = task.block /\ task'.size = task.size
          /\ task'.done = task.done /\ task'.pack = task.pack /\ task'.step = "write"
          /\ task'.count = task.count + Batch
      BY <2>1, <3>1 DEF Types, Tasks
    <3>3. task.kind # "download" /\ FileFits'
      BY <1>24, <1>25, <2>1, <3>2 DEF WriteAnswered
    <3>4. BlockLeft' = BlockLeft
      BY <3>2 DEF BlockLeft
    <3>5. task'.count < BlockLeft /\ BlockLeft <= task.block
      <4>1. /\ Batch \in 1 .. BlockLeft - task.count /\ BlockSize = BlockLeft
            /\ BlockLeft \in Nat /\ task.count \in Nat
        BY <2>1, BatchIs, BlockIs, Fields
      <4>2. BlockLeft <= task.block
        BY BlockIs
      <4> QED BY <2>3, <3>2, <4>1, <4>2
    <3>6. task'.count < task.block
      <4>1. task.block \in Nat /\ BlockLeft \in Nat /\ task'.count \in Nat
        BY Fields, BlockIs DEF Types, Tasks
      <4> QED BY <3>5, <4>1
    <3> QED BY <2>1, <3>2, <3>3, <3>4, <3>5, <3>6 DEF Counts, FileFits, Asking
  <2> QED BY <2>2, <2>3
<1>26. CASE WriteFails
  <2>1. task.step = "write" /\ device' \in {device, Took(Counted)}
    BY <1>26 DEF WriteFails
  <2>2. CASE task' = Broken
    BY <1>5, <1>8, <1>24, <2>1, <2>2
  <2>3. CASE task' = [BlockOver(task) EXCEPT !.warned = @ \/ task.api = "async"]
    <3>1. LET t == BlockOver(task)
          IN  /\ task'.step = t.step /\ task'.done = t.done /\ task'.count = t.count
              /\ task'.size = t.size /\ task'.pack = t.pack /\ task'.api = t.api
              /\ task'.kind = t.kind /\ task'.block = t.block /\ task'.max = t.max
      BY <2>3 DEF BlockOver, Types, Tasks
    <3>2. task'.kind = task.kind
      BY <3>1, BlockOverIs DEF SameCall
    <3>3. task.kind # "download" /\ FileFits'
      BY <1>24, <2>1, <3>2
    <3>4. SameCall(task')
      BY <3>1, BlockOverIs DEF SameCall
    <3> QED BY <2>1, <3>1, <3>3, <3>4, BlockOverIs, CountsBlock
  <2> QED BY <1>26, <2>2, <2>3 DEF WriteFails
<1>27. ASSUME device' \in {device, [device EXCEPT !.confirmed = TRUE]}, task'.kind = task.kind
       PROVE  FileFits'
  BY <1>1, <1>27 DEF FileFits, Types, Devices
<1>28. CASE Confirm
  <2>1. task' = Broken \/ task' = [task EXCEPT !.step = "restart"]
    BY <1>28 DEF Confirm
  <2>2. task'.kind = task.kind
    <3>1. [task EXCEPT !.step = "restart"].kind = task.kind
      BY DEF Types, Tasks
    <3> QED BY <1>8, <2>1, <3>1
  <2>3. FileFits'
    BY <1>27, <1>28, <2>2 DEF Confirm
  <2> QED BY ZenonT(60), <1>5, <2>1, <2>3, StepIs, CountsSame
<1>29. CASE Restart
  <2>1. task' = Ended("failed") \/ task' = [task EXCEPT !.step = "reconnect"]
    BY <1>29 DEF Restart
  <2>2. task'.kind = task.kind
    <3>1. [task EXCEPT !.step = "reconnect"].kind = task.kind
      BY DEF Types, Tasks
    <3> QED BY <1>7, <2>1, <3>1
  <2>3. FileFits'
    BY <1>2, <1>29, <2>2 DEF Restart
  <2> QED BY ZenonT(60), <1>4, <2>1, <2>3, StepIs, CountsSame
<1>30. CASE Reconnect
  BY <1>2, <1>4, <1>7, <1>30 DEF Reconnect
<1>31. ASSUME NEW api \in {"sync", "async"}, NEW kind \in {"download", "upload", "update"},
              NEW size \in Sizes, NEW buffer \in Buffers, Begin(api, kind, size, buffer)
       PROVE  Counts'
  <2>1. size \in Nat /\ size < Last /\ Last \in Nat
    BY LastIs DEF TransferAssumption
  <2>2. Len(Bytes(size)) = size /\ Len(<<>>) = 0
    BY <2>1, BytesAre
  <2>3. /\ task'.kind = kind /\ task'.done = 0 /\ task'.count = 0 /\ task'.pack = <<>>
        /\ task'.size = (IF kind = "download" THEN 0 ELSE size)
    BY ZenonT(60), <1>31, BeginIs
  <2>5. /\ task'.step \in {"dataSize", "open", "source"}
        /\ device'.pos = 0
        /\ device'.file = (IF kind = "download" THEN Bytes(size) ELSE <<>>)
    BY <1>31, BeginIs
  <2>4. task'.block \in Nat \ {0}
    BY DEF Types, Tasks
  <2> QED BY <2>1, <2>2, <2>3, <2>4, <2>5 DEF Counts
<1> QED
  BY <1>10, <1>11, <1>12, <1>13, <1>14, <1>15, <1>16, <1>17, <1>18, <1>19, <1>20, <1>21,
     <1>23, <1>25, <1>26, <1>28, <1>29, <1>30, <1>31 DEF Next

-----------------------------------------------------------------------------
(* Downloads.                                                              *)

Beginning ==
  \E api \in {"sync", "async"}, kind \in {"download", "upload", "update"},
     size \in Sizes, buffer \in Buffers : Begin(api, kind, size, buffer)
Asks == Ask \/ WrongImage \/ Open \/ Attr \/ Seek \/ Create \/ OpenSource
Reads == ReadAnswered \/ ReadBusy \/ ReadFails \/ ReadEnds \/ ReadNothing \/ Again \/ Store
Writes ==
  NextBlock \/ SourceFails \/ SetProfile \/ WriteAnswered \/ WriteFails \/ Confirm
    \/ Restart \/ Reconnect

LEMMA NextIs == Next <=> Beginning \/ Asks \/ Reads \/ Writes
BY DEF Next, Beginning, Asks, Reads, Writes

\* Only a new call changes whose transfer it is.
LEMMA CallKept ==
  ASSUME Types, Course, Asks \/ Reads \/ Writes
  PROVE  SameCall(task')
<1>1. ASSUME NEW t, SameParts(t), task' = t PROVE SameCall(task')
  BY <1>1 DEF SameParts
<1>2. \A result : task' = Ended(result) => SameCall(task')
  BY <1>1, EndedIs
<1>3. task' = Broken => SameCall(task')
  BY <1>1, BrokenIs
<1>4. task' = Advanced /\ task.step \in Asking => SameCall(task')
  BY <1>1, AfterIs
<1>5. \A step : task' = [task EXCEPT !.step = step] => SameCall(task')
  BY DEF Types, Tasks, SameCall
<1>6. CASE Asks
  <2>1. task.step \in Asking
    BY <1>6 DEF Asks, Ask, WrongImage, Open, Attr, Seek, Create, OpenSource, Asking
  <2>2. ASSUME NEW size, task' = [Advanced EXCEPT !.size = size] PROVE SameCall(task')
    <3>1. Advanced \in Tasks /\ SameCall(Advanced)
      BY <2>1, AdvancedTypes, AfterIs DEF SameParts
    <3> QED BY <2>2, <3>1 DEF Tasks, SameCall
  <2> QED BY <1>2, <1>4, <1>6, <2>1, <2>2 DEF Asks, Ask, WrongImage, Open, Attr, Seek, Create, OpenSource
<1>7. CASE Reads
  <2>1. ASSUME NEW pack, task' = [task EXCEPT !.pack = pack] PROVE SameCall(task')
    BY <2>1 DEF Types, Tasks, SameCall
  <2>2. CASE task' = [task EXCEPT !.step = "store", !.warned = TRUE]
    BY <2>2 DEF Types, Tasks, SameCall
  <2>3. CASE task' = [task EXCEPT !.step = "read", !.pack = <<>>, !.retried = TRUE]
    BY <2>3 DEF Types, Tasks, SameCall
  <2>4. ASSUME NEW next \in {Ended("ok"), [task EXCEPT !.step = "read"]}, NEW done,
               task' = [next EXCEPT !.done = done, !.pack = <<>>, !.retried = FALSE]
        PROVE  SameCall(task')
    <3>1. next \in Tasks /\ SameCall(next)
      <4>1. CASE next = Ended("ok")
        BY <4>1, EndedTypes, EndedIs DEF SameParts
      <4>2. CASE next = [task EXCEPT !.step = "read"]
        BY <4>2, FieldTypes, StepIs DEF Steps, Types, SameParts
      <4> QED BY <2>4, <4>1, <4>2
    <3> QED BY <2>4, <3>1 DEF Tasks, SameCall
  <2>5. CASE ReadAnswered
    <3>1. \A n : [task EXCEPT !.pack = @ \o Read(n)] = [task EXCEPT !.pack = task.pack \o Read(n)]
      BY DEF Types, Tasks
    <3> QED BY <2>1, <2>5, <3>1 DEF ReadAnswered
  <2>6. CASE Store
    BY <1>2, <2>4, <2>6 DEF Store, Discard
  <2> QED BY <1>2, <1>5, <1>7, <2>2, <2>3, <2>5, <2>6
          DEF Reads, ReadBusy, ReadFails, ReadEnds, ReadNothing, Again, Discard
<1>8. CASE Writes
  <2>1. CASE task' = [task EXCEPT !.step = "write", !.profile = @ + 1]
    BY <2>1 DEF Types, Tasks, SameCall
  <2>2. CASE task' = BlockOver(task)
    BY <2>2, BlockOverIs
  <2>3. CASE task' = [BlockOver(task) EXCEPT !.warned = @ \/ task.api = "async"]
    BY <2>3 DEF Types, Tasks, SameCall, BlockOver
  <2>4. CASE task' = [task EXCEPT !.count = @ + Batch]
    BY <2>4 DEF Types, Tasks, SameCall
  <2>5. CASE NextBlock
    BY <1>2, <1>5, <2>5 DEF NextBlock
  <2>6. CASE WriteAnswered \/ WriteFails \/ SetProfile
    BY <1>3, <2>1, <2>2, <2>3, <2>4, <2>6 DEF WriteAnswered, WriteFails, SetProfile
  <2>7. CASE SourceFails \/ Confirm \/ Restart \/ Reconnect
    BY <1>2, <1>3, <1>5, <2>7 DEF SourceFails, Confirm, Restart, Reconnect
  <2> QED BY <1>8, <2>5, <2>6, <2>7 DEF Writes
<1> QED
  BY <1>6, <1>7, <1>8

LEMMA DownloadAsks ==
  ASSUME TransferAssumption, Types, Course, Counts, DownloadInv, task.kind = "download",
         Asks
  PROVE  DownloadInv'
<1>1. /\ task.step \in Asking /\ local.state = "old"
      /\ task.step \in {"dataSize", "open", "attr", "seek", "create"}
      /\ task.done = 0 /\ task.pack = <<>>
  BY DEF Asks, Ask, WrongImage, Open, Attr, Seek, Create, OpenSource, Asking, Course, StepsOf,
         DownloadInv, Counts
<1>2. ASSUME task' = Ended("failed"), local' = local PROVE DownloadInv'
  <2>1. task'.step = "idle" /\ task'.result = "failed"
    BY <1>2, EndedIs
  <2> QED BY <1>1, <1>2, <2>1 DEF DownloadInv, LocalWholeOrGone, Asking
<1>3. ASSUME task' = Advanced
      PROVE  /\ task'.step = After /\ task'.kind = "download" /\ task'.size = task.size
             /\ task'.done = 0 /\ task'.pack = <<>>
  BY <1>1, <1>3, AfterIs DEF SameParts, SameCall
<1>4. CASE Ask
  <2>1. task.step = "dataSize" /\ local' = local
    BY <1>1, <1>4 DEF Ask
  <2>2. CASE task' = Advanced
    <3>1. task'.step = "open"
      BY <1>3, <2>1, <2>2 DEF After
    <3> QED BY <1>1, <2>1, <3>1 DEF DownloadInv, LocalWholeOrGone
  <2> QED BY <1>2, <1>4, <2>1, <2>2 DEF Ask
<1>5. CASE Open
  <2>1. CASE task' = Advanced
    <3>1. task'.step = "attr"
      BY <1>3, <1>5, <2>1 DEF After, Open
    <3> QED BY <1>1, <1>5, <3>1 DEF Open, DownloadInv, LocalWholeOrGone
  <2> QED BY <1>2, <1>5, <2>1 DEF Open
<1>6. CASE Attr
  <2>1. ASSUME NEW extra \in {0, 1},
               task' = [Advanced EXCEPT !.size = Len(device.file) + extra]
        PROVE  DownloadInv'
    <3>1. task'.step = After /\ task'.size = Len(device.file) + extra
      BY <1>1, <2>1, AdvancedTypes, AfterIs DEF Tasks
    <3>2. task'.step = "seek"
      BY <1>6, <3>1 DEF After, Attr
    <3>3. Len(device.file) \in Nat
      BY Fields
    <3> QED BY <1>1, <1>6, <3>1, <3>2, <3>3 DEF Attr, DownloadInv, LocalWholeOrGone
  <2> QED BY <1>2, <1>6, <2>1 DEF Attr
<1>7. CASE Seek
  <2>1. CASE task' = Advanced /\ device' = [device EXCEPT !.pos = 0]
    <3>1. task'.step = "create"
      BY <1>3, <1>7, <2>1 DEF After, Seek
    <3>2. device'.pos = 0 /\ device'.file = device.file
      BY <2>1 DEF Types, Devices
    <3>3. task.size >= Len(device.file)
      BY <1>7 DEF Seek, DownloadInv
    <3> QED BY <1>1, <1>3, <1>7, <2>1, <3>1, <3>2, <3>3 DEF Seek, DownloadInv, LocalWholeOrGone
  <2> QED BY <1>2, <1>7, <2>1 DEF Seek
<1>8. CASE Create
  <2>1. CASE task' = Advanced /\ local' = [state |-> "open", data |-> <<>>]
    <3>1. task'.step = "read"
      BY <1>3, <1>8, <2>1 DEF After, Create
    <3>2. task.size >= Len(device.file) /\ device.pos = 0 /\ device' = device
      BY <1>8 DEF Create, DownloadInv
    <3>3. Len(<<>>) = 0 /\ SubSeq(device.file, 1, 0) = <<>>
      BY SubSeqEmpty
    <3>4. Stored'
      <4>1. /\ local'.state = "open" /\ local'.data = <<>> /\ task'.done = 0
            /\ task'.pack = <<>> /\ device'.pos = 0 /\ device'.file = device.file
        BY <1>3, <2>1, <3>2
      <4>2. 0 + Len(<<>>) = 0 /\ SubSeq(device.file, 0 + 1, 0) = <<>>
        BY <3>3
      <4> QED BY <3>3, <4>1, <4>2, Zenon DEF Stored
    <3> QED BY <1>3, <2>1, <3>1, <3>2, <3>4 DEF DownloadInv, LocalWholeOrGone, Asking
  <2> QED BY <1>2, <1>8, <2>1 DEF Create
<1>9. ~WrongImage /\ ~OpenSource
  BY <1>1 DEF WrongImage, OpenSource
<1> QED
  BY <1>4, <1>5, <1>6, <1>7, <1>8, <1>9 DEF Asks

LEMMA DownloadReads ==
  ASSUME TransferAssumption, Types, Course, Counts, DownloadInv, task.kind = "download",
         SameCall(task'), Reads
  PROVE  DownloadInv'
<1>1. task.step \in {"read", "again", "store"}
  BY DEF Reads, ReadAnswered, ReadBusy, ReadFails, ReadEnds, ReadNothing, Again, Store
<1>2. /\ Stored /\ task.size >= Len(device.file) /\ task'.kind = "download"
  BY <1>1 DEF DownloadInv, SameCall
<1>3. /\ device.file \in Seq(1 .. Last) /\ Len(device.file) \in Nat
      /\ device.pos \in Nat /\ device.pos <= Len(device.file)
      /\ task.done \in Nat /\ task.size \in Nat /\ task.done <= task.size
      /\ Len(task.pack) \in Nat /\ device.pos = task.done + Len(task.pack)
  BY <1>2, Fields DEF Data, Stored
<1>4. ASSUME Discard("failed") \/ (task' = Ended("crashed")) PROVE DownloadInv'
  <2>1. /\ task'.step = "idle"
        /\ task'.result = "crashed" \/ (task'.result = "failed" /\ local'.state # "open")
    BY <1>4, EndedIs DEF Discard, Types, Locals
  <2> QED BY <2>1 DEF DownloadInv, LocalWholeOrGone, Asking
<1>5. CASE ReadAnswered
  <2>1. PICK n \in 1 .. Lesser(MaxPerRead, Left) :
          /\ device.pos + n <= Len(device.file)
          /\ device' = [device EXCEPT !.pos = @ + n]
          /\ task' = [task EXCEPT !.pack = @ \o Read(n)]
    BY <1>5 DEF ReadAnswered
  <2>2. n \in Nat /\ n > 0
    BY AtMostIs
  <2>3. Read(n) \in Seq(1 .. Last) /\ Len(Read(n)) = n
        /\ Read(n) = SubSeq(device.file, device.pos + 1, device.pos + n)
    BY <2>1, <2>2, ReadTypes DEF Data
  <2>4. Len(task.pack \o Read(n)) = Len(task.pack) + n
    <3>1. task.pack \in Seq(1 .. Last) /\ Read(n) \in Seq(1 .. Last)
      BY <2>3, Fields DEF Data
    <3>2. Len(task.pack \o Read(n)) = Len(task.pack) + Len(Read(n))
      BY <3>1, ConcatProperties
    <3> QED BY <2>3, <3>2
  <2>5. PICK to \in Nat : to = device.pos + n /\ device.pos <= to /\ to <= Len(device.file)
    BY <1>3, <2>1, <2>2
  <2>6. task.done <= device.pos
    BY <1>3
  <2>7. SubSeq(device.file, task.done + 1, device.pos) \o SubSeq(device.file, device.pos + 1, to)
          = SubSeq(device.file, task.done + 1, to)
    <3>1. device.file \in Data
      BY Fields
    <3>2. PICK from \in Nat \ {0}, next \in Nat :
            from = task.done + 1 /\ next = device.pos + 1 /\ from <= next
      <4>1. task.done \in Nat /\ device.pos \in Nat
        BY Fields
      <4>2. /\ task.done + 1 \in Nat \ {0} /\ device.pos + 1 \in Nat
            /\ task.done + 1 <= device.pos + 1
        BY <4>1, <2>6
      <4> QED BY <4>2
    <3>3. SubSeq(device.file, from, device.pos) \o SubSeq(device.file, next, to)
            = SubSeq(device.file, from, to)
      <4>1. PICK s \in Data, at \in Nat : s = device.file /\ at = device.pos
        BY <1>3, <3>1
      <4>2. next = at + 1 /\ from <= next /\ at <= to /\ to <= Len(s)
        BY <2>5, <3>2, <4>1
      <4>3. SubSeq(s, from, at) \o SubSeq(s, next, to) = SubSeq(s, from, to)
        BY <4>2, Adjacent
      <4> QED BY <4>1, <4>3
    <3> QED BY <3>2, <3>3
  <2>8. task.pack \o Read(n) = SubSeq(device.file, task.done + 1, to)
    <3>1. task.pack = SubSeq(device.file, task.done + 1, device.pos)
      BY <1>2 DEF Stored
    <3>2. Read(n) = SubSeq(device.file, device.pos + 1, to)
      BY <2>3, <2>5
    <3> QED BY <2>7, <3>1, <3>2, Zenon
  <2>9. /\ device'.pos = to /\ device'.file = device.file /\ local' = local
        /\ task'.pack = task.pack \o Read(n) /\ task'.done = task.done
        /\ task'.step = "read" /\ task'.size = task.size
    BY <1>5, <2>1, <2>5 DEF ReadAnswered, Types, Devices, Tasks
  <2>10. to = task.done + (Len(task.pack) + n)
    BY <1>3, <2>2, <2>5
  <2>11. Stored'
    <3>1. /\ local'.state = "open" /\ local'.data = SubSeq(device'.file, 1, task'.done)
      BY <1>2, <2>9 DEF Stored
    <3>2. device'.pos = task'.done + Len(task'.pack)
      BY <2>4, <2>9, <2>10
    <3>3. task'.pack = SubSeq(device'.file, task'.done + 1, device'.pos)
      BY <2>5, <2>8, <2>9
    <3> QED BY <3>1, <3>2, <3>3 DEF Stored
  <2> QED BY <1>2, <2>9, <2>11 DEF DownloadInv, LocalWholeOrGone, Asking
<1>6. CASE ReadBusy \/ ReadEnds
  <2>1. /\ task'.step \in {"again", "store"} /\ task'.done = task.done
        /\ task'.pack = task.pack /\ task'.size = task.size
        /\ device' = device /\ local' = local
    BY <1>6 DEF ReadBusy, ReadEnds, Types, Tasks
  <2>2. Stored'
    BY <1>2, <2>1 DEF Stored
  <2> QED BY <1>2, <2>1, <2>2 DEF DownloadInv, LocalWholeOrGone, Asking
<1>7. CASE ReadFails \/ ReadNothing
  BY <1>4, <1>7 DEF ReadFails, ReadNothing
<1>8. CASE Again
  <2>1. CASE ~Discard("failed")
    <3>1. /\ device' = [device EXCEPT !.pos = task.done] /\ local' = local
          /\ task' = [task EXCEPT !.step = "read", !.pack = <<>>, !.retried = TRUE]
      BY <1>8, <2>1 DEF Again
    <3>2. /\ device'.pos = task.done /\ device'.file = device.file
          /\ task'.pack = <<>> /\ task'.done = task.done /\ task'.step = "read"
          /\ task'.size = task.size
      BY <3>1 DEF Types, Devices, Tasks
    <3>3. /\ SubSeq(device.file, task.done + 1, task.done) = <<>>
          /\ task.done + Len(<<>>) = task.done
      BY <1>3, SubSeqEmpty
    <3>4. Stored'
      <4>1. /\ local'.state = "open" /\ local'.data = SubSeq(device'.file, 1, task'.done)
        BY <1>2, <3>1, <3>2 DEF Stored
      <4>2. device'.pos = task'.done + Len(task'.pack)
        BY <3>2, <3>3
      <4>3. task'.pack = SubSeq(device'.file, task'.done + 1, device'.pos)
        BY <3>2, <3>3
      <4> QED BY <4>1, <4>2, <4>3 DEF Stored
    <3> QED BY <1>2, <3>2, <3>4 DEF DownloadInv, LocalWholeOrGone, Asking
  <2> QED BY <1>4, <1>8, <2>1 DEF Again
<1>10. SubSeq(device.file, 1, task.done) \o SubSeq(device.file, task.done + 1, device.pos)
         = SubSeq(device.file, 1, device.pos)
  <2>4. device.file \in Data /\ 1 \in Nat \ {0} /\ task.done + 1 \in Nat
    BY SMTT(30), <1>3, Fields
  <2>1. PICK f \in Data, one \in Nat \ {0}, done \in Nat, after \in Nat, at \in Nat :
          /\ f = device.file /\ one = 1 /\ done = task.done /\ after = task.done + 1
          /\ at = device.pos
    BY <1>3, <2>4, Zenon
  <2>2. after = done + 1 /\ one <= after /\ done <= at /\ at <= Len(f)
    BY <1>3, <2>1
  <2>3. SubSeq(f, one, done) \o SubSeq(f, after, at) = SubSeq(f, one, at)
    BY <2>2, Adjacent
  <2> QED BY <2>1, <2>3, Zenon
<1>9. CASE Store
  <2>1. CASE ~Discard("failed")
    <3>1. PICK next \in {Ended("ok"), [task EXCEPT !.step = "read"]} :
            /\ task' = [next EXCEPT !.done = task.done + Len(task.pack), !.pack = <<>>,
                                    !.retried = FALSE]
            /\ next = (IF task.done + Len(task.pack) < task.size
                         THEN [task EXCEPT !.step = "read"] ELSE Ended("ok"))
            /\ local' = [local EXCEPT !.data = @ \o task.pack]
      BY <1>9, <2>1 DEF Store
    <3>2. next \in Tasks
      BY EndedTypes, FieldTypes, <3>1 DEF Steps, Types
    <3>3. /\ next.size = task.size /\ next.step \in {"read", "idle"}
          /\ next.step = "idle" => next.result = "ok" /\ ~(device.pos < task.size)
      <4>1. CASE device.pos < task.size
        BY <1>3, <3>1, <4>1, StepIs DEF SameParts
      <4>2. CASE ~(device.pos < task.size)
        BY <1>3, <3>1, <4>2, EndedIs DEF SameParts
      <4> QED BY <4>1, <4>2
    <3>4. /\ task'.done = device.pos /\ task'.pack = <<>> /\ task'.size = task.size
          /\ task'.step = next.step /\ task'.result = next.result
          /\ device' = device
      BY <1>3, <1>9, <3>1, <3>2, <3>3 DEF Store, Tasks
    <3>5. local'.state = "open" /\ local'.data = SubSeq(device.file, 1, device.pos)
      <4>4. local.data \o task.pack = SubSeq(device.file, 1, device.pos)
        BY <1>2, <1>10, Zenon DEF Stored
      <4>5. local'.state = local.state /\ local'.data = local.data \o task.pack
        BY <3>1 DEF Types, Locals
      <4> QED BY <1>2, <4>4, <4>5 DEF Stored
    <3>6. /\ SubSeq(device.file, device.pos + 1, device.pos) = <<>>
          /\ device.pos + Len(<<>>) = device.pos
      BY <1>3, SubSeqEmpty
    <3>7. CASE task'.step = "read"
      <4>1. Stored'
        BY <3>4, <3>5, <3>6, Zenon DEF Stored
      <4> QED BY <1>2, <3>4, <3>7, <4>1 DEF DownloadInv, LocalWholeOrGone, Asking
    <3>8. CASE task'.step = "idle"
      <4>1. device.pos = Len(device.file)
        BY <1>2, <1>3, <3>3, <3>4, <3>8
      <4>2. local'.data = device.file
        BY <1>3, <3>5, <4>1, SubSeqFull
      <4>3. task'.result = "ok"
        BY <3>3, <3>4, <3>8
      <4> QED BY <3>4, <3>5, <3>8, <4>2, <4>3 DEF DownloadInv, LocalWholeOrGone, Asking
    <3> QED BY <3>3, <3>4, <3>7, <3>8
  <2> QED BY <1>4, <2>1
<1> QED
  BY <1>5, <1>6, <1>7, <1>8, <1>9 DEF Reads

LEMMA DownloadNext ==
  ASSUME TransferAssumption, Types, Course, Counts, DownloadInv, Next
  PROVE  DownloadInv'
<1>1. ASSUME NEW api \in {"sync", "async"}, NEW kind \in {"download", "upload", "update"},
             NEW size \in Sizes, NEW buffer \in Buffers, Begin(api, kind, size, buffer)
      PROVE  DownloadInv'
  <2>1. task'.step \in {"dataSize", "open", "source"} /\ local'.state = "old"
    BY <1>1, BeginIs
  <2> QED BY <2>1 DEF DownloadInv, LocalWholeOrGone
<1>2. CASE Asks \/ Reads \/ Writes
  <2>1. SameCall(task')
    BY <1>2, CallKept
  <2>2. CASE task.kind # "download"
    BY <2>1, <2>2 DEF DownloadInv, SameCall
  <2>3. CASE task.kind = "download"
    <3>1. ~Writes
      BY <2>3 DEF Writes, NextBlock, SourceFails, SetProfile, WriteAnswered, WriteFails,
                  Confirm, Restart, Reconnect, Course, StepsOf
    <3> QED BY <1>2, <2>1, <2>3, <3>1, DownloadAsks, DownloadReads
  <2> QED BY <2>2, <2>3
<1> QED
  BY <1>1, <1>2, NextIs DEF Beginning

LEMMA InitBase == ASSUME TransferAssumption PROVE Init => BaseInv
<1> SUFFICES ASSUME Init PROVE BaseInv
  OBVIOUS
<1>1. <<>> \in Data /\ <<>> \in Flashes /\ Last \in Nat /\ 0 \in 0 .. Last /\ Len(<<>>) = 0
      /\ Last > 0
  <2>1. <<>> \in [{} -> Nat]
    OBVIOUS
  <2>2. <<>> \in Flashes
    BY <2>1 DEF Flashes
  <2>3. Last \in Nat /\ Last > 0
    BY LastIs DEF TransferAssumption
  <2> QED BY <2>2, <2>3, EmptySeq DEF Data
<1>2. device \in Devices /\ local \in Locals
  BY <1>1 DEF Init, Devices, Locals
<1>3. task \in Tasks
  BY <1>1 DEF Init, Tasks, Steps
<1>4. Course /\ DownloadInv
  BY DEF Init, Course, DownloadInv, LocalWholeOrGone, Asking
<1>5. /\ device.pos = 0 /\ device.file = <<>> /\ task.done = 0 /\ task.size = 0
      /\ task.count = 0 /\ task.pack = <<>> /\ task.block = 1 /\ task.step = "idle"
  BY DEF Init
<1>6. Counts
  BY <1>1, <1>5 DEF Counts, Asking
<1> QED
  BY <1>2, <1>3, <1>4, <1>6 DEF Init, BaseInv, Types

LEMMA NextBase ==
  ASSUME TransferAssumption
  PROVE  BaseInv /\ [Next]_vars => BaseInv'
<1>1. ASSUME BaseInv, Next PROVE BaseInv'
  <2>1. Types'
    BY <1>1, TypesNext DEF BaseInv
  <2> QED
    BY <1>1, <2>1, CourseNext, CountsNext, DownloadNext DEF BaseInv
<1>2. ASSUME BaseInv, UNCHANGED vars PROVE BaseInv'
  BY <1>2 DEF vars, BaseInv, Types, Course, Counts, DownloadInv, BlockLeft, Stored,
              LocalWholeOrGone
<1> QED
  BY <1>1, <1>2

LEMMA BaseHolds == Spec => []BaseInv
<1>1. TransferAssumption
  BY TransferAssumption
<1> QED
  BY <1>1, InitBase, NextBase, PTL DEF Spec

\* The state of every transfer and of the device stay well-typed, with what was
\* done within the size of the file and the pointer within the device's file.
THEOREM TypeCorrect == Spec => []TypeOK
<1>1. ASSUME BaseInv PROVE TypeOK
  <2>1. /\ device.file \in Seq(1 .. Last) /\ device.pos \in 0 .. Len(device.file)
        /\ task.size \in 0 .. Last /\ task.done \in 0 .. task.size
        /\ task.block \in Nat \ {0} /\ task.max \in Nat \ {0}
        /\ Len(task.pack) <= task.block /\ task.count \in 0 .. task.block - 1
    BY SMTT(30), <1>1, TransferAssumption, Fields DEF BaseInv, Data, Counts
  <2>2. DOMAIN device.flash \subseteq Nat
    BY <1>1 DEF BaseInv, Types, Devices, Flashes
  <2> QED
    BY <1>1, <2>1, <2>2 DEF BaseInv, TypeOK, Types, Devices, Locals, Tasks, Data
<1> QED
  BY <1>1, BaseHolds, PTL

\* However answers were lost, blocks repeated and files cut short, a download
\* leaves the whole file of the device or none.
THEOREM Downloaded == Spec => []LocalWholeOrGone
<1>1. BaseInv => LocalWholeOrGone
  BY DEF BaseInv, DownloadInv, LocalWholeOrGone
<1> QED
  BY <1>1, BaseHolds, PTL

-----------------------------------------------------------------------------
(* Uploads.                                                                *)

LEMMA UnbrokenSame ==
  ASSUME SameCall(task'), task'.warned = task.warned
  PROVE  Unbroken' = Unbroken /\ Lesser(task.max, task.block)' = Lesser(task.max, task.block)
BY DEF SameCall, Unbroken

LEMMA UploadAsks ==
  ASSUME TransferAssumption, Types, Course, Counts, UploadInv, task.kind = "upload",
         SameCall(task'), Asks
  PROVE  UploadInv'
<1>1. /\ task.step \in {"dataSize", "source", "open"} /\ task.step \in Asking
      /\ task.done = 0 /\ task.count = 0
  BY DEF Asks, Ask, WrongImage, Open, Attr, Seek, Create, OpenSource, Asking, Course, StepsOf,
         Counts
<1>2. Lesser(task'.max, task'.block) < CountMod
  BY DEF UploadInv, SameCall
<1>3. ASSUME task' = Ended("failed") PROVE UploadInv'
  <2>1. task'.step = "idle" /\ task'.result = "failed"
    BY <1>3, EndedIs
  <2> QED BY <1>2, <2>1 DEF UploadInv, UploadedWhole
<1>4. ASSUME task' = Advanced
      PROVE  task'.step = After /\ task'.done = 0 /\ task'.count = 0
  BY <1>1, <1>4, AfterIs DEF SameParts
<1>5. CASE Ask \/ OpenSource
  <2>1. task' = Advanced \/ task' = Ended("failed")
    BY <1>1, <1>5 DEF Ask, OpenSource
  <2>2. CASE task' = Advanced
    <3>1. task'.step \in {"source", "open"}
      BY <1>1, <1>4, <1>5, <2>2 DEF After, Ask, OpenSource
    <3> QED BY <1>2, <3>1 DEF UploadInv
  <2> QED BY <1>3, <2>1, <2>2
<1>6. CASE Open
  <2>1. CASE task' = Advanced /\ device' = [device EXCEPT !.file = <<>>, !.pos = 0]
    <3>1. task'.step = "next"
      BY <1>4, <1>6, <2>1 DEF After, Open
    <3>2. device'.file = <<>>
      BY <2>1 DEF Types, Devices
    <3>3. Bytes(0) = <<>>
      BY DEF Bytes
    <3>4. task'.done + task'.count = 0
      BY <1>4, <2>1
    <3> QED BY <1>2, <3>1, <3>2, <3>3, <3>4 DEF UploadInv
  <2> QED BY <1>3, <1>6, <2>1 DEF Open
<1>7. ~WrongImage /\ ~Attr /\ ~Seek /\ ~Create
  BY <1>1 DEF WrongImage, Attr, Seek, Create
<1> QED
  BY <1>5, <1>6, <1>7 DEF Asks

LEMMA UploadBatch ==
  ASSUME TransferAssumption, Types, Counts, UploadInv, task.kind = "upload",
         task.step = "write"
  PROVE  /\ Counted = Batch
         /\ Unbroken /\ task.api = "sync" => task.count + Batch = BlockSize
<1>1. /\ Batch = (IF task.max <= BlockLeft - task.count THEN task.max
                                                       ELSE BlockLeft - task.count)
      /\ Batch \in 1 .. BlockLeft - task.count
      /\ Batch < CountMod => Counted = Batch
  BY BatchIs
<1>2. BlockLeft \in Nat /\ BlockLeft <= task.block /\ BlockSize = BlockLeft
  BY BlockIs
<1>3. /\ task.block \in Nat \ {0} /\ task.max \in Nat \ {0} /\ task.count \in Nat
      /\ CountMod \in Nat
  BY Fields DEF TransferAssumption
<1>4. (IF task.max <= task.block THEN task.max ELSE task.block) < CountMod
  BY <1>3, LesserIs DEF UploadInv
<1>5. Batch < CountMod
  BY <1>1, <1>2, <1>3, <1>4
<1>6. Unbroken /\ task.api = "sync" => task.count = 0 /\ task.block <= task.max
  BY DEF UploadInv, Unbroken
<1> QED
  BY <1>1, <1>2, <1>3, <1>5, <1>6

LEMMA UploadWrites ==
  ASSUME TransferAssumption, Types, Course, Counts, UploadInv, task.kind = "upload",
         SameCall(task'), Writes
  PROVE  UploadInv'
<1>1. Lesser(task'.max, task'.block) < CountMod /\ task'.kind = "upload"
  BY DEF UploadInv, SameCall
<1>2. ASSUME task' = Ended("failed") PROVE UploadInv'
  <2>1. task'.step = "idle" /\ task'.result = "failed"
    BY <1>2, EndedIs
  <2> QED BY <1>1, <2>1 DEF UploadInv, UploadedWhole
<1>3. CASE NextBlock
  <2>1. /\ task.step = "next" /\ device' = device /\ task.count = 0
        /\ Unbroken => device.file = Bytes(task.done + task.count)
    BY <1>3 DEF NextBlock, UploadInv, Counts
  <2>2. CASE task.done < task.size
    <3>1. task' = [task EXCEPT !.step = "write"]
      BY <1>3, <2>2 DEF NextBlock, BlockStep
    <3>2. /\ task'.step = "write" /\ task'.done = task.done /\ task'.count = task.count
          /\ task'.warned = task.warned
      BY <3>1, StepIs DEF SameParts
    <3>3. Unbroken' = Unbroken
      BY <3>2, UnbrokenSame
    <3> QED BY <1>1, <2>1, <3>2, <3>3 DEF UploadInv
  <2>3. CASE ~(task.done < task.size)
    <3>1. task' = Ended("ok")
      BY <1>3, <2>3 DEF NextBlock
    <3>2. /\ task'.step = "idle" /\ task'.size = task.size /\ task'.warned = task.warned
      BY <3>1, EndedIs DEF SameParts
    <3>3. Unbroken' = Unbroken
      BY <3>2, UnbrokenSame
    <3>4. task.done + task.count = task.size
      BY <2>1, <2>3, Fields
    <3> QED BY <1>1, <2>1, <3>2, <3>3, <3>4 DEF UploadInv, UploadedWhole
  <2> QED BY <2>2, <2>3
<1>4. CASE SourceFails
  BY <1>2, <1>4 DEF SourceFails, Broken
<1>5. CASE WriteAnswered
  <2>1. task.step = "write" /\ device' = Took(Counted)
    BY <1>5 DEF WriteAnswered
  <2>2. Counted = Batch /\ (Unbroken /\ task.api = "sync" => task.count + Batch = BlockSize)
    BY <2>1, UploadBatch
  <2>3. PICK n \in Nat, m \in Nat :
          n = Batch /\ n \in 0 .. Batch /\ m = task.done + task.count
    <3>1. Batch \in 1 .. BlockLeft - task.count
      BY <2>1, BatchIs
    <3>2. BlockLeft \in Nat
      BY BlockIs
    <3>3. task.count \in Nat /\ task.done + task.count \in Nat
      BY SMTT(30), Fields
    <3>4. Batch \in Nat /\ Batch \in 0 .. Batch
      BY <3>1, <3>2, <3>3
    <3> QED BY <3>3, <3>4, Zenon
  <2>4. device'.file = device.file \o [i \in 1 .. n |-> m + i]
    <3>1. Took(n).file = device.file \o [i \in 1 .. n |-> task.done + task.count + i]
      BY <2>1, <2>3, TookFile
    <3> QED BY <2>1, <2>2, <2>3, <3>1
  <2>5. Unbroken => device'.file = Bytes(m + n)
    <3>1. Unbroken => device.file = Bytes(m)
      BY <2>1, <2>3 DEF UploadInv
    <3> QED BY <2>4, <3>1, BytesExtended
  <2>6. CASE task.count + Batch = BlockSize
    <3>1. task' = BlockOver(task)
      BY <1>5, <2>6 DEF WriteAnswered
    <3>2. /\ task'.step = "next" /\ task'.done = task.done + BlockSize /\ task'.count = 0
          /\ task'.warned = task.warned
      BY <3>1, BlockOverIs
    <3>3. Unbroken' = Unbroken
      BY <3>2, UnbrokenSame
    <3>4. task'.done + task'.count = m + n
      <4>1. BlockSize \in Nat /\ task.done \in Nat /\ task.count \in Nat
        BY BlockIs, Fields
      <4> QED BY <2>3, <2>6, <3>2, <4>1
    <3> QED BY <1>1, <2>5, <3>2, <3>3, <3>4 DEF UploadInv
  <2>7. CASE task.count + Batch # BlockSize
    <3>1. task' = [task EXCEPT !.count = @ + Batch]
      BY <1>5, <2>7 DEF WriteAnswered
    <3>2. /\ task'.step = "write" /\ task'.done = task.done
          /\ task'.count = task.count + Batch /\ task'.warned = task.warned
          /\ task'.api = task.api
      BY <2>1, <3>1 DEF Types, Tasks
    <3>3. Unbroken' = Unbroken
      BY <3>2, UnbrokenSame
    <3>4. task'.done + task'.count = m + n
      <4>1. task.done \in Nat /\ task.count \in Nat
        BY Fields
      <4> QED BY <2>3, <3>2, <4>1
    <3>5. Unbroken => task.api # "sync"
      BY <2>2, <2>7
    <3> QED BY <1>1, <2>5, <3>2, <3>3, <3>4, <3>5 DEF UploadInv
  <2> QED BY <2>6, <2>7
<1>6. CASE WriteFails
  <2>1. CASE task' = Broken
    BY <1>2, <2>1 DEF Broken
  <2>2. CASE task' # Broken
    <3>1. /\ task' = [BlockOver(task) EXCEPT !.warned = @ \/ task.api = "async"]
          /\ task.count > 0 /\ task.step = "write"
      BY <1>6, <2>2 DEF WriteFails
    <3>2. /\ task'.step = "next"
          /\ task'.warned = (task.warned \/ task.api = "async")
          /\ task'.api = task.api
      BY <3>1 DEF BlockOver, Types, Tasks
    <3>3. ~Unbroken'
      <4>1. CASE task.api = "async"
        BY <3>2, <4>1 DEF Unbroken
      <4>2. CASE task.api # "async"
        <5>1. task.api = "sync"
          BY <4>2 DEF Types, Tasks
        <5>2. ~Unbroken
          BY <3>1, <5>1, Fields DEF UploadInv
        <5> QED BY <4>2, <5>2, <3>2 DEF Unbroken, SameCall
      <4> QED BY <4>1, <4>2
    <3> QED BY <1>1, <3>3 DEF UploadInv
  <2> QED BY <2>1, <2>2
<1>7. ~SetProfile /\ ~Confirm /\ ~Restart /\ ~Reconnect
  BY DEF SetProfile, Confirm, Restart, Reconnect, Course, StepsOf
<1> QED
  BY <1>3, <1>4, <1>5, <1>6, <1>7 DEF Writes

LEMMA UploadNext ==
  ASSUME TransferAssumption, UploadsFit, Types, Course, Counts, UploadInv, [Next]_vars
  PROVE  UploadInv'
<1>1. ASSUME NEW api \in {"sync", "async"}, NEW kind \in {"download", "upload", "update"},
             NEW size \in Sizes, NEW buffer \in Buffers, Begin(api, kind, size, buffer)
      PROVE  UploadInv'
  <2>1. /\ task'.step \in {"dataSize", "open", "source"} /\ task'.kind = kind
        /\ task'.max = buffer.max
        /\ task'.block = (IF kind = "update" THEN UpdateBlock ELSE buffer.block)
    BY <1>1, BeginIs
  <2>2. Lesser(buffer.max, buffer.block) < CountMod
    BY DEF UploadsFit
  <2> QED BY <2>1, <2>2 DEF UploadInv
<1>2. CASE Asks \/ Reads \/ Writes
  <2>1. SameCall(task')
    BY <1>2, CallKept
  <2>2. CASE task.kind # "upload"
    BY <2>1, <2>2 DEF UploadInv, SameCall
  <2>3. CASE task.kind = "upload"
    <3>1. ~Reads
      BY <2>3 DEF Reads, ReadAnswered, ReadBusy, ReadFails, ReadEnds, ReadNothing, Again, Store,
                  Course, StepsOf
    <3> QED BY <1>2, <2>1, <2>3, <3>1, UploadAsks, UploadWrites
  <2> QED BY <2>2, <2>3
<1>3. CASE UNCHANGED vars
  BY <1>3 DEF vars, UploadInv, Unbroken, UploadedWhole
<1> QED
  BY <1>1, <1>2, <1>3, NextIs DEF Beginning

\* A reported success of an upload is the whole file, for the requests as long as
\* they gave no warning, for uploadFile as long as a block fits in one write, and
\* as long as the number of items of a write fits its 8 bits.
THEOREM Uploaded == ASSUME UploadsFit PROVE Spec => []UploadedWhole
<1>1. TransferAssumption
  BY TransferAssumption
<1>2. Init => UploadInv
  BY DEF Init, UploadInv
<1>3. BaseInv /\ UploadInv /\ [Next]_vars => UploadInv'
  BY <1>1, UploadNext, UploadsFit DEF BaseInv
<1>4. BaseInv /\ UploadInv => UploadedWhole
  <2> SUFFICES ASSUME BaseInv, UploadInv, task.kind = "upload", task.result = "ok", Unbroken
               PROVE  UploadedWhole
    BY DEF UploadedWhole, Unbroken
  <2>1. task.step = "idle"
    BY DEF BaseInv, Course
  <2> QED BY <2>1 DEF UploadInv
<1> QED
  BY <1>2, <1>3, <1>4, BaseHolds, PTL DEF Spec

-----------------------------------------------------------------------------
(* Updates.                                                                *)

\* A block of firmware lies between two wraps.
LEMMA InBlock ==
  ASSUME TransferAssumption, Types, Counts, UpdateInv, task.kind = "update",
         task.step = "write"
  PROVE  /\ Part \in Nat /\ Part + BlockLeft <= Wrap /\ Wrap \in Nat \ {0}
         /\ BlockLeft \in Nat /\ BlockLeft <= UpdateBlock
         /\ UpdateBlock \in Nat \ {0} /\ task.block = UpdateBlock
         /\ task.done % UpdateBlock = 0
<1>1. UpdateBlock \in Nat \ {0} /\ Wrap \in Nat \ {0} /\ Wrap % UpdateBlock = 0
  BY DEF TransferAssumption
<1>2. task.block = UpdateBlock /\ task.done % UpdateBlock = 0
  <2>1. task.done # task.size
    BY Fields DEF Counts
  <2> QED BY <2>1 DEF UpdateInv
<1>3. task.done \in Nat
  BY Fields
<1>4. (task.done % Wrap) + UpdateBlock <= Wrap /\ task.done % Wrap \in Nat
  <2>1. (task.done % Wrap) + UpdateBlock <= Wrap
    BY <1>1, <1>2, <1>3, Room
  <2> QED BY <1>1, <1>3, <2>1
<1>5. BlockLeft \in Nat /\ BlockLeft <= UpdateBlock
  BY <1>2, BlockIs
<1> QED
  BY <1>1, <1>2, <1>4, <1>5 DEF Part

\* The items of a request go where the profile and the address say: every one to
\* its own address.
LEMMA AddressIs ==
  ASSUME TransferAssumption, Types, Counts, UpdateInv, task.kind = "update",
         task.step = "write", NEW n \in 0 .. Batch
  PROVE  \A i \in 0 .. n - 1 : Address(i) = task.done + task.count + i
<1>1. /\ Part \in Nat /\ Part + BlockLeft <= Wrap /\ Wrap \in Nat \ {0} /\ BlockLeft \in Nat
  BY InBlock
<1>2. Batch \in 1 .. BlockLeft - task.count
  BY BatchIs
<1>3. task.count \in Nat /\ task.done \in Nat
  BY Fields
<1>4. PICK from \in Int : from = device.profile * Wrap /\ from + Part = task.done
  <2>1. device.profile * Wrap \in Int
    BY <1>1, Fields
  <2> QED BY <2>1 DEF UpdateInv, Set
<1>5. ASSUME NEW i \in 0 .. n - 1 PROVE Address(i) = task.done + task.count + i
  <2>1. i \in Nat /\ Part + task.count + i \in 0 .. Wrap - 1
    BY <1>1, <1>2, <1>3
  <2>2. (Part + task.count + i) % Wrap = Part + task.count + i
    BY <1>1, <2>1
  <2>3. Address(i) = from + (Part + task.count + i)
    BY <1>4, <2>2 DEF Address
  <2> QED BY <1>1, <1>3, <1>4, <2>1, <2>3
<1> QED
  BY <1>5

LEMMA FlashAfter ==
  ASSUME TransferAssumption, Types, Counts, UpdateInv, task.kind = "update",
         task.step = "write", NEW n \in 0 .. Batch,
         NEW from \in Nat, from = task.done + task.count
  PROVE  /\ \A a \in DOMAIN Took(n).flash : Took(n).flash[a] = a
         /\ DOMAIN device.flash = 0 .. from - 1 => DOMAIN Took(n).flash = 0 .. from + n - 1
         /\ Took(n).confirmed = device.confirmed /\ Took(n).profile = device.profile
<1>2. \A i \in 0 .. n - 1 : Address(i) = from + i
  BY AddressIs
<1>3. n \in Nat
  <2>1. Batch \in 1 .. BlockLeft - task.count
    BY BatchIs
  <2>2. BlockLeft \in Nat
    BY BlockIs
  <2>3. task.count \in Nat
    BY Fields
  <2> QED BY <2>1, <2>2, <2>3
<1>4. Written(n) = from .. from + n - 1
  <2>1. \A i \in 0 .. n - 1 : Address(i) \in from .. from + n - 1
    BY <1>2, <1>3
  <2>2. ASSUME NEW a \in from .. from + n - 1 PROVE a - from \in 0 .. n - 1 /\ Address(a - from) = a
    <3>1. a - from \in 0 .. n - 1 /\ from + (a - from) = a
      BY <1>3
    <3> QED BY <1>2, <3>1
  <2> QED BY <2>1, <2>2 DEF Written
<1>5. ASSUME NEW a \in Written(n) PROVE ByteAt(n, a) = a
  <2>1. PICK i \in 0 .. n - 1 : Address(i) = a
    BY DEF Written
  <2>2. PICK j \in 0 .. n - 1 : /\ Address(j) = a
                               /\ j = CHOOSE k \in 0 .. n - 1 : Address(k) = a
    BY <2>1
  <2>3. ByteAt(n, a) = from + j
    BY <2>2 DEF ByteAt
  <2> QED BY <1>2, <2>2, <2>3
<1>6. Took(n) = [device EXCEPT !.flash =
                   [a \in Written(n) \union DOMAIN device.flash |->
                      IF a \in Written(n) THEN ByteAt(n, a) ELSE device.flash[a]]]
  BY TookFlash
<1>7. /\ Took(n).flash = [a \in Written(n) \union DOMAIN device.flash |->
                           IF a \in Written(n) THEN ByteAt(n, a) ELSE device.flash[a]]
      /\ Took(n).confirmed = device.confirmed /\ Took(n).profile = device.profile
  BY <1>6 DEF Types, Devices
<1>8. \A a \in DOMAIN device.flash : device.flash[a] = a
  BY DEF UpdateInv, Placed
<1>9. \A a \in DOMAIN Took(n).flash : Took(n).flash[a] = a
  BY <1>5, <1>7, <1>8
<1>10. DOMAIN Took(n).flash = Written(n) \union DOMAIN device.flash
  BY <1>7
<1>11. DOMAIN device.flash = 0 .. from - 1 => DOMAIN Took(n).flash = 0 .. from + n - 1
  BY <1>3, <1>4, <1>10
<1> QED
  BY <1>7, <1>9, <1>11

\* The address after the block: the next one, or the first of the next profile.
LEMMA NextPart ==
  ASSUME TransferAssumption, Types, Counts, UpdateInv, task.kind = "update",
         task.step = "write",
         task'.done = task.done + BlockLeft, task'.size = task.size,
         task'.profile = task.profile, device'.profile = device.profile
  PROVE  /\ task'.done = task'.size \/ task'.done % UpdateBlock = 0
         /\ IF Part' = 0 THEN ToSet' ELSE Set'
<1>1. /\ Part \in Nat /\ Part + BlockLeft <= Wrap /\ Wrap \in Nat \ {0}
      /\ BlockLeft \in Nat /\ BlockLeft <= UpdateBlock
      /\ UpdateBlock \in Nat \ {0} /\ task.block = UpdateBlock
      /\ task.done % UpdateBlock = 0
  BY InBlock
<1>2. task.done \in Nat /\ task.size \in Nat /\ device.profile \in Nat
  BY Fields
<1>3. task'.done = task'.size \/ task'.done % UpdateBlock = 0
  <2>1. BlockLeft = (IF task.block <= task.size - task.done THEN task.block
                                                          ELSE task.size - task.done)
    BY BlockIs
  <2>2. CASE BlockLeft = UpdateBlock
    BY <1>1, <1>2, <2>2, NextMultiple
  <2>3. CASE BlockLeft # UpdateBlock
    BY <1>1, <1>2, <2>1, <2>3
  <2> QED BY <2>2, <2>3
<1>4. /\ Part + BlockLeft = Wrap => Part' = 0
      /\ Part + BlockLeft < Wrap => Part' = Part + BlockLeft
  <2>1. PICK d \in Nat, n \in Nat, e \in Nat :
          d = task.done /\ n = BlockLeft /\ e = task'.done /\ e = d + n
    BY <1>1, <1>2
  <2>2. PICK r \in Nat : r = d % Wrap /\ r = Part
    BY <1>1, <2>1 DEF Part
  <2>3. /\ r + n = Wrap => e % Wrap = 0
        /\ r + n < Wrap => e % Wrap = r + n
    BY <1>1, <2>1, <2>2, ModStep
  <2>4. Part' = e % Wrap
    BY <2>1 DEF Part
  <2> QED BY <2>1, <2>2, <2>3, <2>4
<1>5. PICK from \in Int : from = device.profile * Wrap /\ from + Part = task.done
                         /\ task.profile = device.profile + 1
  <2>1. device.profile * Wrap \in Int
    BY <1>1, <1>2
  <2> QED BY <2>1 DEF UpdateInv, Set
<1>6. CASE Part + BlockLeft = Wrap
  <2>1. (device.profile + 1) * Wrap = from + Wrap
    <3>1. (device.profile + 1) * Wrap = device.profile * Wrap + Wrap
      BY <1>1, <1>2
    <3> QED BY <3>1, <1>5
  <2>2. task'.done = from + Wrap
    BY <1>1, <1>2, <1>5, <1>6
  <2>3. ToSet'
    BY <1>5, <2>1, <2>2 DEF ToSet
  <2> QED BY <1>3, <1>4, <1>6, <2>3
<1>7. CASE Part + BlockLeft # Wrap
  <2>1. Part' = Part + BlockLeft
    BY <1>1, <1>4, <1>7
  <2>2. Set'
    <3>1. task'.done = from + (Part + BlockLeft)
      BY <1>1, <1>2, <1>5
    <3> QED BY <1>5, <2>1, <3>1 DEF Set
  <2>3. Part' = 0 => ToSet'
    <3>1. Part' = 0 => Part = 0 /\ BlockLeft = 0
      BY <1>1, <2>1
    <3>2. BlockLeft # 0
      <4>1. task.count \in Nat
        BY Fields
      <4> QED BY <1>1, <4>1 DEF Counts
    <3> QED BY <3>1, <3>2
  <2> QED BY <1>3, <2>2, <2>3
<1> QED
  BY <1>6, <1>7

\* Where an update ends or gives up, only what was confirmed matters.
LEMMA UpdateStops ==
  ASSUME UpdateInv, task.kind = "update", SameCall(task'),
         task'.step \in {"idle", "restart", "reconnect"}, FlashIsImage'
  PROVE  UpdateInv'
BY DEF UpdateInv, SameCall, Asking

LEMMA UpdateAsks ==
  ASSUME TransferAssumption, Types, Course, Counts, UpdateInv, task.kind = "update",
         SameCall(task'), Asks
  PROVE  UpdateInv'
<1>1. /\ task.step \in {"source", "softId", "auth", "header"} /\ task.step \in Asking
      /\ task.done = 0 /\ task.count = 0
  BY DEF Asks, Ask, WrongImage, Open, Attr, Seek, Create, OpenSource, Asking, Course, StepsOf,
         Counts
<1>2. /\ device' = device /\ task' \in {Advanced, Ended("failed"), Ended("crashed")}
  BY <1>1 DEF Asks, Ask, WrongImage, Open, Attr, Seek, Create, OpenSource
<1>3. /\ ~device.confirmed /\ Placed /\ DOMAIN device.flash = {} /\ task.profile = 0
      /\ task.block = UpdateBlock
  BY <1>1 DEF UpdateInv
<1>4. CASE task' \in {Ended("failed"), Ended("crashed")}
  <2>1. task'.step = "idle"
    BY <1>4, EndedIs
  <2> QED BY <1>2, <1>3, <2>1, UpdateStops DEF FlashIsImage
<1>5. CASE task' = Advanced
  <2>1. /\ task'.step \in {"softId", "auth", "header", "next"}
        /\ task'.done = 0 /\ task'.count = 0 /\ task'.profile = 0
        /\ task'.size = task.size /\ task'.kind = "update" /\ task'.block = task.block
    BY <1>1, <1>3, <1>5, AfterIs DEF After, SameParts, SameCall
  <2>2. /\ device'.flash = device.flash /\ device'.confirmed = device.confirmed
        /\ device'.profile = device.profile
    BY <1>2
  <2>3. Wrap \in Nat \ {0} /\ UpdateBlock \in Nat \ {0} /\ 0 % Wrap = 0 /\ 0 % UpdateBlock = 0
    BY DEF TransferAssumption
  <2>4. Part' = 0 /\ ToSet'
    BY <2>1, <2>3 DEF Part, ToSet
  <2>5. {} = 0 .. task'.done + task'.count - 1
    BY <2>1
  <2>6. task'.done % UpdateBlock = 0
    BY <2>1, <2>3
  <2>7. Placed' /\ ~device'.confirmed /\ DOMAIN device'.flash = {}
    BY <1>3, <2>2 DEF Placed
  <2> QED BY <1>3, <2>1, <2>4, <2>5, <2>6, <2>7 DEF UpdateInv, Asking
<1> QED
  BY <1>2, <1>4, <1>5

\* The items of a write that the device takes, and their count.
LEMMA UpdateBatch ==
  ASSUME TransferAssumption, UpdatesFit, Types, Counts, UpdateInv, task.kind = "update",
         task.step = "write"
  PROVE  /\ Counted = Batch /\ Batch \in 0 .. Batch /\ Batch \in Nat
         /\ task.block <= task.max => task.count = 0 /\ Batch = BlockSize
<1>1. /\ Batch = (IF task.max <= BlockLeft - task.count THEN task.max
                                                       ELSE BlockLeft - task.count)
      /\ Batch \in 1 .. BlockLeft - task.count
      /\ Batch < CountMod => Counted = Batch
  BY BatchIs
<1>2. BlockLeft \in Nat /\ BlockLeft <= task.block /\ BlockSize = BlockLeft
  BY BlockIs
<1>3. /\ task.block \in Nat \ {0} /\ task.max \in Nat \ {0} /\ task.count \in Nat
      /\ CountMod \in Nat
  BY Fields DEF TransferAssumption
<1>4. task.block < CountMod
  BY DEF UpdateInv, UpdatesFit
<1>5. Batch < CountMod /\ Batch \in Nat
  BY <1>1, <1>2, <1>3, <1>4
<1>6. task.block <= task.max => task.count = 0
  BY DEF UpdateInv
<1> QED
  BY <1>1, <1>2, <1>3, <1>5, <1>6

\* After the last item of a block, or after the first that failed.
LEMMA UpdateBlockOver ==
  ASSUME TransferAssumption, Types, Counts, UpdateInv, task.kind = "update",
         task.step = "write", SameCall(task'),
         task'.step = "next", task'.done = task.done + BlockSize, task'.count = 0,
         task'.size = task.size, task'.profile = task.profile,
         device'.profile = device.profile, ~device'.confirmed, Placed',
         task.block <= task.max =>
           DOMAIN device'.flash = 0 .. task.done + task.count + BlockSize - 1
  PROVE  UpdateInv'
<1>1. /\ task'.done = task'.size \/ task'.done % UpdateBlock = 0
      /\ IF Part' = 0 THEN ToSet' ELSE Set'
  <2>1. task'.done = task.done + BlockLeft
    BY BlockIs
  <2> QED BY <2>1, NextPart
<1>2. task.block <= task.max => DOMAIN device'.flash = 0 .. task'.done + task'.count - 1
  <2>1. BlockSize \in Nat /\ task.done \in Nat /\ task.count \in Nat
    BY BlockIs, Fields
  <2>2. task'.done + task'.count - 1 = task.done + BlockSize - 1
    BY <2>1
  <2>3. ASSUME task.block <= task.max
        PROVE  task.done + task.count + BlockSize - 1 = task.done + BlockSize - 1
    <3>1. task.count = 0
      BY <2>3 DEF UpdateInv
    <3> QED BY <2>1, <3>1
  <2> QED BY <2>2, <2>3
<1>3. /\ task'.kind = "update" /\ task'.block = UpdateBlock
      /\ task'.block = task.block /\ task'.max = task.max
  BY DEF UpdateInv, SameCall
<1> QED
  BY <1>1, <1>2, <1>3 DEF UpdateInv, Asking

\* The device after a write of n items.
LEMMA UpdateTook ==
  ASSUME TransferAssumption, Types, Counts, UpdateInv, task.kind = "update",
         task.step = "write", NEW n \in 0 .. Batch, device' = Took(n)
  PROVE  /\ Placed' /\ ~device'.confirmed /\ device'.profile = device.profile
         /\ task.block <= task.max =>
              DOMAIN device'.flash = 0 .. task.done + task.count + n - 1
<1>1. PICK from \in Nat : from = task.done + task.count
  <2>1. task.done \in Nat /\ task.count \in Nat
    BY Fields
  <2> QED BY <2>1
<1>2. /\ \A a \in DOMAIN device'.flash : device'.flash[a] = a
      /\ DOMAIN device.flash = 0 .. from - 1 => DOMAIN device'.flash = 0 .. from + n - 1
      /\ device'.confirmed = device.confirmed /\ device'.profile = device.profile
  BY <1>1, FlashAfter
<1>3. /\ ~device.confirmed
      /\ task.block <= task.max => DOMAIN device.flash = 0 .. from - 1
  <2>1. /\ ~device.confirmed
        /\ task.block <= task.max => DOMAIN device.flash = 0 .. task.done + task.count - 1
    BY DEF UpdateInv
  <2>2. task.done + task.count - 1 = from - 1
    <3>1. task.done \in Nat /\ task.count \in Nat
      BY Fields
    <3> QED BY <1>1, <3>1
  <2>3. 0 .. task.done + task.count - 1 = 0 .. from - 1
    BY <2>2
  <2> QED BY <2>1, <2>3
<1>4. task.block <= task.max => DOMAIN device'.flash = 0 .. task.done + task.count + n - 1
  BY <1>1, <1>2, <1>3
<1> QED
  BY <1>2, <1>3, <1>4 DEF Placed

LEMMA UpdateWrites ==
  ASSUME TransferAssumption, UpdatesFit, Types, Course, Counts, UpdateInv,
         task.kind = "update", SameCall(task'), WriteAnswered \/ WriteFails
  PROVE  UpdateInv'
<1>1. task.step = "write"
  BY DEF WriteAnswered, WriteFails
<1>2. /\ Counted = Batch /\ Batch \in 0 .. Batch /\ Batch \in Nat
      /\ task.block <= task.max => task.count = 0 /\ Batch = BlockSize
  BY <1>1, UpdateBatch
<1>3. task.api = "sync"
  BY DEF Course
<1>4. ASSUME device' = Took(Counted)
      PROVE  /\ Placed' /\ ~device'.confirmed /\ device'.profile = device.profile
             /\ task.block <= task.max =>
                  DOMAIN device'.flash = 0 .. task.done + task.count + Batch - 1
  <2>1. PICK n \in 0 .. Batch : n = Counted /\ n = Batch
    BY <1>2
  <2>2. device' = Took(n)
    BY <1>4, <2>1
  <2> QED BY <1>1, <2>1, <2>2, UpdateTook
<1>5. CASE WriteAnswered
  <2>1. /\ Placed' /\ ~device'.confirmed /\ device'.profile = device.profile
        /\ task.block <= task.max =>
             DOMAIN device'.flash = 0 .. task.done + task.count + Batch - 1
    BY <1>4, <1>5 DEF WriteAnswered
  <2>2. CASE task.count + Batch = BlockSize
    <3>1. task' = BlockOver(task)
      BY <1>5, <2>2 DEF WriteAnswered
    <3>2. /\ task'.step = "next" /\ task'.done = task.done + BlockSize /\ task'.count = 0
          /\ task'.size = task.size /\ task'.profile = task.profile
      BY <3>1, BlockOverIs
    <3> QED BY <1>1, <1>2, <2>1, <3>2, UpdateBlockOver
  <2>3. CASE task.count + Batch # BlockSize
    <3>1. task' = [task EXCEPT !.count = @ + Batch]
      BY <1>5, <2>3 DEF WriteAnswered
    <3>2. /\ task'.step = "write" /\ task'.done = task.done /\ task'.size = task.size
          /\ task'.profile = task.profile
      BY <1>1, <3>1 DEF Types, Tasks
    <3>3. ~(task.block <= task.max)
      BY <1>2, <2>3
    <3>4. Set
      BY <1>1 DEF UpdateInv
    <3>5. Set'
      BY <2>1, <3>2, <3>4 DEF Set, Part
    <3>6. task.done = task.size \/ task.done % UpdateBlock = 0
      BY <1>1 DEF UpdateInv
    <3>7. task'.kind = "update" /\ task'.block = UpdateBlock /\ ~(task'.block <= task'.max)
      BY <3>3 DEF UpdateInv, SameCall
    <3> QED BY <2>1, <3>2, <3>5, <3>6, <3>7 DEF UpdateInv, Asking
  <2> QED BY <2>2, <2>3
<1>6. CASE WriteFails
  <2>1. Placed' /\ ~device'.confirmed /\ device'.profile = device.profile
    <3>1. CASE device' = device
      BY <1>1, <3>1 DEF UpdateInv, Placed
    <3>2. CASE device' = Took(Counted)
      BY <1>4, <3>2
    <3> QED BY <1>6, <3>1, <3>2 DEF WriteFails
  <2>2. CASE task' = Broken
    <3>1. task'.step = "restart"
      BY <2>2, BrokenIs
    <3> QED BY <2>1, <3>1, UpdateStops DEF FlashIsImage
  <2>3. CASE task' # Broken
    <3>1. task.count > 0 /\ task' = [BlockOver(task) EXCEPT !.warned = @ \/ task.api = "async"]
      BY <1>6, <2>3 DEF WriteFails
    <3>2. /\ task'.step = "next" /\ task'.done = task.done + BlockSize /\ task'.count = 0
          /\ task'.size = task.size /\ task'.profile = task.profile
      BY <3>1 DEF BlockOver, Types, Tasks
    <3>3. ~(task.block <= task.max)
      <4>1. task.count # 0
        BY <3>1, Fields
      <4> QED BY <1>2, <4>1
    <3> QED BY <1>1, <2>1, <3>2, <3>3, UpdateBlockOver
  <2> QED BY <2>2, <2>3
<1> QED
  BY <1>5, <1>6

LEMMA UpdateGoes ==
  ASSUME TransferAssumption, Types, Course, Counts, UpdateInv,
         task.kind = "update", SameCall(task'),
         NextBlock \/ SourceFails \/ SetProfile \/ Confirm \/ Restart \/ Reconnect
  PROVE  UpdateInv'
<1>1. /\ task.block = UpdateBlock /\ task'.block = UpdateBlock /\ task'.kind = "update"
      /\ task'.max = task.max
  BY DEF UpdateInv, SameCall
<1>2. task.step \in {"next", "profile", "confirm"} =>
        /\ ~device.confirmed /\ Placed
        /\ task.block <= task.max => DOMAIN device.flash = 0 .. task.done + task.count - 1
  BY DEF UpdateInv
<1>3. ASSUME task' = Broken, ~device'.confirmed PROVE UpdateInv'
  <2>1. task'.step = "restart"
    BY <1>3, BrokenIs
  <2> QED BY <1>3, <2>1, UpdateStops DEF FlashIsImage
<1>4. ASSUME NEW step, task' = [task EXCEPT !.step = step]
      PROVE  /\ task'.step = step /\ task'.done = task.done /\ task'.count = task.count
             /\ task'.size = task.size /\ task'.profile = task.profile
  BY <1>4, StepIs DEF SameParts
<1>10. \A t : task' = t /\ SameParts(t) => SameParts(task')
  BY DEF SameParts, SameCall
<1>5. CASE SourceFails
  BY <1>2, <1>3, <1>5 DEF SourceFails
<1>6. CASE NextBlock
  <2>1. /\ task.step = "next" /\ device' = device /\ task.count = 0
        /\ task.done = task.size \/ task.done % UpdateBlock = 0
        /\ task.done = task.size \/ (IF Part = 0 THEN ToSet ELSE Set)
    BY <1>6 DEF NextBlock, UpdateInv, Counts
  <2>2. Placed' /\ ~device'.confirmed
    BY <1>2, <2>1 DEF Placed
  <2>3. CASE task.done < task.size
    <3>1. task' = [task EXCEPT !.step = BlockStep]
      BY <1>6, <2>3 DEF NextBlock
    <3>2. /\ task'.step = BlockStep /\ task'.done = task.done /\ task'.count = task.count
          /\ task'.size = task.size /\ task'.profile = task.profile
      BY <1>4, <3>1
    <3>3. task.done # task.size
      BY <2>3, Fields
    <3>4. Part' = Part /\ Set' = Set /\ ToSet' = ToSet
      BY <2>1, <3>2 DEF Part, Set, ToSet
    <3>5. CASE Part = 0
      <4>1. task'.step = "profile"
        BY <3>2, <3>5 DEF BlockStep
      <4> QED BY <1>1, <1>2, <2>1, <2>2, <3>2, <3>3, <3>4, <3>5, <4>1 DEF UpdateInv, Asking
    <3>6. CASE Part # 0
      <4>1. task'.step = "write"
        BY <3>2, <3>6 DEF BlockStep
      <4> QED BY <1>1, <1>2, <2>1, <2>2, <3>2, <3>3, <3>4, <3>6, <4>1 DEF UpdateInv, Asking
    <3> QED BY <3>5, <3>6
  <2>4. CASE ~(task.done < task.size)
    <3>1. task' = [task EXCEPT !.step = "confirm"]
      BY <1>6, <2>4 DEF NextBlock
    <3>2. /\ task'.step = "confirm" /\ task'.done = task.done /\ task'.count = task.count
          /\ task'.size = task.size
      BY <1>4, <3>1
    <3>3. task'.done = task'.size
      BY SMTT(30), <2>4, <3>2, Fields
    <3> QED BY <1>1, <1>2, <2>1, <2>2, <3>2, <3>3 DEF UpdateInv, Asking
  <2> QED BY <2>3, <2>4
<1>7. CASE SetProfile
  <2>1. /\ task.step = "profile" /\ Part = 0 /\ ToSet /\ task.count = 0
        /\ task.done = task.size \/ task.done % UpdateBlock = 0
    BY <1>7 DEF SetProfile, UpdateInv, Counts
  <2>2. /\ device'.flash = device.flash /\ device'.confirmed = device.confirmed
    BY <1>7 DEF SetProfile, Types, Devices
  <2>3. Placed' /\ ~device'.confirmed
    BY <1>2, <2>1, <2>2 DEF Placed
  <2>4. CASE task' = Broken
    BY <1>3, <2>3, <2>4
  <2>5. CASE task' # Broken
    <3>1. /\ device' = [device EXCEPT !.profile = task.profile]
          /\ task' = [task EXCEPT !.step = "write", !.profile = @ + 1]
      BY <1>7, <2>5 DEF SetProfile
    <3>2. /\ device'.profile = task.profile /\ task'.step = "write"
          /\ task'.profile = task.profile + 1 /\ task'.done = task.done
          /\ task'.count = task.count /\ task'.size = task.size
      BY <3>1 DEF Types, Devices, Tasks
    <3>3. Part' = 0
      BY <2>1, <3>2 DEF Part
    <3>4. Set'
      <4>1. Wrap \in Nat /\ task.profile \in Nat
        BY Fields DEF TransferAssumption
      <4>2. task.profile * Wrap + 0 = task.profile * Wrap
        BY <4>1
      <4>3. device'.profile * Wrap + Part' = task.done
        BY <2>1, <3>2, <3>3, <4>2 DEF ToSet
      <4> QED BY <3>2, <4>3 DEF Set
    <3> QED BY <1>1, <1>2, <2>1, <2>2, <2>3, <3>2, <3>4 DEF UpdateInv, Asking
  <2> QED BY <2>4, <2>5
<1>8. CASE Confirm
  <2>1. task.step = "confirm" /\ task.done = task.size /\ task.count = 0
    BY <1>8 DEF Confirm, UpdateInv
  <2>2. device'.flash = device.flash
    BY <1>8 DEF Confirm, Types, Devices
  <2>3. SameParts(task') /\ task'.step = "restart"
    <3>1. CASE task' = Broken
      BY <1>10, <3>1, BrokenIs
    <3>2. CASE task' = [task EXCEPT !.step = "restart"]
      BY <1>4, <1>10, <3>2, StepIs
    <3> QED BY <1>8, <3>1, <3>2 DEF Confirm
  <2>4. FlashIsImage'
    <3>1. \A a \in DOMAIN device'.flash : device'.flash[a] = a
      BY <1>2, <2>1, <2>2 DEF Placed
    <3>2. task.done + task.count - 1 = task.size - 1
      BY <2>1, Fields
    <3>3. task'.block <= task'.max => DOMAIN device'.flash = 0 .. task'.size - 1
      BY <1>1, <1>2, <2>1, <2>2, <2>3, <3>2 DEF SameParts
    <3> QED BY <3>1, <3>3 DEF FlashIsImage
  <2> QED BY <2>3, <2>4, UpdateStops
<1>9. CASE Restart \/ Reconnect
  <2>1. /\ device' = device
        /\ \/ task' \in {Ended("failed"), Ended("ok")}
           \/ task' = [task EXCEPT !.step = "reconnect"]
    BY <1>9 DEF Restart, Reconnect
  <2>2. SameParts(task') /\ task'.step \in {"idle", "reconnect"}
    <3>1. CASE task' \in {Ended("failed"), Ended("ok")}
      BY <1>10, <3>1, EndedIs
    <3>2. CASE task' = [task EXCEPT !.step = "reconnect"]
      BY <1>4, <1>10, <3>2, StepIs
    <3> QED BY <2>1, <3>1, <3>2
  <2>3. FlashIsImage
    BY DEF UpdateInv, FlashIsImage
  <2>4. FlashIsImage'
    BY <1>1, <2>1, <2>2, <2>3 DEF FlashIsImage, SameParts
  <2> QED BY <2>2, <2>4, UpdateStops
<1> QED
  BY <1>5, <1>6, <1>7, <1>8, <1>9

LEMMA UpdateNext ==
  ASSUME TransferAssumption, UpdatesFit, Types, Course, Counts, UpdateInv, [Next]_vars
  PROVE  UpdateInv'
<1>1. ASSUME NEW api \in {"sync", "async"}, NEW kind \in {"download", "upload", "update"},
             NEW size \in Sizes, NEW buffer \in Buffers, Begin(api, kind, size, buffer)
      PROVE  UpdateInv'
  <2>1. /\ task'.step \in {"dataSize", "open", "source"} /\ task'.kind = kind
        /\ task'.block = (IF kind = "update" THEN UpdateBlock ELSE buffer.block)
        /\ task'.done = 0 /\ task'.count = 0 /\ task'.profile = 0
        /\ ~device'.confirmed /\ DOMAIN device'.flash = {}
    BY <1>1, BeginIs
  <2>2. {} = 0 .. task'.done + task'.count - 1
    BY <2>1
  <2>3. Placed'
    BY <2>1 DEF Placed
  <2> QED BY <2>1, <2>2, <2>3 DEF UpdateInv
<1>2. CASE Asks \/ Reads \/ Writes
  <2>1. SameCall(task')
    BY <1>2, CallKept
  <2>2. CASE task.kind # "update"
    <3>1. ~device.confirmed
      BY <2>2 DEF UpdateInv
    <3>2. ~Confirm /\ ~SetProfile /\ ~Restart /\ ~Reconnect
      BY <2>2 DEF Confirm, SetProfile, Restart, Reconnect, Course, StepsOf, Types, Tasks
    <3>3. device'.confirmed = device.confirmed
      <4>1. CASE Asks
        BY <4>1 DEF Asks, Ask, WrongImage, Open, Attr, Seek, Create, OpenSource, Types, Devices
      <4>2. CASE Reads
        BY <4>2 DEF Reads, ReadAnswered, ReadBusy, ReadFails, ReadEnds, ReadNothing, Again, Store,
                    Types, Devices
      <4>3. CASE Writes
        <5>1. CASE device' = device
          BY <5>1
        <5>2. CASE device' = Took(Counted) /\ task.step = "write"
          <6>1. task.kind = "upload"
            BY <2>2, <5>2 DEF Types, Tasks, Course, StepsOf
          <6>2. Counted \in 0 .. Batch
            BY <5>2, BatchIs
          <6> QED BY <5>2, <6>1, <6>2, TookFile
        <5> QED BY <3>2, <4>3, <5>1, <5>2
                DEF Writes, NextBlock, SourceFails, WriteAnswered, WriteFails
      <4> QED BY <1>2, <4>1, <4>2, <4>3
    <3> QED BY <2>1, <2>2, <3>1, <3>3 DEF UpdateInv, SameCall
  <2>3. CASE task.kind = "update"
    <3>1. ~Reads
      BY <2>3 DEF Reads, ReadAnswered, ReadBusy, ReadFails, ReadEnds, ReadNothing, Again, Store,
                  Course, StepsOf
    <3>2. CASE Asks
      BY <2>1, <2>3, <3>2, UpdateAsks
    <3>3. CASE WriteAnswered \/ WriteFails
      BY <2>1, <2>3, <3>3, UpdateWrites
    <3>4. CASE NextBlock \/ SourceFails \/ SetProfile \/ Confirm \/ Restart \/ Reconnect
      BY <2>1, <2>3, <3>4, UpdateGoes
    <3> QED BY <1>2, <3>1, <3>2, <3>3, <3>4 DEF Writes
  <2> QED BY <2>2, <2>3
<1>3. CASE UNCHANGED vars
  BY <1>3 DEF vars, UpdateInv, Placed, Set, ToSet, Part, FlashIsImage
<1> QED
  BY <1>1, <1>2, <1>3, NextIs DEF Beginning

\* Whatever of an update was lost or taken twice, across the wraps of its
\* addresses an image is confirmed only with every byte at its own address, and
\* with none missing as long as a block fits in one write; the block has to be
\* shorter than the count of items of a write can tell.
THEOREM Updated == ASSUME UpdatesFit PROVE Spec => []FlashIsImage
<1>1. TransferAssumption
  BY TransferAssumption
<1>2. Init => UpdateInv
  BY DEF Init, UpdateInv
<1>3. BaseInv /\ UpdateInv /\ [Next]_vars => UpdateInv'
  BY <1>1, UpdateNext, UpdatesFit DEF BaseInv
<1>4. UpdateInv => FlashIsImage
  BY DEF UpdateInv, FlashIsImage
<1> QED
  BY <1>2, <1>3, <1>4, BaseHolds, PTL DEF Spec

=============================================================================
