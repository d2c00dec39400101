--------------------------- MODULE DeviceOperations ---------------------------
(***************************************************************************)
(* The operations DConf runs on a device (classes DcIDeviceOperation,      *)
(* DcWriteConfigOperation, DcReadConfigOperation, DcTimeSetOperation,      *)
(* DcRestartOperation), the widget that starts them one at a time, and the *)
(* device they work on.                                                    *)
(*                                                                         *)
(* An operation is a sequence of calls of the synchronous Channel, each an *)
(* exchange that the device carries out, refuses (Channel's DeviceError-   *)
(* Type) or that breaks (ChannelErrorType) before or after the device      *)
(* acted on it.  A broken connection is opened again by the next call      *)
(* (onSendData), so no state of the connection outlives an exchange.       *)
(*                                                                         *)
(* Configurations are told apart by where they come from: the project, the *)
(* device as it was, or the protocol that setting the clock puts in.       *)
(***************************************************************************)
EXTENDS Naturals, FiniteSets

CONSTANTS
  Params,        \* writable parameters of the device
  Protocol,      \* the one of them that names the clock synchronisation
  Boards,        \* boards of the device that have parameters (one each)
  Files,         \* configuration files
  Archive,       \* conf.zip, the archive of the project's files
  Kinds,         \* the operations the user starts
  RestartsUnseen \* whether the device may restart after the restart flag was
                 \* checked and before the configuration is saved

Items == Params \union Boards

AllKinds == {"write", "read", "time", "restart"}

ASSUME OperationsAssumption ==
  /\ Protocol \in Params
  /\ Params \cap Boards = {} /\ Items \cap Files = {}
  /\ Archive \notin Files \union Items
  /\ Kinds \subseteq AllKinds
  /\ RestartsUnseen \in BOOLEAN

VARIABLES
  device,  \* parameters in use and saved, files, archive, restart flag
  local,   \* the project's parameters and files
  op       \* the operation that runs

vars == <<device, local, op>>

Values == {"project", "device", "sybus"}
FileValues == {"project", "device", "partial", "none"}

\* An archive of some state of the files, or none.
Archives == [state: {"whole", "broken", "none"}, files: [Files -> FileValues]]

\* The steps of each operation, in the order of the code.
Steps ==
  {"idle", "before", "connect", "softId", "exec", "disconnect", "finished"}
  \union {"flag", "files", "params", "login", "boards", "ip", "check",
          "saveBoards", "restartBoard", "save", "restart"}
  \union {"archive", "unpack", "protocol", "setProtocol", "clock",
          "restore", "offset"}

TypeOK ==
  /\ device \in [ram: [Items -> Values], saved: [Items -> Values],
                 files: [Files -> FileValues], archive: Archives, flag: BOOLEAN]
  /\ local \in [items: [Items -> Values], files: [Files -> FileValues]]
  /\ op.kind \in AllKinds /\ op.step \in Steps
  /\ op.todo \subseteq Items \union Files \union {Archive}
  /\ op.reported \subseteq Items \union Files
  /\ op.gaps \subseteq Files \union {Archive}
  /\ op.fetched \in BOOLEAN
  /\ op.state \in {"none", "success", "warning", "error"}

-----------------------------------------------------------------------------
(* The device (external).                                                  *)

\* The device, or one board of it, starts again from what it saved.
Restarted(dev) ==
  [dev EXCEPT !.ram = [i \in Items |-> IF i \in Params THEN dev.saved[i] ELSE @[i]],
              !.flag = FALSE]

BoardRestarted(dev, b) == [dev EXCEPT !.ram[b] = dev.saved[b]]

Saved(dev, items) ==
  [dev EXCEPT !.saved = [i \in Items |-> IF i \in items THEN dev.ram[i] ELSE @[i]]]

-----------------------------------------------------------------------------
(* Channel and DcIDeviceOperation.                                         *)

\* finish() with the state; reportList() decides between success and warning.
Finish(ok) ==
  [op EXCEPT !.step = "finished", !.todo = {},
             !.state = IF ~ok THEN "error"
                       ELSE IF op.reported = {} THEN "success" ELSE "warning"]

Step(step) == [op EXCEPT !.step = step]

Loop(step, todo) == [op EXCEPT !.step = step, !.todo = todo]

\* After x, the rest of the loop, or what follows it.
After(x, next) == IF op.todo = {x} THEN next ELSE [op EXCEPT !.todo = @ \ {x}]

\* One call of the channel: the device does what it is asked to and the
\* operation goes on, the device refuses, or the exchange breaks and the
\* device may or may not have acted on it.
Exchange(changed, next, refused) ==
  \/ device' = changed /\ op' = next
  \/ device' = device /\ op' \in refused
  \/ device' \in {device, changed} /\ op' = Finish(FALSE)

\* A call that changes nothing on the device.
Ask(next, refused) == Exchange(device, next, refused)

Aborts == {Finish(FALSE)}

NoOperation ==
  [kind |-> "restart", step |-> "idle", todo |-> {}, board |-> "none",
   reported |-> {}, gaps |-> {}, fetched |-> FALSE, kept |-> "none",
   protocol |-> "none", restarted |-> FALSE, state |-> "none"]

\* A device that DConf has written before, or one that has no archive yet.
Init ==
  /\ \E archive \in {"whole", "none"} :
       device = [ram |-> [i \in Items |-> "device"],
                 saved |-> [i \in Items |-> "device"],
                 files |-> [f \in Files |-> "device"],
                 archive |-> [state |-> archive, files |-> [f \in Files |-> "device"]],
                 flag |-> FALSE]
  /\ local = [items |-> [i \in Items |-> "project"],
              files |-> [f \in Files |-> "project"]]
  /\ op = NoOperation

Starts(kind) == [NoOperation EXCEPT !.kind = kind, !.step = "before",
                                    !.protocol = device.saved[Protocol]]

\* execOperation(): nothing happens while an operation runs.
ExecOperation ==
  /\ op.step = "idle"
  /\ \E kind \in Kinds : op' = Starts(kind)
  /\ UNCHANGED <<device, local>>

\* before() of an operation that reads: the project's folder is emptied,
\* which may fail half way.
ClearFolder ==
  /\ op.step = "before" /\ op.kind = "read"
  /\ \E gone \in SUBSET Files :
       /\ local' = [local EXCEPT !.files = [f \in Files |-> IF f \in gone THEN "none" ELSE @[f]]]
       /\ op' \in IF gone = Files THEN {Step("connect")} \union Aborts ELSE Aborts
  /\ UNCHANGED device

\* before() of an operation that writes compiles and packs, or fails.
Before ==
  /\ op.step = "before" /\ op.kind # "read"
  /\ op' \in {Step("connect")} \union (IF op.kind = "write" THEN Aborts ELSE {})
  /\ UNCHANGED <<device, local>>

Connect ==
  /\ op.step = "connect"
  /\ Ask(Step(IF op.kind \in {"read", "write"} THEN "softId" ELSE "exec"), Aborts)
  /\ UNCHANGED local

CheckSoftId ==
  /\ op.step = "softId"
  /\ Ask(Step("exec"), Aborts)
  /\ UNCHANGED local

\* disconnect() cannot fail.  What after() does is Unpack below.
Disconnect ==
  /\ op.step = "disconnect"
  /\ op' = IF op.kind = "read" THEN Step("unpack") ELSE Finish(TRUE)
  /\ UNCHANGED <<device, local>>

\* The slot of finished() in the widget: it may start the next operation.
OnFinished ==
  /\ op.step = "finished"
  /\ op' = NoOperation
  /\ UNCHANGED <<device, local>>

-----------------------------------------------------------------------------
(* DcWriteConfigOperation.                                                 *)

Does(kind, step) == op.kind = kind /\ op.step = step

\* A device that does not know the parameter (BadID) is good enough.
SetPrepareWorkMode ==
  /\ Does("write", "exec")
  /\ Ask(Step("flag"), {Step("flag"), Finish(FALSE)})
  /\ UNCHANGED local

PrepareRestartFlag ==
  /\ Does("write", "flag")
  /\ Exchange([device EXCEPT !.flag = TRUE],
              Loop("files", Files \union {Archive}), Aborts)
  /\ UNCHANGED local

\* The device with the file f, or the archive, written whole or in part.
Uploaded(f, whole) ==
  IF f = Archive
  THEN [device EXCEPT !.archive = [state |-> IF whole THEN "whole" ELSE "broken",
                                   files |-> local.files]]
  ELSE [device EXCEPT !.files[f] = IF whole THEN local.files[f] ELSE "partial"]

AfterFile(f) == After(f, Loop("params", Params))

\* uploadFile() of one file: it is overwritten piece by piece and may break off.
\* A block that is sent in several writes counts as sent when its first write
\* was, and the upload goes on behind the gap and succeeds (FileTransfer); gaps
\* keeps the files it happened to, which the code does not know of.  A file the
\* project does not have stops the operation before anything is written.
UploadFile(f) ==
  /\ Does("write", "files") /\ f \in op.todo
  /\ \/ /\ f \in Files => local.files[f] # "none"
        /\ \/ Exchange(Uploaded(f, TRUE), AfterFile(f), Aborts)
           \/ /\ device' = Uploaded(f, FALSE)
              /\ op' \in {[AfterFile(f) EXCEPT !.gaps = @ \union {f}]} \union Aborts
     \/ device' = device /\ op' = Finish(FALSE)
  /\ UNCHANGED local

\* What follows the parameters of the device, or those of one board.
NextBoard(done) == IF done = Boards THEN Step("ip") ELSE Loop("login", Boards \ done)

\* writeParam(): what the device refuses is only reported.
WriteItem(i, next) ==
  Exchange([device EXCEPT !.ram[i] = local.items[i]], next,
           {[next EXCEPT !.reported = @ \union {i}]})

WriteParam(p) ==
  /\ Does("write", "params") /\ p \in op.todo
  /\ WriteItem(p, After(p, NextBoard({})))
  /\ UNCHANGED local

LoginBoard(b) ==
  /\ Does("write", "login") /\ b \in op.todo
  /\ Ask([op EXCEPT !.step = "boards", !.board = b], Aborts)
  /\ UNCHANGED local

WriteBoardParam ==
  /\ Does("write", "boards")
  /\ WriteItem(op.board, NextBoard((Boards \ op.todo) \union {op.board}))
  /\ UNCHANGED local

ReadIpAddress ==
  /\ Does("write", "ip")
  /\ Ask(Step("check"), {Step("check"), Finish(FALSE)})
  /\ UNCHANGED local

\* Faulty variant: the boards that were written are not saved.
NextSaveMain(todo) == Step("save")

NextSave(todo) == IF todo = {} THEN Step("save") ELSE Loop("saveBoards", todo)

\* Faulty variant: the flag is read but its value is not looked at.
CheckRestartFlagUnread ==
  /\ Does("write", "check")
  /\ Ask(NextSave(Boards), Aborts)
  /\ UNCHANGED local

CheckRestartFlag ==
  /\ Does("write", "check")
  /\ Ask(IF device.flag THEN NextSave(Boards) ELSE Finish(FALSE), Aborts)
  /\ UNCHANGED local

\* saveAndRestart() for one board: saved, then restarted.
SaveBoard(b) ==
  /\ Does("write", "saveBoards") /\ b \in op.todo
  /\ Exchange(Saved(device, {b}), [op EXCEPT !.step = "restartBoard", !.board = b], Aborts)
  /\ UNCHANGED local

\* A board answers; Busy is taken for an answer.
RestartBoard ==
  /\ Does("write", "restartBoard")
  /\ \/ Exchange(BoardRestarted(device, op.board), NextSave(op.todo \ {op.board}), Aborts)
     \/ device' = device /\ op' = NextSave(op.todo \ {op.board})
  /\ UNCHANGED local

SaveConfig ==
  /\ op.kind \in {"write", "time"} /\ op.step = "save"
  /\ Exchange(Saved(device, Params), Step("restart"), Aborts)
  /\ UNCHANGED local

\* restartDevice(): no answer is awaited, so success says only that the
\* request was sent.
RestartDevice ==
  /\ op.step = (IF op.kind = "restart" THEN "exec" ELSE "restart")
  /\ device' \in {device, Restarted(device)}
  /\ op' \in {Step("disconnect")} \union Aborts
  /\ UNCHANGED local

-----------------------------------------------------------------------------
(* DcTimeSetOperation and the parts of Channel and TcpChannel it calls.    *)

ReadOffset ==
  /\ Does("time", "exec")
  /\ Ask(Step("protocol"), Aborts)
  /\ UNCHANGED local

\* beginChangeDateTime() reads the protocol; only "device" stands for one
\* under which the clock cannot be set.
ReadProtocol ==
  /\ Does("time", "protocol")
  /\ Ask(IF device.ram[Protocol] = "device" THEN Step("setProtocol") ELSE Step("clock"), Aborts)
  /\ UNCHANGED local

SetProtocol ==
  /\ Does("time", "setProtocol")
  /\ Exchange([device EXCEPT !.ram[Protocol] = "sybus"],
              [op EXCEPT !.step = "clock", !.kept = "device"], Aborts)
  /\ UNCHANGED local

\* The clock is set or not; endChangeDateTime() follows either way.
SetClock ==
  /\ Does("time", "clock")
  /\ op' \in {Step("restore"), [Step("restore") EXCEPT !.state = "error"]}
  /\ UNCHANGED <<device, local>>

\* Faulty variant: a protocol that was not remembered is written back.
RestoreUnremembered ==
  /\ Does("time", "restore")
  /\ device' \in {device, [device EXCEPT !.ram[Protocol] = op.kept]}
  /\ op' = IF op.state = "error" THEN Finish(FALSE) ELSE Step("offset")
  /\ UNCHANGED local

\* endChangeDateTime(), whose result is not looked at.
RestoreProtocol ==
  /\ Does("time", "restore")
  /\ device' \in {device, IF op.kept = "none" THEN device
                          ELSE [device EXCEPT !.ram[Protocol] = op.kept]}
  /\ op' = IF op.state = "error" THEN Finish(FALSE) ELSE Step("offset")
  /\ UNCHANGED local

SetOffset ==
  /\ Does("time", "offset")
  /\ Ask(Step("save"), Aborts)
  /\ UNCHANGED local

-----------------------------------------------------------------------------
(* DcReadConfigOperation.                                                  *)

\* readParam(): what the device refuses is only reported.
ReadItem(i) ==
  \/ /\ local' = [local EXCEPT !.items[i] = device.ram[i]]
     /\ op' = After(i, Loop("files", Files))
  \/ /\ local' = local
     /\ op' = [After(i, Loop("files", Files)) EXCEPT !.reported = @ \union {i}]
  \/ local' = local /\ op' = Finish(FALSE)

ReadParams ==
  /\ Does("read", "exec")
  /\ op' = Loop("params", Items)
  /\ UNCHANGED <<device, local>>

ReadParam(i) ==
  /\ Does("read", "params") /\ i \in op.todo
  /\ ReadItem(i)
  /\ UNCHANGED device

\* Faulty variant: a file that cannot be read is only removed.
DownloadFileQuietly(f) ==
  /\ Does("read", "files") /\ f \in op.todo
  /\ local' \in {local, [local EXCEPT !.files[f] = device.files[f]]}
  /\ op' = After(f, Step("archive"))
  /\ UNCHANGED device

\* readFiles(): a file that cannot be read, for whatever reason, is removed
\* and reported, and the next one is tried.
DownloadFile(f) ==
  /\ Does("read", "files") /\ f \in op.todo
  /\ LET next == After(f, Step("archive"))
         failed == [next EXCEPT !.reported = @ \union {f}]
     IN \/ /\ device.files[f] # "none"
           /\ local' = [local EXCEPT !.files[f] = device.files[f]]
           /\ op' = next
        \/ local' = local /\ op' = failed
  /\ UNCHANGED device

\* A device that refuses to open the archive (InvalidOperation) is taken to have
\* none, and the operation goes on without.
ReadConfigArchive ==
  /\ Does("read", "archive")
  /\ \/ device.archive.state # "none" /\ op' = [Step("disconnect") EXCEPT !.fetched = TRUE]
     \/ op' \in {Step("disconnect")} \union Aborts
  /\ UNCHANGED <<device, local>>

\* The file f after unpacking: a file that was read is left alone, and so is one
\* that the archive is not come to.  What a broken archive still gives may be
\* cut off, which its reader does not report.
Unpacked(f) ==
  IF f \notin op.reported \/ ~op.fetched THEN {local.files[f]}
  ELSE {local.files[f], device.archive.files[f]}
         \union (IF device.archive.state = "whole" THEN {} ELSE {"partial"})

\* after(): the archive gives the files that were not read from the device.  A
\* file that cannot be created ends the unpacking, and so may what is made of
\* the archive's parameters afterwards.
Unpack ==
  /\ Does("read", "unpack")
  /\ \E files \in [Files -> FileValues], ok \in BOOLEAN :
       /\ \A f \in Files : files[f] \in Unpacked(f)
       /\ ok /\ op.fetched /\ device.archive.state = "whole" =>
            \A f \in Files \cap op.reported : files[f] = device.archive.files[f]
       /\ local' = [local EXCEPT !.files = files]
       /\ op' = Finish(ok)
  /\ UNCHANGED device

-----------------------------------------------------------------------------
(* The device may lose its supply or restart itself at any time (external).*)

Saving == op.kind = "write" /\ op.step \in {"saveBoards", "restartBoard", "save"}

DeviceRestarts ==
  /\ ~Saving \/ RestartsUnseen
  /\ device' = Restarted(device)
  /\ op' = [op EXCEPT !.restarted = op.step # "idle"]
  /\ UNCHANGED local

Write ==
  \/ SetPrepareWorkMode \/ PrepareRestartFlag
  \/ \E f \in Files \union {Archive} : UploadFile(f)
  \/ \E p \in Params : WriteParam(p)
  \/ \E b \in Boards : LoginBoard(b) \/ SaveBoard(b)
  \/ WriteBoardParam \/ ReadIpAddress \/ CheckRestartFlag \/ RestartBoard

Read ==
  \/ ReadParams \/ ReadConfigArchive \/ Unpack
  \/ \E i \in Items : ReadParam(i)
  \/ \E f \in Files : DownloadFile(f)

SetTime == ReadOffset \/ ReadProtocol \/ SetProtocol \/ SetClock \/ RestoreProtocol \/ SetOffset

Next ==
  \/ ExecOperation \/ ClearFolder \/ Before \/ Connect \/ CheckSoftId
  \/ Write \/ Read \/ SetTime
  \/ SaveConfig \/ RestartDevice \/ Disconnect \/ OnFinished
  \/ DeviceRestarts

Spec == Init /\ [][Next]_vars

-----------------------------------------------------------------------------
(* Correctness.                                                            *)

Ended(kind) == Does(kind, "finished") /\ op.state # "error"

\* A write that does not end in an error leaves on the device, saved, every
\* parameter of the project but those it reported, and every file and the
\* archive of them but those whose upload went on behind a gap: the restart flag
\* tells when the device restarted in the middle.
WrittenAsReported ==
  Ended("write") =>
    /\ \A i \in Items \ op.reported : device.saved[i] = local.items[i]
    /\ \A f \in Files \ op.gaps : device.files[f] = local.files[f]
    /\ Archive \notin op.gaps => device.archive = [state |-> "whole", files |-> local.files]

\* A read that does not end in an error and was not disturbed by a restart
\* gives the project what the device uses, but for what it reported.
ReadAsReported ==
  Ended("read") /\ ~op.restarted =>
    /\ \A i \in Items \ op.reported : local.items[i] = device.ram[i]
    /\ \A f \in Files \ op.reported : local.files[f] = device.files[f]

\* A write changes the saved parameters of the device last and at once: by
\* then the files, but for those with a gap, and the saved parameters of the
\* boards are the project's, and no parameter that was not reported is left
\* behind.
MainSavedLast ==
  [][op.kind = "write" /\ (\E p \in Params : device'.saved[p] # device.saved[p]) =>
       /\ \A i \in Items \ op.reported : device'.saved[i] = local.items[i]
       /\ \A f \in Files \ op.gaps : device.files[f] = local.files[f]]_vars

\* Setting the clock leaves the saved synchronisation protocol as it was.
TimeKeepsProtocol ==
  Ended("time") => device.saved[Protocol] = op.protocol

=============================================================================
