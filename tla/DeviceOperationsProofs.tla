----------------------- MODULE DeviceOperationsProofs -----------------------
(***************************************************************************)
(* What DeviceOperations does to a device and a project, for any           *)
(* parameters, boards and files.                                           *)
(***************************************************************************)
EXTENDS DeviceOperations, TLAPS

\* The operation as a record.
Operations ==
  [kind: AllKinds, step: Steps, todo: SUBSET (Items \union Files \union {Archive}),
   board: Boards \union {"none"}, reported: SUBSET (Items \union Files),
   gaps: SUBSET (Files \union {Archive}), fetched: BOOLEAN,
   kept: {"none", "device"}, protocol: Values \union {"none"},
   restarted: BOOLEAN, state: {"none", "success", "warning", "error"}]

Devices == [ram: [Items -> Values], saved: [Items -> Values],
            files: [Files -> FileValues], archive: Archives, flag: BOOLEAN]
Projects == [items: [Items -> Values], files: [Files -> FileValues]]

Types == device \in Devices /\ local \in Projects /\ op \in Operations

BoardChosen == op.step \in {"boards", "restartBoard"} => op.board \in Boards

-----------------------------------------------------------------------------
(* How far a write has come.                                               *)

\* The device has the project's files, but for those in todo and those with a gap.
Uploads(todo) ==
  /\ \A f \in (Files \ todo) \ op.gaps : device.files[f] = local.files[f]
  /\ Archive \notin todo \union op.gaps =>
       device.archive = [state |-> "whole", files |-> local.files]

\* What was not reported is the project's, in use or saved.
InUse(items) == \A i \in items \ op.reported : device.ram[i] = local.items[i]
Kept(items) == \A i \in items \ op.reported : device.saved[i] = local.items[i]

Success == op.step = "finished" /\ op.state # "error"
Over == op.step \in {"restart", "disconnect"} \/ Success

\* Until the restart flag was looked at, what is known of the parameters of the
\* device depends on it; boards do not restart unless told to.
WriteInv ==
  op.kind = "write" =>
    /\ op.step = "files" => op.todo \subseteq Files \union {Archive} /\ Uploads(op.todo)
    /\ Over \/ op.step \in {"params", "login", "boards", "ip", "check", "saveBoards",
                            "restartBoard", "save"} => Uploads({})
    /\ op.step = "params" => op.todo \subseteq Params
                             /\ (device.flag => InUse(Params \ op.todo))
    /\ op.step \in {"login", "boards", "ip", "check"} => (device.flag => InUse(Params))
    /\ op.step \in {"login", "boards"} => op.todo \subseteq Boards /\ InUse(Boards \ op.todo)
    /\ op.step = "boards" => op.board \in op.todo
    /\ op.step \in {"ip", "check"} => InUse(Boards)
    /\ op.step \in {"saveBoards", "restartBoard", "save"} => InUse(Items)
    /\ op.step \in {"saveBoards", "restartBoard"} => op.todo \subseteq Boards
                                                     /\ Kept(Boards \ op.todo)
    /\ op.step = "restartBoard" => op.board \in op.todo /\ Kept({op.board})
    /\ op.step = "save" => Kept(Boards)
    /\ Over => Kept(Items)

\* How far a read has come that no restart has disturbed.
ReadInv ==
  op.kind = "read" =>
    /\ op.step # "restart"
    /\ ~op.restarted =>
         /\ op.step = "params" => op.todo \subseteq Items
              /\ \A i \in Items \ (op.todo \union op.reported) : local.items[i] = device.ram[i]
         /\ op.step \in {"files", "archive", "disconnect", "unpack"} \/ Success =>
              \A i \in Items \ op.reported : local.items[i] = device.ram[i]
         /\ op.step = "files" => op.todo \subseteq Files
              /\ \A f \in Files \ (op.todo \union op.reported) : local.files[f] = device.files[f]
         /\ op.step \in {"archive", "disconnect", "unpack"} \/ Success =>
              \A f \in Files \ op.reported : local.files[f] = device.files[f]

IInv == Types /\ BoardChosen /\ ReadInv /\ (~RestartsUnseen => WriteInv)

-----------------------------------------------------------------------------
(* Types.                                                                  *)

LEMMA DeviceTypes ==
  ASSUME Types
  PROVE  /\ Restarted(device) \in Devices
         /\ \A b \in Boards : BoardRestarted(device, b) \in Devices
         /\ \A items : Saved(device, items) \in Devices
         /\ [device EXCEPT !.flag = TRUE] \in Devices
         /\ \A i \in Items, v \in Values : [device EXCEPT !.ram[i] = v] \in Devices
         /\ \A f \in Files \union {Archive}, whole \in BOOLEAN : Uploaded(f, whole) \in Devices
<1>1. Restarted(device) \in Devices
  BY DEF Types, Devices, Restarted
<1>2. ASSUME NEW b \in Boards PROVE BoardRestarted(device, b) \in Devices
  BY DEF Types, Devices, BoardRestarted, Items
<1>3. ASSUME NEW items PROVE Saved(device, items) \in Devices
  BY DEF Types, Devices, Saved
<1>4. [device EXCEPT !.flag = TRUE] \in Devices
  BY DEF Types, Devices
<1>5. ASSUME NEW i \in Items, NEW v \in Values PROVE [device EXCEPT !.ram[i] = v] \in Devices
  BY DEF Types, Devices
<1>6. ASSUME NEW f \in Files \union {Archive}, NEW whole \in BOOLEAN
      PROVE  Uploaded(f, whole) \in Devices
  BY DEF Types, Devices, Projects, Uploaded, Archives, FileValues
<1> QED BY <1>1, <1>2, <1>3, <1>4, <1>5, <1>6

\* Operations with some fields changed.
LEMMA FieldTypes ==
  ASSUME NEW o \in Operations
  PROVE  /\ \A x \in Items \union Files : [o EXCEPT !.reported = @ \union {x}] \in Operations
         /\ \A step \in Steps : [o EXCEPT !.step = step, !.kept = "device"] \in Operations
         /\ [o EXCEPT !.state = "error"] \in Operations
         /\ [o EXCEPT !.fetched = TRUE] \in Operations
         /\ \A f \in Files \union {Archive} : [o EXCEPT !.gaps = @ \union {f}] \in Operations
         /\ \A restarted \in BOOLEAN : [o EXCEPT !.restarted = restarted] \in Operations
         /\ \A step \in Steps, b \in Boards :
              [o EXCEPT !.step = step, !.board = b] \in Operations
<1>1. ASSUME NEW x \in Items \union Files
      PROVE  [o EXCEPT !.reported = @ \union {x}] \in Operations
  BY DEF Operations
<1>2. ASSUME NEW step \in Steps
      PROVE  [o EXCEPT !.step = step, !.kept = "device"] \in Operations
  BY DEF Operations
<1>3. [o EXCEPT !.state = "error"] \in Operations
  BY DEF Operations
<1>4. ASSUME NEW restarted \in BOOLEAN
      PROVE  [o EXCEPT !.restarted = restarted] \in Operations
  BY DEF Operations
<1>5. ASSUME NEW step \in Steps, NEW b \in Boards
      PROVE  [o EXCEPT !.step = step, !.board = b] \in Operations
  BY DEF Operations
<1>6. [o EXCEPT !.fetched = TRUE] \in Operations
  BY DEF Operations
<1>7. ASSUME NEW f \in Files \union {Archive}
      PROVE  [o EXCEPT !.gaps = @ \union {f}] \in Operations
  BY DEF Operations
<1> QED BY <1>1, <1>2, <1>3, <1>4, <1>5, <1>6, <1>7

LEMMA OperationTypes ==
  ASSUME Types
  PROVE  /\ \A ok \in BOOLEAN : Finish(ok) \in Operations
         /\ \A step \in Steps : Step(step) \in Operations
         /\ \A step \in Steps, todo \in SUBSET (Items \union Files \union {Archive}) :
              Loop(step, todo) \in Operations
         /\ \A x, next : next \in Operations => After(x, next) \in Operations
         /\ NoOperation \in Operations
         /\ \A kind \in Kinds : Starts(kind) \in Operations
<1>1. ASSUME NEW ok \in BOOLEAN PROVE Finish(ok) \in Operations
  BY ZenonT(60) DEF Types, Operations, Finish, Steps
<1>2. ASSUME NEW step \in Steps PROVE Step(step) \in Operations
  BY DEF Types, Operations, Step
<1>3. ASSUME NEW step \in Steps, NEW todo \in SUBSET (Items \union Files \union {Archive})
      PROVE  Loop(step, todo) \in Operations
  BY DEF Types, Operations, Loop
<1>4. ASSUME NEW x, NEW next \in Operations PROVE After(x, next) \in Operations
  BY DEF Types, Operations, After
<1>5. NoOperation \in Operations
  BY DEF Operations, NoOperation, AllKinds, Steps
<1>6. ASSUME NEW kind \in Kinds PROVE Starts(kind) \in Operations
  BY ZenonT(60), <1>5, OperationsAssumption DEF Types, Devices, Operations, Starts, Steps, Items
<1> QED BY <1>1, <1>2, <1>3, <1>4, <1>5, <1>6

LEMMA ExchangeTypes ==
  ASSUME Types, NEW changed \in Devices, NEW next \in Operations,
         NEW refused \in SUBSET Operations, Exchange(changed, next, refused), local' = local
  PROVE  Types'
BY OperationTypes DEF Exchange, Types

LEMMA AskTypes ==
  ASSUME Types, NEW next \in Operations, NEW refused \in SUBSET Operations,
         Ask(next, refused), local' = local
  PROVE  Types'
BY ExchangeTypes DEF Ask, Types

-----------------------------------------------------------------------------
(* Types are kept.                                                         *)

LEMMA InitTypes == Init => Types
<1> SUFFICES ASSUME Init PROVE Types
  OBVIOUS
<1>1. op \in Operations
  BY DEF Init, Operations, NoOperation, AllKinds, Steps
<1>2. device \in Devices
  BY DEF Init, Devices, Archives, FileValues, Values
<1>3. local \in Projects
  BY DEF Init, Projects, FileValues, Values
<1> QED BY <1>1, <1>2, <1>3 DEF Types

LEMMA FrameTypes ==
  ASSUME Types,
         ExecOperation \/ ClearFolder \/ Before \/ Connect \/ CheckSoftId
           \/ SaveConfig \/ RestartDevice \/ Disconnect \/ OnFinished \/ DeviceRestarts
  PROVE  Types'
<1>1. CASE ExecOperation
  BY <1>1, OperationTypes DEF ExecOperation, Types
<1>2. CASE ClearFolder
  <2>1. ASSUME NEW gone \in SUBSET Files
        PROVE  [local EXCEPT !.files = [f \in Files |-> IF f \in gone THEN "none" ELSE @[f]]]
                 \in Projects
    BY DEF Types, Projects, FileValues
  <2>2. op' \in {Step("connect"), Finish(FALSE)}
    BY <1>2 DEF ClearFolder, Aborts
  <2> QED BY <1>2, <2>1, <2>2, OperationTypes DEF ClearFolder, Types, Steps
<1>3. CASE Before
  BY <1>3, OperationTypes DEF Before, Types, Aborts, Steps
<1>4. Aborts \in SUBSET Operations
  BY OperationTypes DEF Aborts
<1>5. CASE Connect
  BY <1>4, <1>5, AskTypes, OperationTypes DEF Connect, Steps
<1>6. CASE CheckSoftId
  BY <1>4, <1>6, AskTypes, OperationTypes DEF CheckSoftId, Steps
<1>7. CASE SaveConfig
  BY <1>4, <1>7, ExchangeTypes, DeviceTypes, OperationTypes DEF SaveConfig, Steps
<1>8. CASE RestartDevice
  BY <1>4, <1>8, DeviceTypes, OperationTypes DEF RestartDevice, Types, Steps
<1>9. CASE Disconnect
  BY <1>9, OperationTypes DEF Disconnect, Types, Steps
<1>10. CASE OnFinished
  BY <1>10, OperationTypes DEF OnFinished, Types
<1>11. CASE DeviceRestarts
  BY <1>11, DeviceTypes, FieldTypes DEF DeviceRestarts, Types
<1> QED BY <1>1, <1>2, <1>3, <1>5, <1>6, <1>7, <1>8, <1>9, <1>10, <1>11

LEMMA WriteTypes ==
  ASSUME Types, BoardChosen, Write
  PROVE  Types'
<1>1. Aborts \in SUBSET Operations
  BY OperationTypes DEF Aborts
<1>2. CASE SetPrepareWorkMode
  <2>1. {Step("flag"), Finish(FALSE)} \in SUBSET Operations
    BY OperationTypes DEF Steps
  <2> QED BY <1>2, <2>1, AskTypes DEF SetPrepareWorkMode
<1>3. CASE PrepareRestartFlag
  <2>1. Loop("files", Files \union {Archive}) \in Operations
    BY OperationTypes DEF Steps
  <2> QED BY <1>1, <1>3, <2>1, ExchangeTypes, DeviceTypes DEF PrepareRestartFlag
<1>4. ASSUME NEW f \in Files \union {Archive}, UploadFile(f) PROVE Types'
  <2>1. Loop("params", Params) \in Operations
    BY OperationTypes DEF Steps, Items
  <2>2. AfterFile(f) \in Operations /\ [AfterFile(f) EXCEPT !.gaps = @ \union {f}] \in Operations
    BY <2>1, OperationTypes, FieldTypes DEF AfterFile
  <2>3. Uploaded(f, TRUE) \in Devices /\ Uploaded(f, FALSE) \in Devices
    BY DeviceTypes
  <2> QED
    BY <1>1, <1>4, <2>2, <2>3, ExchangeTypes, OperationTypes DEF UploadFile, Types
<1>5. ASSUME NEW done \in SUBSET Boards PROVE NextBoard(done) \in Operations
  BY OperationTypes DEF NextBoard, Steps, Items
<1>6. ASSUME NEW i \in Items, NEW next \in Operations, WriteItem(i, next), local' = local
      PROVE  Types'
  <2>1. {[next EXCEPT !.reported = @ \union {i}]} \in SUBSET Operations
    BY FieldTypes
  <2>2. [device EXCEPT !.ram[i] = local.items[i]] \in Devices
    BY DeviceTypes DEF Types, Projects
  <2> QED BY <1>6, <2>1, <2>2, ExchangeTypes DEF WriteItem
<1>7. ASSUME NEW p \in Params, WriteParam(p) PROVE Types'
  BY <1>5, <1>6, <1>7, OperationTypes DEF WriteParam, Items
<1>8. ASSUME NEW b \in Boards, LoginBoard(b) PROVE Types'
  <2>1. [op EXCEPT !.step = "boards", !.board = b] \in Operations
    BY FieldTypes DEF Types, Steps
  <2> QED BY <1>1, <1>8, <2>1, AskTypes DEF LoginBoard
<1>9. ASSUME NEW todo \in SUBSET (Items \union Files \union {Archive})
      PROVE  NextSave(todo) \in Operations
  BY OperationTypes DEF NextSave, Steps
<1>10. ASSUME NEW b \in Boards, SaveBoard(b) PROVE Types'
  <2>1. [op EXCEPT !.step = "restartBoard", !.board = b] \in Operations
    BY FieldTypes DEF Types, Steps
  <2> QED BY <1>1, <1>10, <2>1, ExchangeTypes, DeviceTypes DEF SaveBoard
<1>11. CASE ReadIpAddress
  <2>1. {Step("check"), Finish(FALSE)} \in SUBSET Operations
    BY OperationTypes DEF Steps
  <2> QED BY <1>11, <2>1, AskTypes DEF ReadIpAddress
<1>12. CASE CheckRestartFlag
  <2>1. NextSave(Boards) \in Operations
    BY <1>9 DEF Items
  <2> QED BY <1>1, <1>12, <2>1, AskTypes, OperationTypes DEF CheckRestartFlag
<1>13. CASE RestartBoard
  <2>1. op.board \in Boards
    BY <1>13 DEF RestartBoard, Does, BoardChosen
  <2>2. NextSave(op.todo \ {op.board}) \in Operations
    BY <1>9 DEF Types, Operations
  <2>3. BoardRestarted(device, op.board) \in Devices
    BY <2>1, DeviceTypes
  <2> QED BY <1>1, <1>13, <2>2, <2>3, ExchangeTypes DEF RestartBoard, Types
<1>14. CASE WriteBoardParam
  <2>1. op.board \in Boards
    BY <1>14 DEF WriteBoardParam, Does, BoardChosen
  <2>2. NextBoard((Boards \ op.todo) \union {op.board}) \in Operations
    BY <1>5, <2>1
  <2> QED BY <1>6, <1>14, <2>1, <2>2 DEF WriteBoardParam, Items
<1> QED
  BY <1>2, <1>3, <1>4, <1>7, <1>8, <1>10, <1>11, <1>12, <1>13, <1>14 DEF Write

LEMMA ReadTypes ==
  ASSUME Types, Read
  PROVE  Types'
<1>1. Aborts \in SUBSET Operations
  BY OperationTypes DEF Aborts
<1>2. CASE ReadParams
  BY <1>2, OperationTypes DEF ReadParams, Types, Steps
<1>3. ASSUME NEW i \in Items, ReadParam(i) PROVE Types'
  <2>1. After(i, Loop("files", Files)) \in Operations
    BY OperationTypes DEF Steps
  <2>2. [local EXCEPT !.items[i] = device.ram[i]] \in Projects
    BY DEF Types, Devices, Projects
  <2>3. [After(i, Loop("files", Files)) EXCEPT !.reported = @ \union {i}] \in Operations
    BY <2>1, FieldTypes
  <2> QED BY <1>3, <2>1, <2>2, <2>3, OperationTypes DEF ReadParam, ReadItem, Types
<1>4. ASSUME NEW f \in Files, DownloadFile(f) PROVE Types'
  <2>1. After(f, Step("archive")) \in Operations
    BY OperationTypes DEF Steps
  <2>2. [local EXCEPT !.files[f] = device.files[f]] \in Projects
    BY DEF Types, Devices, Projects
  <2>3. [After(f, Step("archive")) EXCEPT !.reported = @ \union {f}] \in Operations
    BY <2>1, FieldTypes
  <2> QED BY <1>4, <2>1, <2>2, <2>3 DEF DownloadFile, Types
<1>5. CASE ReadConfigArchive
  <2>1. Step("disconnect") \in Operations
    BY OperationTypes DEF Steps
  <2> QED BY <1>1, <1>5, <2>1, FieldTypes DEF ReadConfigArchive, Types
<1>6. CASE Unpack
  <2>1. \A files \in [Files -> FileValues] : [local EXCEPT !.files = files] \in Projects
    BY DEF Types, Projects
  <2> QED BY <1>6, <2>1, OperationTypes DEF Unpack, Types
<1> QED BY <1>2, <1>3, <1>4, <1>5, <1>6 DEF Read

LEMMA TimeTypes ==
  ASSUME Types, SetTime
  PROVE  Types'
<1>1. Aborts \in SUBSET Operations
  BY OperationTypes DEF Aborts
<1>2. CASE ReadOffset \/ ReadProtocol \/ SetOffset
  BY <1>1, <1>2, AskTypes, OperationTypes DEF ReadOffset, ReadProtocol, SetOffset, Steps
<1>3. CASE SetProtocol
  <2>1. [op EXCEPT !.step = "clock", !.kept = "device"] \in Operations
    BY FieldTypes DEF Types, Steps
  <2>2. [device EXCEPT !.ram[Protocol] = "sybus"] \in Devices
    BY OperationsAssumption, DeviceTypes DEF Items, Values
  <2> QED BY <1>1, <1>3, <2>1, <2>2, ExchangeTypes DEF SetProtocol
<1>4. CASE SetClock
  <2>1. Step("restore") \in Operations
    BY OperationTypes DEF Steps
  <2>2. [Step("restore") EXCEPT !.state = "error"] \in Operations
    BY <2>1, FieldTypes
  <2> QED BY <1>4, <2>1, <2>2 DEF SetClock, Types
<1>5. CASE RestoreProtocol
  <2>1. op.kept # "none" => op.kept \in Values
    BY DEF Values, Types, Operations
  <2>2. op.kept # "none" => [device EXCEPT !.ram[Protocol] = op.kept] \in Devices
    BY <2>1, OperationsAssumption, DeviceTypes DEF Items
  <2> QED BY <1>5, <2>2, OperationTypes DEF RestoreProtocol, Types, Steps
<1> QED BY <1>2, <1>3, <1>4, <1>5 DEF SetTime

-----------------------------------------------------------------------------
(* Which operation is at which step.                                       *)

LEMMA FrameKeeps ==
  ASSUME Types, BoardChosen,
         ClearFolder \/ Before \/ Connect \/ CheckSoftId
           \/ SaveConfig \/ RestartDevice \/ Disconnect \/ DeviceRestarts
  PROVE  op'.kind = op.kind /\ BoardChosen'
BY DEF ClearFolder, Before, Connect, CheckSoftId, SaveConfig, RestartDevice, Disconnect,
  DeviceRestarts, Ask, Exchange, Aborts, Finish, Step, BoardChosen, Types, Operations

LEMMA WriteKeeps ==
  ASSUME Types, BoardChosen, Write
  PROVE  op.kind = "write" /\ op'.kind = "write" /\ BoardChosen'
<1>1. ASSUME NEW f \in Files \union {Archive}, UploadFile(f)
      PROVE  op.kind = "write" /\ op'.kind = "write" /\ BoardChosen'
  <2>1. /\ op.kind = "write" /\ op.step = "files"
        /\ op' \in {AfterFile(f), [AfterFile(f) EXCEPT !.gaps = @ \union {f}], Finish(FALSE)}
    BY <1>1 DEF UploadFile, Exchange, Aborts, Does
  <2>2. AfterFile(f).kind = "write" /\ AfterFile(f).step \in {"params", "files"}
    BY <2>1 DEF AfterFile, After, Loop, Types, Operations
  <2>3. op'.kind = "write" /\ op'.step \in {"params", "files", "finished"}
    BY <2>1, <2>2 DEF AfterFile, After, Loop, Finish, Types, Operations
  <2> QED BY <2>1, <2>3 DEF BoardChosen
<1>2. CASE \/ SetPrepareWorkMode \/ PrepareRestartFlag \/ \E p \in Params : WriteParam(p)
           \/ \E b \in Boards : LoginBoard(b) \/ SaveBoard(b)
           \/ WriteBoardParam \/ ReadIpAddress \/ CheckRestartFlag \/ RestartBoard
  BY ZenonT(60), <1>2 DEF SetPrepareWorkMode, PrepareRestartFlag, WriteParam, LoginBoard,
    WriteBoardParam, WriteItem, NextBoard, ReadIpAddress, CheckRestartFlag, SaveBoard,
    RestartBoard, NextSave, Does, After, Loop, Step, Finish, Ask, Exchange, Aborts,
    BoardChosen, Types, Operations
<1> QED BY <1>1, <1>2 DEF Write

LEMMA ReadKeeps ==
  ASSUME Types, BoardChosen, Read
  PROVE  op.kind = "read" /\ op'.kind = "read" /\ BoardChosen'
BY ZenonT(60) DEF Read, ReadParams, ReadParam, ReadItem, DownloadFile, ReadConfigArchive, Unpack, Does,
  After, Loop, Step, Finish, Ask, Exchange, Aborts, BoardChosen, Types, Operations

LEMMA TimeKeeps ==
  ASSUME Types, BoardChosen, SetTime
  PROVE  op.kind = "time" /\ op'.kind = "time" /\ BoardChosen'
BY DEF SetTime, ReadOffset, ReadProtocol, SetProtocol, SetClock, RestoreProtocol, SetOffset,
  Does, Step, Finish, Ask, Exchange, Aborts, BoardChosen, Types, Operations

\* The fields of what an operation goes on with.
LEMMA FinishFields ==
  ASSUME Types, NEW ok \in BOOLEAN
  PROVE  /\ Finish(ok).kind = op.kind /\ Finish(ok).step = "finished"
         /\ Finish(ok).reported = op.reported /\ Finish(ok).restarted = op.restarted
         /\ (Finish(ok).state = "error" <=> ~ok) /\ Finish(ok).gaps = op.gaps
BY DEF Finish, Types, Operations

LEMMA LoopFields ==
  ASSUME Types, NEW step, NEW todo
  PROVE  /\ Loop(step, todo).kind = op.kind /\ Loop(step, todo).step = step
         /\ Loop(step, todo).todo = todo /\ Loop(step, todo).reported = op.reported
         /\ Loop(step, todo).restarted = op.restarted /\ Loop(step, todo).state = op.state
         /\ Loop(step, todo).board = op.board /\ Loop(step, todo).gaps = op.gaps
BY DEF Loop, Types, Operations

LEMMA StepFields ==
  ASSUME Types, NEW step
  PROVE  /\ Step(step).kind = op.kind /\ Step(step).step = step
         /\ Step(step).todo = op.todo /\ Step(step).reported = op.reported
         /\ Step(step).restarted = op.restarted /\ Step(step).state = op.state
         /\ Step(step).board = op.board /\ Step(step).gaps = op.gaps
BY DEF Step, Types, Operations

-----------------------------------------------------------------------------
(* Reading.                                                                *)

LEMMA FrameReads ==
  ASSUME Types, ReadInv,
         ClearFolder \/ Before \/ Connect \/ CheckSoftId
           \/ SaveConfig \/ RestartDevice \/ Disconnect \/ DeviceRestarts
  PROVE  ReadInv'
<1>1. CASE ClearFolder \/ Before \/ Connect \/ CheckSoftId
  BY ZenonT(60), <1>1 DEF ClearFolder, Before, Connect, CheckSoftId, Ask, Exchange, Aborts, Finish, Step,
     ReadInv, Success, Types, Operations
<1>2. CASE SaveConfig \/ RestartDevice
  BY <1>2 DEF SaveConfig, RestartDevice, Exchange, Aborts, Finish, Step,
     ReadInv, Success, Types, Operations
<1>3. CASE Disconnect
  BY <1>3 DEF Disconnect, Finish, Step, ReadInv, Success, Types, Operations
<1>4. CASE DeviceRestarts
  BY <1>4 DEF DeviceRestarts, ReadInv, Success, Types, Operations
<1> QED BY <1>1, <1>2, <1>3, <1>4

LEMMA ReadReads ==
  ASSUME Types, ReadInv, Read
  PROVE  ReadInv'
<1>0. Items \cap Files = {}
  BY OperationsAssumption
<1>1. CASE ReadParams
  BY <1>1 DEF ReadParams, Loop, ReadInv, Success, Does, Types, Operations
<1>2. ASSUME NEW i \in Items, ReadParam(i) PROVE ReadInv'
  <2> DEFINE next == After(i, Loop("files", Files))
  <2>1. /\ next.kind = "read" /\ next.reported = op.reported /\ next.restarted = op.restarted
        /\ \/ next.step = "files" /\ next.todo = Files /\ op.todo = {i}
           \/ next.step = "params" /\ next.todo = op.todo \ {i}
    BY <1>2, LoopFields DEF ReadParam, Does, After, Types, Operations
  <2>2. next \in Operations
    BY OperationTypes DEF Steps
  <2>3. ~op.restarted => /\ op.todo \subseteq Items
                         /\ \A j \in Items \ (op.todo \union op.reported) :
                              local.items[j] = device.ram[j]
    BY <1>2 DEF ReadParam, Does, ReadInv
  <2>4. CASE local' = [local EXCEPT !.items[i] = device.ram[i]] /\ op' = next
    <3>1. /\ local'.items[i] = device.ram[i]
          /\ \A j \in Items \ {i} : local'.items[j] = local.items[j]
      BY <2>4 DEF Types, Projects
    <3> HIDE DEF next
    <3> QED BY <1>2, <2>1, <2>3, <2>4, <3>1 DEF ReadParam, ReadInv, Success
  <2>5. CASE local' = local /\ op' = [next EXCEPT !.reported = @ \union {i}]
    <3>1. /\ op'.kind = next.kind /\ op'.step = next.step /\ op'.todo = next.todo
          /\ op'.restarted = next.restarted /\ op'.reported = next.reported \union {i}
      BY <2>2, <2>5 DEF Operations
    <3> HIDE DEF next
    <3> QED BY <1>0, <1>2, <2>1, <2>3, <2>5, <3>1 DEF ReadParam, ReadInv, Success
  <2>6. CASE local' = local /\ op' = Finish(FALSE)
    BY <1>2, <2>6, FinishFields DEF ReadParam, ReadInv, Success
  <2> QED BY <1>2, <2>4, <2>5, <2>6 DEF ReadParam, ReadItem
<1>3. ASSUME NEW f \in Files, DownloadFile(f) PROVE ReadInv'
  BY <1>3, <1>0 DEF DownloadFile, After, Step, ReadInv, Success, Does, Types, Operations,
     Projects, Devices
<1>4. CASE ReadConfigArchive
  <2>1. UNCHANGED <<device, local>> /\ Does("read", "archive")
    BY <1>4 DEF ReadConfigArchive
  <2>2. \/ op' \in {Step("disconnect"), [Step("disconnect") EXCEPT !.fetched = TRUE]}
        \/ op' = Finish(FALSE)
    BY <1>4 DEF ReadConfigArchive, Aborts
  <2>3. CASE op' \in {Step("disconnect"), [Step("disconnect") EXCEPT !.fetched = TRUE]}
    <3>1. /\ op'.kind = op.kind /\ op'.step = "disconnect"
          /\ op'.reported = op.reported /\ op'.restarted = op.restarted
      BY <2>3 DEF Step, Types, Operations
    <3> QED BY <2>1, <3>1 DEF ReadInv, Success, Does
  <2>4. CASE op' = Finish(FALSE)
    BY <2>1, <2>4, FinishFields DEF ReadInv, Success, Does
  <2> QED BY <2>2, <2>3, <2>4
<1>5. CASE Unpack
  <2>1. CASE op' = Finish(FALSE)
    BY <1>5, <2>1, FinishFields DEF Unpack, ReadInv, Success
  <2>2. CASE op' = Finish(TRUE)
    <3>1. /\ local'.items = local.items
          /\ \A f \in Files \ op.reported : local'.files[f] = local.files[f]
      BY <1>5, <2>2 DEF Unpack, Unpacked, Types, Projects
    <3>2. device' = device /\ Does("read", "unpack")
      BY <1>5 DEF Unpack
    <3>3. /\ op'.kind = op.kind /\ op'.step = "finished"
          /\ op'.reported = op.reported /\ op'.restarted = op.restarted
      BY <2>2, FinishFields
    <3> QED BY <3>1, <3>2, <3>3 DEF Does, ReadInv, Success
  <2> QED BY <1>5, <2>1, <2>2 DEF Unpack
<1> QED BY <1>1, <1>2, <1>3, <1>4, <1>5 DEF Read

-----------------------------------------------------------------------------
(* Writing.                                                                *)

LEMMA FrameWrites ==
  ASSUME Types, WriteInv, ~RestartsUnseen,
         ClearFolder \/ Before \/ Connect \/ CheckSoftId
           \/ SaveConfig \/ RestartDevice \/ Disconnect \/ DeviceRestarts
  PROVE  WriteInv'
<1>1. CASE ClearFolder \/ Before \/ Connect \/ CheckSoftId
  BY ZenonT(60), <1>1 DEF ClearFolder, Before, Connect, CheckSoftId, Ask, Exchange, Aborts, Finish, Step,
     WriteInv, Over, Success, Types, Operations
<1>2. CASE SaveConfig
  <2>1. CASE device' = Saved(device, Params) /\ op' = Step("restart")
    <3>1. /\ device'.files = device.files /\ device'.archive = device.archive
          /\ \A p \in Params : device'.saved[p] = device.ram[p]
          /\ \A b \in Boards : device'.saved[b] = device.saved[b]
      BY <2>1, OperationsAssumption DEF Saved, Types, Devices, Items
    <3> QED BY <1>2, <2>1, <3>1, StepFields
            DEF SaveConfig, WriteInv, Over, Success, Uploads, Kept, InUse, Items
  <2> QED BY <1>2, <2>1, FinishFields
          DEF SaveConfig, Exchange, Aborts, WriteInv, Over, Success
<1>3. CASE RestartDevice
  <2>1. /\ device'.files = device.files /\ device'.archive = device.archive
        /\ device'.saved = device.saved
    BY <1>3 DEF RestartDevice, Restarted, Types, Devices
  <2>2. CASE op' = Step("disconnect")
    BY <1>3, <2>1, <2>2, StepFields
    DEF RestartDevice, WriteInv, Over, Success, Uploads, Kept
  <2>3. CASE op' = Finish(FALSE)
    BY <2>3, FinishFields DEF WriteInv, Over, Success
  <2> QED BY <1>3, <2>2, <2>3 DEF RestartDevice, Aborts
<1>4. CASE Disconnect
  BY <1>4, StepFields, FinishFields DEF Disconnect, WriteInv, Over, Success, Uploads, Kept
<1>5. CASE DeviceRestarts
  <2>1. /\ device'.files = device.files /\ device'.archive = device.archive
        /\ device'.saved = device.saved /\ device'.flag = FALSE
        /\ \A b \in Boards : device'.ram[b] = device.ram[b]
    BY <1>5, OperationsAssumption DEF DeviceRestarts, Restarted, Types, Devices, Items
  <2>2. /\ op'.kind = op.kind /\ op'.step = op.step /\ op'.todo = op.todo
        /\ op'.reported = op.reported /\ op'.gaps = op.gaps /\ op'.board = op.board /\ op'.state = op.state
    BY <1>5 DEF DeviceRestarts, Types, Operations
  <2>3. op.kind = "write" => op.step \notin {"saveBoards", "restartBoard", "save"}
    BY <1>5 DEF DeviceRestarts, Saving
  <2> QED BY <1>5, <2>1, <2>2, <2>3
          DEF DeviceRestarts, WriteInv, Over, Success, Uploads, Kept, InUse
<1> QED BY <1>1, <1>2, <1>3, <1>4, <1>5

\* An operation that ends in an error has nothing to claim.
LEMMA ErrorWrites ==
  ASSUME Types, op' = Finish(FALSE)
  PROVE  WriteInv'
BY FinishFields DEF WriteInv, Over, Success

LEMMA WriteWrites ==
  ASSUME Types, BoardChosen, WriteInv, Write
  PROVE  WriteInv'
<1>0. Params \cap Boards = {} /\ Items = Params \union Boards
  BY OperationsAssumption DEF Items
<1>1. CASE SetPrepareWorkMode
  <2>1. op' = Step("flag") \/ op' = Finish(FALSE)
    BY <1>1 DEF SetPrepareWorkMode, Ask, Exchange
  <2>2. CASE op' = Step("flag")
    BY <2>2, StepFields DEF WriteInv, Over, Success
  <2> QED BY <2>1, <2>2, ErrorWrites
<1>2. CASE PrepareRestartFlag
  <2>1. op' = Loop("files", Files \union {Archive}) \/ op' = Finish(FALSE)
    BY <1>2 DEF PrepareRestartFlag, Exchange, Aborts
  <2>2. CASE op' = Loop("files", Files \union {Archive})
    BY <2>2, LoopFields DEF WriteInv, Over, Success, Uploads
  <2> QED BY <2>1, <2>2, ErrorWrites
<1>3. ASSUME NEW f \in Files \union {Archive}, UploadFile(f) PROVE WriteInv'
  <2> DEFINE next == [AfterFile(f) EXCEPT !.gaps = @ \union {f}]
  <2>1. \/ op' = Finish(FALSE)
        \/ device' = Uploaded(f, TRUE) /\ op' = AfterFile(f)
        \/ device' = Uploaded(f, FALSE) /\ op' = next
    BY <1>3 DEF UploadFile, Exchange, Aborts
  <2>2. CASE \/ device' = Uploaded(f, TRUE) /\ op' = AfterFile(f)
             \/ device' = Uploaded(f, FALSE) /\ op' = next
    <3>1. local' = local /\ op.kind = "write" /\ op.step = "files" /\ f \in op.todo
      BY <1>3 DEF UploadFile, Does
    <3>2. /\ f \in Files => device'.files[f] = local.files[f] \/ device' = Uploaded(f, FALSE)
          /\ \A g \in Files \ {f} : device'.files[g] = device.files[g]
          /\ IF f = Archive
             THEN \/ device'.archive = [state |-> "whole", files |-> local.files]
                  \/ device' = Uploaded(f, FALSE)
             ELSE device'.archive = device.archive
      BY <2>2, OperationsAssumption DEF Uploaded, Types, Devices
    <3>8. /\ AfterFile(f) \in Operations
          /\ AfterFile(f).kind = "write" /\ AfterFile(f).gaps = op.gaps
          /\ \/ AfterFile(f).step = "params" /\ AfterFile(f).todo = Params /\ op.todo = {f}
             \/ AfterFile(f).step = "files" /\ AfterFile(f).todo = op.todo \ {f}
      BY <3>1, OperationTypes, LoopFields DEF AfterFile, After, Types, Operations, Items, Steps
    <3>9. /\ next.kind = "write" /\ next.gaps = op.gaps \union {f}
          /\ next.step = AfterFile(f).step /\ next.todo = AfterFile(f).todo
      BY <3>8 DEF Operations
    <3>3. /\ op'.kind = "write"
          /\ \/ op'.step = "params" /\ op'.todo = Params /\ op.todo = {f}
             \/ op'.step = "files" /\ op'.todo = op.todo \ {f}
      BY <2>2, <3>8, <3>9
    <3>10. \/ op'.gaps = op.gaps \union {f}
           \/ /\ op'.gaps = op.gaps
              /\ f \in Files => device'.files[f] = local.files[f]
              /\ f = Archive => device'.archive = [state |-> "whole", files |-> local.files]
      <4>1. CASE op' = next
        BY <3>9, <4>1
      <4>2. CASE device' = Uploaded(f, TRUE) /\ op' = AfterFile(f)
        <5>1. op'.gaps = op.gaps
          BY <3>8, <4>2
        <5>2. f \in Files => device'.files[f] = local.files[f]
          BY <4>2, OperationsAssumption DEF Uploaded, Types, Devices
        <5>3. f = Archive => device'.archive = [state |-> "whole", files |-> local.files]
          BY <4>2 DEF Uploaded, Types, Devices
        <5> QED BY <5>1, <5>2, <5>3
      <4> QED BY <2>2, <4>1, <4>2
    <3>4. op.todo \subseteq Files \union {Archive} /\ Uploads(op.todo)
      BY <3>1 DEF WriteInv
    <3>5. IF op'.step = "files" THEN Uploads(op.todo)' ELSE Uploads({})'
      BY <3>1, <3>2, <3>3, <3>4, <3>10, OperationsAssumption DEF Uploads
    <3>6. CASE op'.step = "files"
      BY <3>1, <3>3, <3>4, <3>5, <3>6 DEF WriteInv, Over, Success
    <3>7. CASE op'.step = "params" /\ op'.todo = Params /\ op.todo = {f}
      <4>1. InUse(Params \ op.todo)'
        BY <3>7 DEF InUse
      <4> QED BY <3>3, <3>5, <3>7, <4>1 DEF WriteInv, Over, Success
    <3> QED BY <3>3, <3>6, <3>7
  <2> QED BY <2>1, <2>2, ErrorWrites
<1>4. ASSUME NEW i \in Items, NEW next \in Operations, WriteItem(i, next),
             op.kind = "write", op.step \in {"params", "boards"}, local' = local,
             next.kind = op.kind, next.reported = op.reported /\ next.gaps = op.gaps
      PROVE  \/ op' = Finish(FALSE)
             \/ /\ op'.kind = "write" /\ op'.step = next.step /\ op'.todo = next.todo
                /\ op'.board = next.board
                /\ device'.flag = device.flag /\ device'.saved = device.saved
                /\ Uploads({})'
                /\ \A items \in SUBSET Items : InUse(items) => InUse(items \union {i})'
  <2>1. CASE device' = [device EXCEPT !.ram[i] = local.items[i]] /\ op' = next
    <3>1. /\ device'.ram[i] = local.items[i]
          /\ \A j \in Items \ {i} : device'.ram[j] = device.ram[j]
          /\ device'.flag = device.flag /\ device'.saved = device.saved
          /\ device'.files = device.files /\ device'.archive = device.archive
      BY <2>1 DEF Types, Devices
    <3> QED BY <1>4, <2>1, <3>1 DEF InUse, WriteInv, Uploads
  <2>2. CASE device' = device /\ op' = [next EXCEPT !.reported = @ \union {i}]
    <3>1. /\ op'.kind = next.kind /\ op'.step = next.step /\ op'.todo = next.todo
          /\ op'.board = next.board /\ op'.reported = next.reported \union {i} /\ op'.gaps = next.gaps
      BY <2>2 DEF Operations
    <3> QED BY <1>4, <2>2, <3>1 DEF InUse, WriteInv, Uploads
  <2> QED BY <1>4, <2>1, <2>2 DEF WriteItem, Exchange
<1>5. ASSUME NEW done \in SUBSET Boards
      PROVE  LET next == NextBoard(done)
             IN  /\ next.kind = op.kind /\ next.reported = op.reported /\ next.gaps = op.gaps
                 /\ next \in Operations
                 /\ \/ next.step = "ip" /\ done = Boards
                    \/ next.step = "login" /\ next.todo = Boards \ done
  BY LoopFields, StepFields, OperationTypes DEF NextBoard, Steps, Items
<1>6. ASSUME NEW p \in Params, WriteParam(p) PROVE WriteInv'
  <2>1. /\ op.kind = "write" /\ op.step = "params" /\ p \in op.todo /\ local' = local
        /\ op.todo \subseteq Params /\ (device.flag => InUse(Params \ op.todo))
    BY <1>6 DEF WriteParam, Does, WriteInv
  <2>2. PICK next \in Operations :
          /\ WriteItem(p, next) /\ next.kind = op.kind /\ next.reported = op.reported /\ next.gaps = op.gaps
          /\ \/ next.step = "params" /\ next.todo = op.todo \ {p}
             \/ op.todo = {p} /\ next.step = "ip" /\ Boards = {}
             \/ op.todo = {p} /\ next.step = "login" /\ next.todo = Boards
    <3>1. After(p, NextBoard({})) \in Operations
      BY <1>5, OperationTypes
    <3>2. WriteItem(p, After(p, NextBoard({})))
      BY <1>6 DEF WriteParam
    <3>3. CASE op.todo = {p}
      <4>1. After(p, NextBoard({})) = NextBoard({})
        BY <3>3 DEF After
      <4>2. /\ NextBoard({}).kind = op.kind /\ NextBoard({}).reported = op.reported
            /\ NextBoard({}).gaps = op.gaps
            /\ \/ NextBoard({}).step = "ip" /\ Boards = {}
               \/ NextBoard({}).step = "login" /\ NextBoard({}).todo = Boards
        <5>1. {} \in SUBSET Boards /\ Boards \ {} = Boards
          OBVIOUS
        <5> HIDE DEF NextBoard
        <5> QED BY <5>1, <1>5
      <4> QED BY <3>1, <3>2, <3>3, <4>1, <4>2
    <3>4. CASE op.todo # {p}
      <4>1. After(p, NextBoard({})) = [op EXCEPT !.todo = @ \ {p}]
        BY <3>4 DEF After
      <4>2. /\ [op EXCEPT !.todo = @ \ {p}].kind = op.kind
            /\ [op EXCEPT !.todo = @ \ {p}].step = op.step
            /\ [op EXCEPT !.todo = @ \ {p}].reported = op.reported
            /\ [op EXCEPT !.todo = @ \ {p}].gaps = op.gaps
            /\ [op EXCEPT !.todo = @ \ {p}].todo = op.todo \ {p}
        BY DEF Types, Operations
      <4> QED BY <2>1, <3>1, <3>2, <4>1, <4>2
    <3> QED BY <3>3, <3>4
  <2>3. CASE /\ op'.kind = "write" /\ op'.step = next.step /\ op'.todo = next.todo
             /\ device'.flag = device.flag /\ Uploads({})'
             /\ \A items \in SUBSET Items : InUse(items) => InUse(items \union {p})'
    <3>1. PICK done \in SUBSET Items : done = Params \ op.todo
      BY DEF Items
    <3>2. device'.flag => InUse(done \union {p})'
      BY <2>1, <2>3, <3>1
    <3>3. CASE op'.step = "params" /\ op'.todo = op.todo \ {p}
      <4>1. device'.flag => InUse(Params \ op.todo)'
        BY <2>1, <3>1, <3>2, <3>3 DEF InUse
      <4> QED BY <2>1, <2>3, <3>3, <4>1 DEF WriteInv, Over, Success
    <3>4. CASE op.todo = {p} /\ op'.step \in {"ip", "login"}
      <4>1. device'.flag => InUse(Params)'
        BY <2>1, <3>1, <3>2, <3>4 DEF InUse
      <4>2. /\ op'.step = "ip" => Boards = {}
            /\ op'.step = "login" => op'.todo = Boards
        BY <2>2, <2>3, <3>4
      <4>3. /\ op'.step = "login" => InUse(Boards \ op.todo)' /\ op'.todo \subseteq Boards
            /\ op'.step = "ip" => InUse(Boards)'
        BY <4>2 DEF InUse
      <4> QED BY <2>3, <3>4, <4>1, <4>3 DEF WriteInv, Over, Success
    <3> QED BY <2>1, <2>2, <2>3, <3>3, <3>4
  <2>4. p \in Items
    BY DEF Items
  <2> QED BY <1>4, <2>1, <2>2, <2>3, <2>4, ErrorWrites
<1>7. ASSUME NEW b \in Boards, LoginBoard(b) PROVE WriteInv'
  <2>1. op' = [op EXCEPT !.step = "boards", !.board = b] \/ op' = Finish(FALSE)
    BY <1>7 DEF LoginBoard, Ask, Exchange, Aborts
  <2>2. CASE op' = [op EXCEPT !.step = "boards", !.board = b]
    <3>1. /\ UNCHANGED <<device, local>> /\ op.kind = "write" /\ op.step = "login"
          /\ b \in op.todo
      BY <1>7 DEF LoginBoard, Does, Ask, Exchange
    <3>2. /\ op'.kind = "write" /\ op'.step = "boards" /\ op'.todo = op.todo
          /\ op'.board = b /\ op'.reported = op.reported /\ op'.gaps = op.gaps
      BY <2>2, <3>1 DEF Types, Operations
    <3> QED BY <3>1, <3>2 DEF WriteInv, Over, Success, Uploads, InUse
  <2> QED BY <2>1, <2>2, ErrorWrites
<1>8. CASE WriteBoardParam
  <2>1. /\ op.kind = "write" /\ op.step = "boards" /\ local' = local
        /\ op.board \in op.todo /\ op.todo \subseteq Boards
        /\ InUse(Boards \ op.todo) /\ (device.flag => InUse(Params))
    BY <1>8 DEF WriteBoardParam, Does, WriteInv
  <2>2. PICK b \in Boards, done \in SUBSET Boards : b = op.board /\ done = Boards \ op.todo
    BY <2>1
  <2>3. WriteItem(b, NextBoard(done \union {b}))
    BY <1>8, <2>2 DEF WriteBoardParam
  <2>4. PICK next \in Operations :
          /\ WriteItem(b, next) /\ next.kind = op.kind /\ next.reported = op.reported /\ next.gaps = op.gaps
          /\ \/ next.step = "ip" /\ done \union {b} = Boards
             \/ next.step = "login" /\ next.todo = Boards \ (done \union {b})
    BY <1>5, <2>3
  <2>5. CASE /\ op'.kind = "write" /\ op'.step = next.step /\ op'.todo = next.todo
             /\ device'.flag = device.flag /\ Uploads({})'
             /\ \A items \in SUBSET Items : InUse(items) => InUse(items \union {b})'
    <3>1. InUse(done \union {b})'
      BY <2>1, <2>2, <2>5 DEF Items
    <3>2. device'.flag => InUse(Params)'
      <4>1. InUse(Params) => InUse(Params \union {b})'
        BY <2>5 DEF Items
      <4> QED BY <2>1, <2>5, <4>1 DEF InUse
    <3>3. CASE op'.step = "ip" /\ done \union {b} = Boards
      BY <2>5, <3>1, <3>2, <3>3 DEF WriteInv, Over, Success
    <3>4. CASE op'.step = "login" /\ op'.todo = Boards \ (done \union {b})
      <4>1. InUse(Boards \ op.todo)'
        BY <3>1, <3>4 DEF InUse
      <4> QED BY <2>5, <3>2, <3>4, <4>1 DEF WriteInv, Over, Success
    <3> QED BY <2>4, <2>5, <3>3, <3>4
  <2>6. b \in Items
    BY DEF Items
  <2> QED BY <1>4, <2>1, <2>4, <2>5, <2>6, ErrorWrites
<1>9. ASSUME NEW b \in Boards, SaveBoard(b) PROVE WriteInv'
  <2>1. \/ op' = Finish(FALSE)
        \/ device' = Saved(device, {b}) /\ op' = [op EXCEPT !.step = "restartBoard", !.board = b]
    BY <1>9 DEF SaveBoard, Exchange, Aborts
  <2>2. CASE device' = Saved(device, {b}) /\ op' = [op EXCEPT !.step = "restartBoard", !.board = b]
    <3>1. /\ local' = local /\ op.kind = "write" /\ op.step = "saveBoards" /\ b \in op.todo
      BY <1>9 DEF SaveBoard, Does
    <3>2. /\ op'.kind = "write" /\ op'.step = "restartBoard" /\ op'.todo = op.todo
          /\ op'.board = b /\ op'.reported = op.reported /\ op'.gaps = op.gaps
      BY <2>2, <3>1 DEF Types, Operations
    <3>3. /\ device'.files = device.files /\ device'.archive = device.archive
          /\ device'.ram = device.ram /\ device'.saved[b] = device.ram[b]
          /\ \A i \in Items \ {b} : device'.saved[i] = device.saved[i]
      BY <1>0, <2>2 DEF Saved, Types, Devices
    <3> QED BY <1>0, <3>1, <3>2, <3>3 DEF WriteInv, Over, Success, Uploads, InUse, Kept
  <2> QED BY <2>1, <2>2, ErrorWrites
<1>10. CASE ReadIpAddress
  <2>1. op' = Step("check") \/ op' = Finish(FALSE)
    BY <1>10 DEF ReadIpAddress, Ask, Exchange
  <2>2. CASE op' = Step("check")
    <3>1. UNCHANGED <<device, local>> /\ op.kind = "write" /\ op.step = "ip"
      BY <1>10 DEF ReadIpAddress, Does, Ask, Exchange
    <3>2. /\ op'.kind = "write" /\ op'.step = "check" /\ op'.reported = op.reported /\ op'.gaps = op.gaps
      BY <2>2, <3>1, StepFields
    <3> QED BY <3>1, <3>2 DEF WriteInv, Over, Success, Uploads, InUse
  <2> QED BY <2>1, <2>2, ErrorWrites
<1>11. ASSUME NEW todo \in SUBSET Boards
       PROVE  LET next == NextSave(todo)
              IN  /\ next.kind = op.kind /\ next.reported = op.reported /\ next.gaps = op.gaps
                  /\ \/ next.step = "save" /\ todo = {}
                     \/ next.step = "saveBoards" /\ next.todo = todo
  BY LoopFields, StepFields DEF NextSave
<1>12. CASE CheckRestartFlag
  <2>1. \/ op' = Finish(FALSE)
        \/ op' = NextSave(Boards) /\ device.flag
    BY <1>12 DEF CheckRestartFlag, Ask, Exchange, Aborts
  <2>2. CASE op' = NextSave(Boards) /\ device.flag
    <3>1. UNCHANGED <<device, local>> /\ op.kind = "write" /\ op.step = "check"
      BY <1>12 DEF CheckRestartFlag, Does, Ask, Exchange
    <3>2. Uploads({}) /\ InUse(Params) /\ InUse(Boards)
      BY <2>2, <3>1 DEF WriteInv
    <3>3. /\ op'.kind = "write" /\ op'.reported = op.reported /\ op'.gaps = op.gaps
          /\ \/ op'.step = "save" /\ Boards = {}
             \/ op'.step = "saveBoards" /\ op'.todo = Boards
      BY <1>11, <2>2, <3>1
    <3>4. Uploads({})' /\ InUse(Items)'
      BY <1>0, <3>1, <3>2, <3>3 DEF Uploads, InUse
    <3>5. /\ op'.step = "saveBoards" => Kept(Boards \ op.todo)'
          /\ op'.step = "save" => Kept(Boards)'
      BY <3>3 DEF Kept
    <3> QED BY <3>3, <3>4, <3>5 DEF WriteInv, Over, Success
  <2> QED BY <2>1, <2>2, ErrorWrites
<1>13. CASE RestartBoard
  <2>1. /\ local' = local /\ op.kind = "write" /\ op.step = "restartBoard"
        /\ op.board \in op.todo /\ op.todo \subseteq Boards
        /\ Uploads({}) /\ InUse(Items) /\ Kept(Boards \ op.todo) /\ Kept({op.board})
    BY <1>13 DEF RestartBoard, Does, WriteInv
  <2>2. \/ op' = Finish(FALSE)
        \/ device' \in {device, BoardRestarted(device, op.board)}
             /\ op' = NextSave(op.todo \ {op.board})
    BY <1>13 DEF RestartBoard, Exchange, Aborts
  <2>3. CASE device' \in {device, BoardRestarted(device, op.board)}
             /\ op' = NextSave(op.todo \ {op.board})
    <3>1. /\ op'.kind = "write" /\ op'.reported = op.reported /\ op'.gaps = op.gaps
          /\ \/ op'.step = "save" /\ op.todo \ {op.board} = {}
             \/ op'.step = "saveBoards" /\ op'.todo = op.todo \ {op.board}
      BY <1>11, <2>1, <2>3
    <3>2. /\ device'.files = device.files /\ device'.archive = device.archive
          /\ device'.saved = device.saved
          /\ \A i \in Items \ {op.board} : device'.ram[i] = device.ram[i]
          /\ device'.ram[op.board] \in {device.ram[op.board], device.saved[op.board]}
      BY <1>0, <2>1, <2>3 DEF BoardRestarted, Types, Devices
    <3>3. Uploads({})' /\ InUse(Items)'
      BY <1>0, <2>1, <3>1, <3>2 DEF Uploads, InUse, Kept
    <3>4. \A c \in (Boards \ (op.todo \ {op.board})) \ op.reported :
            device'.saved[c] = local'.items[c]
      BY <2>1, <3>2 DEF Kept
    <3>5. CASE op'.step = "save" /\ op.todo \ {op.board} = {}
      <4>1. Kept(Boards)'
        BY <2>1, <3>1, <3>4, <3>5 DEF Kept
      <4> QED BY <3>1, <3>3, <3>5, <4>1 DEF WriteInv, Over, Success
    <3>6. CASE op'.step = "saveBoards" /\ op'.todo = op.todo \ {op.board}
      <4>1. Kept(Boards \ op.todo)' /\ op'.todo \subseteq Boards
        BY <2>1, <3>1, <3>4, <3>6 DEF Kept
      <4> QED BY <3>1, <3>3, <3>6, <4>1 DEF WriteInv, Over, Success
    <3> QED BY <3>1, <3>5, <3>6
  <2> QED BY <2>2, <2>3, ErrorWrites
<1> QED
  BY <1>1, <1>2, <1>3, <1>6, <1>7, <1>8, <1>9, <1>10, <1>12, <1>13 DEF Write

-----------------------------------------------------------------------------
(* The theorems.                                                           *)

LEMMA NextKeeps ==
  ASSUME IInv, [Next]_vars
  PROVE  IInv'
<1>1. CASE UNCHANGED vars
  BY <1>1 DEF vars, IInv, Types, BoardChosen, ReadInv, WriteInv, Over, Success, Uploads,
     InUse, Kept
<1>2. CASE ExecOperation \/ OnFinished
  <2>1. Types'
    BY <1>2, FrameTypes DEF IInv
  <2>2. (op'.step = "before" \/ op'.kind = "restart") /\ op'.step \in {"before", "idle"}
    <3>1. CASE ExecOperation
      <4>1. \A kind : Starts(kind).step = "before"
        BY DEF Starts, NoOperation
      <4> QED BY <3>1, <4>1 DEF ExecOperation
    <3>2. CASE OnFinished
      BY <3>2 DEF OnFinished, NoOperation
    <3> QED BY <1>2, <3>1, <3>2
  <2> QED BY <2>1, <2>2 DEF IInv, BoardChosen, ReadInv, WriteInv, Over, Success
<1>3. CASE ClearFolder \/ Before \/ Connect \/ CheckSoftId
             \/ SaveConfig \/ RestartDevice \/ Disconnect \/ DeviceRestarts
  BY <1>3, FrameTypes, FrameKeeps, FrameReads, FrameWrites DEF IInv
<1>4. CASE Write
  BY <1>4, WriteTypes, WriteKeeps, WriteWrites DEF IInv, ReadInv
<1>5. CASE Read
  BY <1>5, ReadTypes, ReadKeeps, ReadReads DEF IInv, WriteInv
<1>6. CASE SetTime
  BY <1>6, TimeTypes, TimeKeeps DEF IInv, ReadInv, WriteInv
<1> QED BY <1>1, <1>2, <1>3, <1>4, <1>5, <1>6 DEF Next

\* Of a write only saveConfig() touches the saved parameters of the device.
LEMMA SavesLast ==
  ASSUME IInv, ~RestartsUnseen, Next, op.kind = "write",
         NEW p \in Params, device'.saved[p] # device.saved[p]
  PROVE  /\ \A i \in Items \ op.reported : device'.saved[i] = local.items[i]
         /\ \A f \in Files \ op.gaps : device.files[f] = local.files[f]
<1>1. Types /\ WriteInv /\ Params \cap Boards = {}
  BY OperationsAssumption DEF IInv
<1>2. /\ Restarted(device).saved = device.saved
      /\ \A b \in Boards : /\ BoardRestarted(device, b).saved = device.saved
                           /\ Saved(device, {b}).saved[p] = device.saved[p]
  BY <1>1 DEF Restarted, BoardRestarted, Saved, Types, Devices, Items
<1>3. device # device'
  OBVIOUS
<1>4. ~(ExecOperation \/ ClearFolder \/ Before \/ Connect \/ CheckSoftId \/ Disconnect
          \/ OnFinished \/ Read \/ SetTime)
  <2>1. ~(Read \/ SetTime)
    BY <1>1, ReadKeeps, TimeKeeps DEF IInv
  <2> QED BY <1>3, <2>1 DEF ExecOperation, ClearFolder, Before, Connect, CheckSoftId, Disconnect,
                OnFinished, Ask, Exchange
<1>5. ~(RestartDevice \/ DeviceRestarts)
  BY <1>2 DEF RestartDevice, DeviceRestarts
<1>6. ~Write
  <2>1. ~(SetPrepareWorkMode \/ ReadIpAddress \/ CheckRestartFlag \/ PrepareRestartFlag)
    BY <1>1 DEF SetPrepareWorkMode, ReadIpAddress, CheckRestartFlag, PrepareRestartFlag,
       Ask, Exchange, Types, Devices
  <2>2. \A b \in Boards : ~(LoginBoard(b) \/ SaveBoard(b))
    BY <1>2 DEF LoginBoard, SaveBoard, Ask, Exchange
  <2>3. ~RestartBoard
    BY <1>2 DEF RestartBoard, Exchange, IInv, BoardChosen, Does
  <2>4. \A f \in Files \union {Archive} : ~UploadFile(f)
    BY <1>1 DEF UploadFile, Uploaded, Exchange, Types, Devices
  <2>5. ~WriteBoardParam /\ \A q \in Params : ~WriteParam(q)
    BY <1>1 DEF WriteBoardParam, WriteParam, WriteItem, Exchange, Types, Devices
  <2> QED BY <2>1, <2>2, <2>3, <2>4, <2>5 DEF Write
<1>7. SaveConfig
  BY <1>4, <1>5, <1>6 DEF Next
<1>8. Uploads({}) /\ InUse(Items) /\ Kept(Boards)
  BY <1>1, <1>7 DEF SaveConfig, WriteInv
<1>9. device' = Saved(device, Params)
  BY <1>3, <1>7 DEF SaveConfig, Exchange
<1> QED
  BY <1>1, <1>8, <1>9 DEF Saved, Types, Devices, Projects, Uploads, InUse, Kept, Items

LEMMA InitInv == Init => IInv
<1> SUFFICES ASSUME Init PROVE IInv
  OBVIOUS
<1>1. op.kind = "restart" /\ op.step = "idle"
  BY DEF Init, NoOperation
<1> QED BY <1>1, InitTypes DEF IInv, BoardChosen, ReadInv, WriteInv

LEMMA IInvMeans ==
  ASSUME IInv
  PROVE  TypeOK /\ ReadAsReported /\ (~RestartsUnseen => WrittenAsReported)
<1>1. TypeOK
  BY DEF IInv, Types, TypeOK, Devices, Projects, Operations
<1>2. ReadAsReported
  BY DEF IInv, ReadInv, ReadAsReported, Ended, Does, Success
<1>3. ASSUME ~RestartsUnseen PROVE WrittenAsReported
  <2>1. Ended("write") => Uploads({}) /\ Kept(Items)
    BY <1>3 DEF IInv, WriteInv, Over, Success, Ended, Does
  <2> QED BY <2>1 DEF WrittenAsReported, Uploads, Kept
<1> QED BY <1>1, <1>2, <1>3

\* Whatever is refused, broken off or restarted, the device, the project and the
\* operation keep their types.
THEOREM TypeCorrect == Spec => []TypeOK
<1>1. Init => IInv
  BY InitInv
<1>2. IInv /\ [Next]_vars => IInv'
  BY NextKeeps
<1>3. IInv => TypeOK
  BY IInvMeans
<1> QED BY <1>1, <1>2, <1>3, PTL DEF Spec

\* A read that reports success gave the project what the device used, for any
\* number of parameters, boards and files.
THEOREM ReadFaithful == Spec => []ReadAsReported
<1>1. Init => IInv
  BY InitInv
<1>2. IInv /\ [Next]_vars => IInv'
  BY NextKeeps
<1>3. IInv => ReadAsReported
  BY IInvMeans
<1> QED BY <1>1, <1>2, <1>3, PTL DEF Spec

\* A write that reports success left the project saved on the device, whatever
\* restarts of the device it was not told of, as long as none falls between the
\* check of the restart flag and the saving.
THEOREM WriteFaithful == Spec => [](~RestartsUnseen => WrittenAsReported)
<1>1. Init => IInv
  BY InitInv
<1>2. IInv /\ [Next]_vars => IInv'
  BY NextKeeps
<1>3. IInv => (~RestartsUnseen => WrittenAsReported)
  BY IInvMeans
<1> QED BY <1>1, <1>2, <1>3, PTL DEF Spec

\* A write changes the saved parameters of the device in one step, after all
\* else is in place.
THEOREM SavedLast ==
  ASSUME ~RestartsUnseen
  PROVE  Spec => MainSavedLast
<1>1. Init => IInv
  BY InitInv
<1>2. IInv /\ [Next]_vars => IInv'
  BY NextKeeps
<1>3. IInv /\ [Next]_vars =>
        [op.kind = "write" /\ (\E p \in Params : device'.saved[p] # device.saved[p]) =>
           /\ \A i \in Items \ op.reported : device'.saved[i] = local.items[i]
           /\ \A f \in Files \ op.gaps : device.files[f] = local.files[f]]_vars
  BY SavesLast
<1> QED BY <1>1, <1>2, <1>3, PTL DEF Spec, MainSavedLast

=============================================================================
