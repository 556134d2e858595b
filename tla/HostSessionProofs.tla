-------------------------- MODULE HostSessionProofs ---------------------------
(* What one operator leaves on the host, however many sessions there are and   *)
(* wherever a command fails or is killed.                                      *)
EXTENDS HostSession, TLAPS

(* One command at a time: two starts at once each find no session on file.     *)
OneOperator == \A p, q \in Terminals : p = q

PentestSteps == {"token", "overlay", "project", "drop", "load", "units",
                 "undo units", "undo tables", "stop units", "stop tables"}
ExportSteps == {"export", "list", "copy", "publish", "discard"}
LabSteps == {"lab", "scratch", "tap", "current", "start lab", "undo lab",
             "undo cleanup", "undo scratch", "stop lab", "stop scratch"}
SharedSteps == {"guest", "volume", "image", "format", "undo files", "stop files"}
WorkSteps == PentestSteps \cup LabSteps \cup ExportSteps \cup SharedSteps

(* A command is about a session, which has a kind.                             *)
CommandHasSession ==
    \A p \in Terminals :
        command[p].at \in WorkSteps => Mine(p) \in Sessions

(* The command works on the session on file, in the steps of its kind.         *)
CommandOfActive ==
    /\ ActiveSession # 0 => kind[ActiveSession] \in Kinds
    /\ \A p \in Terminals :
        /\ At(p, "confirm") => ActiveSession = 0
        /\ command[p].at \in WorkSteps => Mine(p) = ActiveSession /\ ActiveSession # 0
        /\ command[p].at \in PentestSteps => MyKind(p) = "pentest"
        /\ command[p].at \in LabSteps \cup ExportSteps => MyKind(p) \in Guests

(* A guest that no start has abandoned is of the session on file and its kind. *)
LeftVm == vm.session \in {0} \cup abandoned
LeftLab == lab \in {0} \cup abandoned
GuestsOfActive ==
    /\ tables # {} => tables = {ActiveSession} /\ kind[ActiveSession] = "pentest"
    /\ ~LeftVm => vm.session = ActiveSession /\ kind[ActiveSession] = "pentest"
    /\ ~LeftLab => lab = ActiveSession /\ kind[ActiveSession] \in Guests

(* What a start has written is of its session until its end.                   *)
AfterGuest == {"token", "overlay", "project", "drop", "load", "units"}
WrittenForMine ==
    \A p \in Terminals :
        /\ command[p].at \in AfterGuest => files["guest"] = ActiveSession
        /\ command[p].at \in AfterGuest \ {"token"} => files["token"] = ActiveSession
        /\ command[p].at \in {"project", "drop", "load", "units"} => files["overlay"] = ActiveSession
        /\ At(p, "start lab") => current \in {0, ActiveSession}
        /\ command[p].at \in {"volume", "image", "format"} /\ MyKind(p) = "pentest" =>
              files["guest"] = ActiveSession /\ files["token"] = ActiveSession

(* Nothing is on any more when the files of a session are removed.             *)
DoneBeforeRemoval ==
    \A p \in Terminals :
        /\ command[p].at \in {"undo tables", "stop tables", "undo files", "stop files"} => LeftVm
        /\ command[p].at \in {"undo cleanup", "undo scratch", "stop scratch", "undo files", "stop files"} => LeftLab
        /\ command[p].at \in {"undo files", "stop files"} => tables = {}

(* The guest is off, and what was listed stays, from the list to the export,   *)
(* which has it all when it is discarded.                                      *)
ExportSees ==
    \A p \in Terminals :
        LET exporting == command[p].at \in {"volume", "image", "format"} /\ MyKind(p) \in Guests IN
        /\ exporting \/ command[p].at \in {"list", "copy", "publish", "discard"} => lab # Mine(p)
        /\ exporting \/ command[p].at \in {"copy", "publish"} => results[Mine(p)] = command[p].listed
        /\ At(p, "publish") => command[p].copied = command[p].listed
        /\ At(p, "discard") => exports[Mine(p)].image = results[Mine(p)]

VmIsFresh ==
    vm # NoVm => /\ vm.session # 0 /\ vm.overlay = vm.session
                 /\ vm.session \notin abandoned => files["token"] = vm.session

TypeInv == TypeOK /\ CommandHasSession
SessionInv ==
    /\ CommandOfActive
    /\ GuestsOfActive
    /\ WrittenForMine
    /\ DoneBeforeRemoval
    /\ ExportSees
    /\ VmIsFresh
    /\ ExportIsAsConfirmed
HostInv == TypeInv /\ SessionInv

-------------------------------------------------------------------------------
(* What a step of a command does to the commands.                              *)

CommandRecord == [at : Steps, session : Ids, listed : 0..MaxWrites, copied : 0..MaxWrites]

LEMMA IdleIsCommand == HostSessionAssumption => Idle \in CommandRecord
<1>1. "idle" \in Steps BY DEF Steps
<1>2. HostSessionAssumption => 0 \in Ids /\ 0 \in 0..MaxWrites BY DEF HostSessionAssumption, Ids
<1> QED BY <1>1, <1>2 DEF Idle, CommandRecord

LEMMA MovesTo ==
    ASSUME HostSessionAssumption, TypeOK, NEW p \in Terminals, NEW step \in Steps, Moves(p, step)
    PROVE  /\ command' \in [Terminals -> CommandRecord]
           /\ command'[p].at = step /\ command'[p].session = command[p].session
           /\ command'[p].listed = command[p].listed /\ command'[p].copied = command[p].copied
           /\ \A q \in Terminals : q # p => command'[q] = command[q]
BY DEF Moves, TypeOK, CommandRecord

LEMMA LeavesAlone ==
    ASSUME HostSessionAssumption, TypeOK, NEW p \in Terminals, Leaves(p)
    PROVE  /\ command' \in [Terminals -> CommandRecord]
           /\ command'[p] = Idle
           /\ \A q \in Terminals : q # p => command'[q] = command[q]
BY IdleIsCommand DEF Leaves, TypeOK, CommandRecord

(* The steps of a command, for its other steps to be told from them.           *)
LEMMA WorkIsStep == WorkSteps \subseteq Steps /\ "idle" \notin WorkSteps /\ "confirm" \notin WorkSteps
BY DEF WorkSteps, PentestSteps, LabSteps, ExportSteps, SharedSteps, Steps

(* It holds at first.                                                          *)
LEMMA HostInit ==
    ASSUME HostSessionAssumption, Init
    PROVE  HostInv
<1> USE DEF Init, HostSessionAssumption
<1>1. TypeOK
  <2>1. command \in [Terminals -> CommandRecord] BY IdleIsCommand
  <2>2. files \in [Files -> Ids] BY DEF NoFiles, Ids
  <2>3. vm \in [session : Ids, overlay : Ids] BY DEF NoVm, Ids
  <2>4. exports \in [Sessions -> [manifest : 0..MaxWrites, image : 0..MaxWrites]] BY DEF NoExport
  <2>5. results \in [Sessions -> 0..MaxWrites] OBVIOUS
  <2>6. kind \in [Sessions -> Kinds \cup {"none"}] OBVIOUS
  <2>7. lab \in Ids /\ current \in Ids BY DEF Ids
  <2>8. volume \in {"none", "empty", "raw", "formatted"} /\ broker \in BOOLEAN /\ tap \in BOOLEAN
    OBVIOUS
  <2>9. tables \in SUBSET Sessions /\ labDirs \in SUBSET Sessions /\ abandoned \in SUBSET Sessions
    OBVIOUS
  <2> HIDE DEF Init
  <2> QED BY <2>1, <2>2, <2>3, <2>4, <2>5, <2>6, <2>7, <2>8, <2>9 DEF TypeOK, CommandRecord
<1>2. \A p \in Terminals : command[p] = Idle /\ command[p].at \notin WorkSteps
  BY WorkIsStep DEF Idle
<1>3. CommandHasSession BY <1>2 DEF CommandHasSession
<1>4. ActiveSession = 0 BY DEF ActiveSession, NoFiles, Files
<1>5. CommandOfActive
  BY <1>2, <1>4 DEF CommandOfActive, WorkSteps, At, Idle
<1>6. GuestsOfActive BY DEF GuestsOfActive, LeftVm, LeftLab, NoVm
<1>7. WrittenForMine
  BY <1>2 DEF WrittenForMine, AfterGuest, At, Idle
<1>8. DoneBeforeRemoval BY DEF DoneBeforeRemoval, LeftVm, LeftLab, NoVm
<1>9. ExportSees BY <1>2 DEF ExportSees, At, Idle
<1>10. VmIsFresh BY DEF VmIsFresh
<1>11. ExportIsAsConfirmed BY DEF ExportIsAsConfirmed, NoExport
<1> QED BY <1>1, <1>3, <1>5, <1>6, <1>7, <1>8, <1>9, <1>10, <1>11 DEF HostInv, TypeInv, SessionInv

-------------------------------------------------------------------------------
(* Every step keeps the types, with any number of operators.                   *)

CommandsOK == command \in [Terminals -> CommandRecord] /\ CommandHasSession

LEMMA GoesOn ==
    ASSUME HostSessionAssumption, TypeInv, NEW p \in Terminals, NEW step \in Steps,
           Moves(p, step), command[p].at \in WorkSteps \/ step \notin WorkSteps
    PROVE  CommandsOK'
<1> USE DEF TypeInv
<1>1. /\ command'[p].at = step /\ command'[p].session = command[p].session
      /\ \A q \in Terminals : q # p => command'[q] = command[q]
      /\ command' \in [Terminals -> CommandRecord]
  BY MovesTo
<1>2. CommandHasSession' BY <1>1 DEF CommandHasSession, Mine
<1> QED BY <1>1, <1>2 DEF CommandsOK

LEMMA EndsCommand ==
    ASSUME HostSessionAssumption, TypeInv, NEW p \in Terminals, Leaves(p)
    PROVE  CommandsOK'
<1> USE DEF TypeInv
<1>1. /\ command'[p] = Idle
      /\ \A q \in Terminals : q # p => command'[q] = command[q]
      /\ command' \in [Terminals -> CommandRecord]
  BY LeavesAlone
<1>2. command'[p].at \notin WorkSteps BY <1>1, WorkIsStep DEF Idle
<1>3. CommandHasSession' BY <1>1, <1>2 DEF CommandHasSession, Mine
<1> QED BY <1>1, <1>3 DEF CommandsOK

LEMMA SameCommands ==
    ASSUME TypeInv, command' = command
    PROVE  CommandsOK'
BY DEF TypeInv, TypeOK, CommandRecord, CommandsOK, CommandHasSession, Mine

(* A command that begins takes the session on file.                            *)
LEMMA BeginsWith ==
    ASSUME HostSessionAssumption, TypeInv, NEW p \in Terminals, NEW step \in Steps, NEW s \in Sessions,
           command' = [command EXCEPT ![p].at = step, ![p].session = s]
    PROVE  CommandsOK'
<1>1. s \in Ids BY DEF Sessions, Ids, HostSessionAssumption
<1>2. /\ command'[p].session = s
      /\ \A q \in Terminals : q # p => command'[q] = command[q]
      /\ command' \in [Terminals -> CommandRecord]
  BY <1>1 DEF TypeInv, TypeOK, CommandRecord
<1>3. CommandHasSession' BY <1>2 DEF TypeInv, CommandHasSession, Mine
<1> QED BY <1>2, <1>3 DEF CommandsOK

FilesOK == files \in [Files -> Ids]
VmOK == vm \in [session : Ids, overlay : Ids] /\ broker \in BOOLEAN
LabOK == lab \in Ids /\ labDirs \in SUBSET Sessions /\ current \in Ids /\ tap \in BOOLEAN
DiskOK ==
    /\ volume \in {"none", "empty", "raw", "formatted"}
    /\ results \in [Sessions -> 0..MaxWrites]
    /\ exports \in [Sessions -> [manifest : 0..MaxWrites, image : 0..MaxWrites]]
RestOK ==
    /\ kind \in [Sessions -> Kinds \cup {"none"}]
    /\ tables \in SUBSET Sessions /\ abandoned \in SUBSET Sessions

LEMMA TypeInParts == TypeInv <=> FilesOK /\ VmOK /\ LabOK /\ DiskOK /\ RestOK /\ CommandsOK
BY DEF TypeInv, TypeOK, FilesOK, VmOK, LabOK, DiskOK, RestOK, CommandsOK, CommandRecord

LEMMA NextInParts ==
    FilesOK' /\ VmOK' /\ LabOK' /\ DiskOK' /\ RestOK' /\ CommandsOK' => TypeInv'
BY DEF TypeInv, TypeOK, FilesOK, VmOK, LabOK, DiskOK, RestOK, CommandsOK, CommandRecord

LEMMA SessionIds == HostSessionAssumption => Sessions \subseteq Ids /\ 0 \in Ids /\ Sessions = Ids \ {0}
BY DEF Sessions, Ids, HostSessionAssumption

LEMMA WritesAre == HostSessionAssumption => 0 \in 0..MaxWrites /\ 1 \in 0..MaxWrites
BY DEF HostSessionAssumption

LEMMA ActiveIsId == ASSUME HostSessionAssumption, FilesOK PROVE ActiveSession \in Ids
BY DEF FilesOK, ActiveSession, Files

LEMMA MineIsSession ==
    ASSUME TypeInv, NEW p \in Terminals, command[p].at \in WorkSteps
    PROVE  Mine(p) \in Sessions
BY DEF TypeInv, CommandHasSession

LEMMA WriteTypes ==
    ASSUME HostSessionAssumption, FilesOK, NEW p \in Terminals, NEW f \in Files,
           Mine(p) \in Sessions, Write(p, f)
    PROVE  FilesOK'
BY SessionIds DEF Write, FilesOK

LEMMA RemovalTypes ==
    ASSUME HostSessionAssumption, FilesOK,
           files' = NoFiles \/ \E left \in SUBSET Files : files' = [f \in Files |-> IF f \in left THEN files[f] ELSE 0]
    PROVE  FilesOK'
BY SessionIds DEF FilesOK, NoFiles

LEMMA BootTypes == FilesOK /\ VmOK => Boot \in [session : Ids, overlay : Ids]
BY DEF FilesOK, VmOK, Boot, Files

LEMMA NoVmTypes == HostSessionAssumption => NoVm \in [session : Ids, overlay : Ids]
BY SessionIds DEF NoVm

LEMMA CleanupTypes ==
    ASSUME HostSessionAssumption, LabOK, NEW guest, Cleanup(guest)
    PROVE  labDirs' \in SUBSET Sessions /\ current' \in Ids /\ tap' \in BOOLEAN
BY SessionIds DEF LabOK, Cleanup

LEMMA StopLabTypes ==
    ASSUME HostSessionAssumption, LabOK, NEW guest, StopLabUnit(guest)
    PROVE  LabOK'
BY SessionIds, CleanupTypes DEF LabOK, StopLabUnit, LabVars

LEMMA WorkStepsAre == WorkSteps = Steps \ {"idle", "confirm"}
<1>1. ASSUME NEW x \in WorkSteps PROVE x \in Steps \ {"idle", "confirm"}
  BY WorkIsStep
<1>2. ASSUME NEW x \in Steps \ {"idle", "confirm"} PROVE x \in WorkSteps
  BY DEF WorkSteps, PentestSteps, LabSteps, ExportSteps, SharedSteps, Steps
<1> QED BY <1>1, <1>2

(* The types, command by command.                                              *)
LEMMA StartTypes ==
    ASSUME HostSessionAssumption, TypeInv, NEW p \in Terminals, Start(p)
    PROVE  TypeInv'
<1> USE TypeInParts, NextInParts, GoesOn, EndsCommand, MineIsSession, WriteTypes, WorkStepsAre
        DEF At, runVars, diskVars, UnitVars, LabVars
<1>0. "idle" \in Steps /\ "confirm" \in Steps /\ Files = {"session", "guest", "token", "overlay", "project"}
  BY DEF Steps, Files
<1>1. CASE BeginStart(p)
  BY <1>0, <1>1 DEF BeginStart, FilesOK, VmOK, LabOK, DiskOK, RestOK
<1>2. ASSUME NEW k \in Kinds, NewSession(p, k) PROVE TypeInv'
  <2>1. PICK s \in Sessions : /\ kind' = [kind EXCEPT ![s] = k]
                              /\ files' = [files EXCEPT !["session"] = s]
                              /\ command' = [command EXCEPT ![p].at = "guest", ![p].session = s]
    BY <1>2 DEF NewSession
  <2>2. CommandsOK' BY <2>1, BeginsWith DEF Steps
  <2>3. FilesOK' BY <2>1, SessionIds DEF FilesOK
  <2>4. RestOK' BY <1>2, <2>1 DEF RestOK, NewSession
  <2> QED BY <1>2, <2>2, <2>3, <2>4 DEF NewSession, VmOK, LabOK, DiskOK
<1>3. CASE WriteGuestMetadata(p)
  <2>1. CommandsOK' BY <1>3 DEF WriteGuestMetadata, Steps
  <2>2. FilesOK' BY <1>0, <1>3 DEF WriteGuestMetadata, Steps
  <2> QED BY <1>3, <2>1, <2>2 DEF WriteGuestMetadata, VmOK, LabOK, DiskOK, RestOK
<1>4. CASE WriteToken(p)
  <2>1. CommandsOK' BY <1>4 DEF WriteToken, Steps
  <2>2. FilesOK' BY <1>0, <1>4 DEF WriteToken, Steps
  <2> QED BY <1>4, <2>1, <2>2 DEF WriteToken, VmOK, LabOK, DiskOK, RestOK
<1>5. CASE EnsureProject(p)
  <2>1. CommandsOK' BY <1>5 DEF EnsureProject, Ensured, Steps
  <2>2. DiskOK' BY <1>5 DEF EnsureProject, DiskOK
  <2> QED BY <1>5, <2>1, <2>2 DEF EnsureProject, FilesOK, VmOK, LabOK, RestOK
<1>6. CASE MakeImage(p)
  <2>1. CommandsOK' BY <1>6 DEF MakeImage, Ensured, Steps
  <2>2. DiskOK' BY <1>6 DEF MakeImage, DiskOK
  <2> QED BY <1>6, <2>1, <2>2 DEF MakeImage, FilesOK, VmOK, LabOK, RestOK
<1>7. CASE MakeOverlay(p)
  <2>1. CommandsOK' BY <1>7 DEF MakeOverlay, Steps
  <2>2. FilesOK' BY <1>0, <1>7 DEF MakeOverlay, Steps
  <2> QED BY <1>7, <2>1, <2>2 DEF MakeOverlay, VmOK, LabOK, DiskOK, RestOK
<1>8. CASE LinkProject(p)
  <2>1. CommandsOK' BY <1>8 DEF LinkProject, Steps
  <2>2. FilesOK' BY <1>0, <1>8 DEF LinkProject, Steps
  <2> QED BY <1>8, <2>1, <2>2 DEF LinkProject, VmOK, LabOK, DiskOK, RestOK
<1>9. CASE LoadTables(p)
  <2>1. CommandsOK' BY <1>9 DEF LoadTables, Steps
  <2>2. Mine(p) \in Sessions BY <1>9 DEF LoadTables, Steps
  <2>3. RestOK' BY <1>9, <2>2 DEF LoadTables, RestOK
  <2> QED BY <1>9, <2>1, <2>3 DEF LoadTables, FilesOK, VmOK, LabOK, DiskOK
<1>10. CASE StartUnits(p)
  <2>1. CommandsOK' BY <1>10 DEF StartUnits
  <2>2. VmOK' BY <1>10, BootTypes DEF StartUnits, VmOK
  <2> QED BY <1>10, <2>1, <2>2 DEF StartUnits, FilesOK, LabOK, DiskOK, RestOK
<1>11. CASE MakeLabDir(p)
  <2>1. CommandsOK' BY <1>11 DEF MakeLabDir, Steps
  <2>2. Mine(p) \in Sessions BY <1>11 DEF MakeLabDir, Steps
  <2>3. LabOK' BY <1>11, <2>2 DEF MakeLabDir, LabOK
  <2> QED BY <1>11, <2>1, <2>3 DEF MakeLabDir, FilesOK, VmOK, DiskOK, RestOK
<1>12. CASE MakeScratch(p)
  <2>1. CommandsOK' BY <1>12 DEF MakeScratch, Steps
  <2>2. DiskOK' BY <1>12, WritesAre DEF MakeScratch, DiskOK
  <2> QED BY <1>12, <2>1, <2>2 DEF MakeScratch, FilesOK, VmOK, LabOK, RestOK
<1>13. CASE AddTap(p)
  <2>1. CommandsOK' BY <1>13 DEF AddTap, Steps
  <2> QED BY <1>13, <2>1 DEF AddTap, FilesOK, VmOK, LabOK, DiskOK, RestOK
<1>14. CASE ReplaceCurrent(p)
  <2>1. CommandsOK' BY <1>14 DEF ReplaceCurrent, Steps
  <2>2. Mine(p) \in Ids BY <1>14, SessionIds DEF ReplaceCurrent, Steps
  <2> QED BY <1>14, <2>1, <2>2 DEF ReplaceCurrent, FilesOK, VmOK, LabOK, DiskOK, RestOK
<1>15. CASE StartLab(p)
  BY <1>15 DEF StartLab, FilesOK, VmOK, LabOK, DiskOK, RestOK
<1> QED
  BY <1>1, <1>2, <1>3, <1>4, <1>5, <1>6, <1>7, <1>8, <1>9, <1>10, <1>11, <1>12, <1>13, <1>14,
      <1>15
  DEF Start, ConfirmPentest, ConfirmMalware, Kinds

LEMMA UndoTypes ==
    ASSUME HostSessionAssumption, TypeInv, NEW p \in Terminals, Undo(p)
    PROVE  TypeInv'
<1> USE TypeInParts, NextInParts, GoesOn, EndsCommand, WorkStepsAre
DEF At, runVars, diskVars, UnitVars, LabVars
<1>1. CASE Fails(p)
  <2>1. CommandsOK' BY <1>1 DEF Fails, Steps
  <2>2. DiskOK' BY <1>1 DEF Fails, DiskOK
  <2> QED BY <1>1, <2>1, <2>2 DEF Fails, FilesOK, VmOK, LabOK, RestOK
<1>2. CASE StartUnitsFails(p)
  <2>1. CommandsOK' BY <1>2 DEF StartUnitsFails, Steps
  <2>2. VmOK' BY <1>2, BootTypes DEF StartUnitsFails, VmOK
  <2> QED BY <1>2, <2>1, <2>2 DEF StartUnitsFails, FilesOK, LabOK, DiskOK, RestOK
<1>3. CASE UndoUnits(p)
  <2>1. CommandsOK' BY <1>3 DEF UndoUnits, Steps
  <2>2. VmOK' BY <1>3, NoVmTypes DEF UndoUnits, VmOK
  <2>3. RestOK' BY <1>3, SessionIds DEF UndoUnits, RestOK, VmOK
  <2> QED BY <1>3, <2>1, <2>2, <2>3 DEF UndoUnits, FilesOK, LabOK, DiskOK
<1>4. CASE UndoLab(p)
  <2>1. CommandsOK' BY <1>4 DEF UndoLab, Steps
  <2>2. LabOK' BY <1>4, StopLabTypes DEF UndoLab, LabOK
  <2>3. RestOK' BY <1>4, SessionIds DEF UndoLab, RestOK, LabOK
  <2> QED BY <1>4, <2>1, <2>2, <2>3 DEF UndoLab, FilesOK, VmOK, DiskOK
<1>5. CASE UndoCleanup(p)
  <2>1. CommandsOK' BY <1>5 DEF UndoCleanup, Steps
  <2>2. LabOK' BY <1>5, CleanupTypes DEF UndoCleanup, LabOK
  <2> QED BY <1>5, <2>1, <2>2 DEF UndoCleanup, FilesOK, VmOK, DiskOK, RestOK
<1> QED BY <1>1, <1>2, <1>3, <1>4, <1>5 DEF Undo

LEMMA StopTypes ==
    ASSUME HostSessionAssumption, TypeInv, NEW p \in Terminals, Stop(p) \/ Ends(p)
    PROVE  TypeInv'
<1> USE TypeInParts, NextInParts, GoesOn, EndsCommand, WorkStepsAre
DEF At, runVars, diskVars, UnitVars, LabVars
<1>1. CASE BeginStop(p)
  <2>1. ActiveSession \in Sessions BY <1>1, ActiveIsId, SessionIds DEF BeginStop
  <2>2. CommandsOK' BY <1>1, <2>1, BeginsWith DEF BeginStop, Steps
  <2> QED BY <1>1, <2>2 DEF BeginStop, FilesOK, VmOK, LabOK, DiskOK, RestOK
<1>2. CASE StopUnits(p)
  <2>1. CommandsOK' BY <1>2 DEF StopUnits, Steps
  <2>2. VmOK' BY <1>2, NoVmTypes DEF StopUnits, VmOK
  <2> QED BY <1>2, <2>1, <2>2 DEF StopUnits, FilesOK, LabOK, DiskOK, RestOK
<1>3. CASE StopLab(p)
  <2>1. CommandsOK' BY <1>3 DEF StopLab, Steps
  <2>2. LabOK' BY <1>3, StopLabTypes DEF StopLab, LabOK
  <2> QED BY <1>3, <2>1, <2>2 DEF StopLab, FilesOK, VmOK, DiskOK, RestOK
<1>4. CASE DropTables(p)
  <2>1. CommandsOK' BY <1>4 DEF DropTables, Steps
  <2> QED BY <1>4, <2>1 DEF DropTables, FilesOK, VmOK, LabOK, DiskOK, RestOK
<1>5. CASE RemoveScratch(p)
  <2>1. CommandsOK' BY <1>5 DEF RemoveScratch, Steps
  <2>2. DiskOK' BY <1>5, WritesAre DEF RemoveScratch, DiskOK
  <2> QED BY <1>5, <2>1, <2>2 DEF RemoveScratch, FilesOK, VmOK, LabOK, RestOK
<1>6. CASE RemoveFiles(p)
  <2>1. FilesOK' BY <1>6, RemovalTypes DEF RemoveFiles
  <2> QED BY <1>6, <2>1 DEF RemoveFiles, VmOK, LabOK, DiskOK, RestOK
<1> QED BY <1>1, <1>2, <1>3, <1>4, <1>5, <1>6 DEF Stop, Ends

LEMMA ExportTypes ==
    ASSUME HostSessionAssumption, TypeInv, NEW p \in Terminals, Export(p)
    PROVE  TypeInv'
<1> USE TypeInParts, NextInParts, GoesOn, EndsCommand, WorkStepsAre
DEF At, runVars, diskVars, UnitVars, LabVars
<1>0. ASSUME command[p].at \in WorkSteps PROVE Mine(p) \in Sessions /\ results[Mine(p)] \in 0..MaxWrites
  BY <1>0, MineIsSession DEF DiskOK
<1>1. CASE BeginExport(p)
  <2>1. ActiveSession \in Sessions BY <1>1, ActiveIsId, SessionIds DEF BeginExport
  <2>2. CommandsOK' BY <1>1, <2>1, BeginsWith DEF BeginExport, Steps
  <2> QED BY <1>1, <2>2 DEF BeginExport, FilesOK, VmOK, LabOK, DiskOK, RestOK
<1>2. CASE StopGuests(p)
  <2>1. CommandsOK' BY <1>2 DEF StopGuests, Steps
  <2>2. LabOK' BY <1>2, StopLabTypes DEF StopGuests, LabOK
  <2> QED BY <1>2, <2>1, <2>2 DEF StopGuests, FilesOK, VmOK, DiskOK, RestOK
<1>3. CASE ListResults(p)
  <2>1. results[Mine(p)] \in 0..MaxWrites BY <1>0, <1>3 DEF ListResults, Steps
  <2>2. ASSUME command' = [command EXCEPT ![p].at = "volume", ![p].listed = results[Mine(p)]] PROVE CommandsOK'
    <3>1. "volume" \in Steps BY DEF Steps
    <3>2. /\ command' \in [Terminals -> CommandRecord]
          /\ command'[p].session = command[p].session
          /\ \A q \in Terminals : q # p => command'[q] = command[q]
      BY <2>1, <2>2, <3>1 DEF CommandsOK, CommandRecord
    <3>3. Mine(p) \in Sessions BY <1>0, <1>3 DEF ListResults, Steps
    <3> QED BY <3>2, <3>3 DEF CommandsOK, CommandHasSession, Mine
  <2>3. CommandsOK' BY <1>3, <2>2 DEF ListResults
  <2> QED BY <1>3, <2>3 DEF ListResults, FilesOK, VmOK, LabOK, DiskOK, RestOK
<1>4. CASE CopyResults(p)
  <2>1. results[Mine(p)] \in 0..MaxWrites BY <1>0, <1>4 DEF CopyResults, Steps
  <2>2. ASSUME command' = [command EXCEPT ![p].at = "publish", ![p].copied = results[Mine(p)]] PROVE CommandsOK'
    <3>1. "publish" \in Steps BY DEF Steps
    <3>2. /\ command' \in [Terminals -> CommandRecord]
          /\ command'[p].session = command[p].session
          /\ \A q \in Terminals : q # p => command'[q] = command[q]
      BY <2>1, <2>2, <3>1 DEF CommandsOK, CommandRecord
    <3>3. Mine(p) \in Sessions BY <1>0, <1>4 DEF CopyResults, Steps
    <3> QED BY <3>2, <3>3 DEF CommandsOK, CommandHasSession, Mine
  <2>3. CommandsOK' BY <1>4, <2>2 DEF CopyResults
  <2> QED BY <1>4, <2>3 DEF CopyResults, FilesOK, VmOK, LabOK, DiskOK, RestOK
<1>5. CASE Publish(p)
  <2>1. CommandsOK' BY <1>5 DEF Publish, Steps
  <2>2. DiskOK' BY <1>5 DEF Publish, DiskOK, CommandsOK, CommandRecord
  <2> QED BY <1>5, <2>1, <2>2 DEF Publish, FilesOK, VmOK, LabOK, RestOK
<1>6. CASE Discard(p)
  <2>1. DiskOK' BY <1>6, WritesAre DEF Discard, DiskOK
  <2> QED BY <1>6, <2>1 DEF Discard, FilesOK, VmOK, LabOK, RestOK
<1> QED BY <1>1, <1>2, <1>3, <1>4, <1>5, <1>6 DEF Export

(* A command that is killed leaves what its step could have done.              *)
LEMMA KillTypes ==
    ASSUME HostSessionAssumption, TypeInv, NEW p \in Terminals, Kill(p)
    PROVE  TypeInv'
<1> USE TypeInParts, NextInParts DEF At, runVars, diskVars, UnitVars, LabVars
<1>1. CommandsOK' BY EndsCommand DEF Kill
<1>2. FilesOK' BY RemovalTypes DEF Kill, FilesOK
<1>3. VmOK' BY BootTypes DEF Kill, VmOK
<1>4. LabOK' BY DEF Kill, LabOK
<1> QED BY <1>1, <1>2, <1>3, <1>4 DEF Kill, DiskOK, RestOK

LEMMA OutsideTypes ==
    ASSUME HostSessionAssumption, TypeInv, GuestEnds \/ GuestWrites \/ Reboot
    PROVE  TypeInv'
<1> USE TypeInParts, NextInParts DEF runVars, diskVars, UnitVars, LabVars
<1>1. CASE GuestEnds
  <2>1. VmOK' BY <1>1, NoVmTypes DEF GuestEnds, VmOK
  <2>2. LabOK' BY <1>1, CleanupTypes, SessionIds DEF GuestEnds, LabOK
  <2> QED BY <1>1, <2>1, <2>2, SameCommands DEF GuestEnds, FilesOK, DiskOK, RestOK
<1>2. CASE GuestWrites
  <2>1. DiskOK'
    <3>1. lab \in Sessions BY <1>2, SessionIds DEF GuestWrites, LabOK
    <3>2. results[lab] + 1 \in 0..MaxWrites BY <1>2, <3>1 DEF GuestWrites, HostSessionAssumption
    <3> QED BY <1>2, <3>1, <3>2 DEF GuestWrites, DiskOK
  <2> QED BY <1>2, <2>1, SameCommands DEF GuestWrites, FilesOK, VmOK, LabOK, RestOK
<1>3. CASE Reboot
  <2>1. CommandsOK'
    BY <1>3, IdleIsCommand, WorkIsStep DEF Reboot, CommandsOK, CommandHasSession, Idle
  <2>2. FilesOK' BY <1>3, RemovalTypes DEF Reboot
  <2>3. VmOK' /\ LabOK' BY <1>3, NoVmTypes, SessionIds DEF Reboot, VmOK, LabOK
  <2> QED BY <1>3, <2>1, <2>2, <2>3 DEF Reboot, DiskOK, RestOK
<1> QED BY <1>1, <1>2, <1>3

(* Every step keeps the types.                                                 *)
LEMMA TypeStep == HostSessionAssumption /\ TypeInv /\ [Next]_vars => TypeInv'
<1> SUFFICES ASSUME HostSessionAssumption, TypeInv, [Next]_vars PROVE TypeInv' OBVIOUS
<1>1. CASE UNCHANGED vars
  BY <1>1, TypeInParts, NextInParts, SameCommands
  DEF vars, runVars, diskVars, FilesOK, VmOK, LabOK, DiskOK, RestOK
<1>2. CASE Next
  BY <1>2, StartTypes, UndoTypes, StopTypes, ExportTypes, KillTypes, OutsideTypes DEF Next
<1> QED BY <1>1, <1>2

(* Every variable has its type, with any number of operators.                  *)
THEOREM HostTypeCorrect == Spec => []TypeOK
<1>1. Init => TypeInv BY HostInit, HostSessionAssumption DEF HostInv
<1>2. TypeInv /\ [Next]_vars => TypeInv' BY TypeStep, HostSessionAssumption
<1>3. TypeInv => TypeOK BY DEF TypeInv
<1> QED BY <1>1, <1>2, <1>3, PTL DEF Spec

-------------------------------------------------------------------------------
(* The steps of one operator keep the invariant.                               *)

(* A command that goes on in the steps of its kind stays of its session.       *)
LEMMA StaysOfActive ==
    ASSUME OneOperator, CommandOfActive, NEW p \in Terminals,
           command[p].at \in WorkSteps, command'[p].session = command[p].session,
           kind' = kind, files'["session"] = files["session"], command'[p].at # "confirm",
           command'[p].at \in PentestSteps => MyKind(p) = "pentest",
           command'[p].at \in LabSteps \cup ExportSteps => MyKind(p) \in Guests
    PROVE  CommandOfActive'
BY DEF OneOperator, CommandOfActive, Mine, MyKind, ActiveSession, At

(* What a start writes is of the session it recorded.                         *)
LEMMA StartOwns ==
    ASSUME HostSessionAssumption, OneOperator, HostInv, TypeInv', NEW p \in Terminals, Start(p)
    PROVE  SessionInv'
<1>0. TypeInv /\ TypeOK /\ SessionInv BY DEF HostInv, TypeInv
<1>o. \A q \in Terminals : q = p BY DEF OneOperator
<1>s. command[p].at \in WorkSteps => Mine(p) \in Sessions BY <1>0 DEF TypeInv, CommandHasSession
<1> USE DEF At, Mine, MyKind, runVars, diskVars, UnitVars, LabVars, ActiveSession, LeftVm, LeftLab
<1>1. CASE BeginStart(p)
  <2>1. command'[p].at = "confirm" /\ command'[p].session = command[p].session
        /\ command'[p].listed = command[p].listed /\ command'[p].copied = command[p].copied
    BY <1>0, <1>1, MovesTo DEF BeginStart, Steps
  <2>2. CommandOfActive'
    BY ZenonT(40), <1>0, <1>o, <1>s, <1>1, <2>1
    DEF BeginStart, SessionInv, CommandOfActive, WorkSteps, PentestSteps, LabSteps, ExportSteps,
        SharedSteps, Kinds, Guests
  <2>3. GuestsOfActive'
    BY <1>0, <1>o, <1>s, <1>1, <2>1 DEF BeginStart, SessionInv, GuestsOfActive
  <2>4. WrittenForMine'
    BY <1>0, <1>o, <1>s, <1>1, <2>1 DEF BeginStart, SessionInv, WrittenForMine, AfterGuest
  <2>5. DoneBeforeRemoval'
    BY <1>0, <1>o, <1>s, <1>1, <2>1 DEF BeginStart, SessionInv, DoneBeforeRemoval
  <2>6. ExportSees' BY <1>0, <1>o, <1>s, <1>1, <2>1 DEF BeginStart, SessionInv, ExportSees
  <2>7. VmIsFresh' BY <1>0, <1>o, <1>s, <1>1, <2>1 DEF BeginStart, SessionInv, VmIsFresh
  <2>8. ExportIsAsConfirmed'
    BY <1>0, <1>o, <1>s, <1>1, <2>1 DEF BeginStart, SessionInv, ExportIsAsConfirmed
  <2> QED BY <2>2, <2>3, <2>4, <2>5, <2>6, <2>7, <2>8 DEF SessionInv
<1>2. CASE WriteGuestMetadata(p)
  <2>1. MyKind(p) = "pentest" => command'[p].at = "token"
    BY <1>0, <1>2, MovesTo DEF WriteGuestMetadata, Steps
  <2>2. MyKind(p) # "pentest" => command'[p].at = "lab"
    BY <1>0, <1>2, MovesTo DEF WriteGuestMetadata, Steps
  <2>3. command'[p].session = command[p].session
    BY <1>0, <1>2, MovesTo DEF WriteGuestMetadata, Steps
  <2>4. files'["guest"] = Mine(p) /\ files'["session"] = files["session"] /\ files'["token"] = files["token"] /\ files'["overlay"] = files["overlay"]
    BY <1>0, <1>2 DEF Write, TypeOK, Files, WriteGuestMetadata
  <2>5. CommandOfActive'
    BY ZenonT(40), <1>0, <1>o, <1>s, <1>2, <2>1, <2>2, <2>3, <2>4
    DEF WriteGuestMetadata, SessionInv, CommandOfActive, WorkSteps, PentestSteps, LabSteps,
        ExportSteps, SharedSteps, Kinds, Guests
  <2>6. GuestsOfActive'
    BY <1>0, <1>o, <1>s, <1>2, <2>1, <2>2, <2>3, <2>4
    DEF WriteGuestMetadata, SessionInv, GuestsOfActive
  <2>7. WrittenForMine'
    BY ZenonT(40), <1>0, <1>o, <1>s, <1>2, <2>1, <2>2, <2>3, <2>4
    DEF WriteGuestMetadata, SessionInv, WrittenForMine, AfterGuest, CommandOfActive, WorkSteps,
        PentestSteps, LabSteps, ExportSteps, SharedSteps, Kinds, Guests
  <2>8. DoneBeforeRemoval'
    BY <1>0, <1>o, <1>s, <1>2, <2>1, <2>2, <2>3, <2>4
    DEF WriteGuestMetadata, SessionInv, DoneBeforeRemoval
  <2>9. ExportSees'
    BY <1>0, <1>o, <1>s, <1>2, <2>1, <2>2, <2>3, <2>4
    DEF WriteGuestMetadata, SessionInv, ExportSees
  <2>10. VmIsFresh'
    BY <1>0, <1>o, <1>s, <1>2, <2>1, <2>2, <2>3, <2>4
    DEF WriteGuestMetadata, SessionInv, VmIsFresh
  <2>11. ExportIsAsConfirmed'
    BY <1>0, <1>o, <1>s, <1>2, <2>1, <2>2, <2>3, <2>4
    DEF WriteGuestMetadata, SessionInv, ExportIsAsConfirmed
  <2> QED BY <2>5, <2>6, <2>7, <2>8, <2>9, <2>10, <2>11 DEF SessionInv
<1>3. CASE WriteToken(p)
  <2>1. command'[p].at = "volume" /\ command'[p].session = command[p].session
        /\ command'[p].listed = command[p].listed /\ command'[p].copied = command[p].copied
    BY <1>0, <1>3, MovesTo DEF WriteToken, Steps
  <2>2. files'["token"] = Mine(p) /\ files'["session"] = files["session"] /\ files'["guest"] = files["guest"] /\ files'["overlay"] = files["overlay"]
    BY <1>0, <1>3 DEF Write, TypeOK, Files, WriteToken
  <2>3. CommandOfActive'
    BY ZenonT(40), <1>0, <1>o, <1>s, <1>3, <2>1, <2>2
    DEF WriteToken, SessionInv, CommandOfActive, WorkSteps, PentestSteps, LabSteps, ExportSteps,
        SharedSteps, Kinds, Guests
  <2>4. GuestsOfActive'
    BY <1>0, <1>o, <1>s, <1>3, <2>1, <2>2 DEF WriteToken, SessionInv, GuestsOfActive
  <2>5. WrittenForMine'
    BY ZenonT(40), <1>0, <1>o, <1>s, <1>3, <2>1, <2>2
    DEF WriteToken, SessionInv, WrittenForMine, AfterGuest, CommandOfActive, WorkSteps,
        PentestSteps, LabSteps, ExportSteps, SharedSteps, Kinds, Guests
  <2>6. DoneBeforeRemoval'
    BY <1>0, <1>o, <1>s, <1>3, <2>1, <2>2 DEF WriteToken, SessionInv, DoneBeforeRemoval
  <2>7. ExportSees'
    BY ZenonT(40), <1>0, <1>o, <1>s, <1>3, <2>1, <2>2
    DEF WriteToken, SessionInv, ExportSees, CommandOfActive, WorkSteps, PentestSteps, LabSteps,
        ExportSteps, SharedSteps, Kinds, Guests
  <2>8. VmIsFresh'
    BY ZenonT(40), <1>0, <1>o, <1>s, <1>3, <2>1, <2>2
    DEF WriteToken, SessionInv, VmIsFresh, CommandOfActive, WrittenForMine, AfterGuest,
        GuestsOfActive, DoneBeforeRemoval, WorkSteps, PentestSteps, LabSteps, ExportSteps,
        SharedSteps, Kinds, Guests
  <2>9. ExportIsAsConfirmed'
    BY <1>0, <1>o, <1>s, <1>3, <2>1, <2>2 DEF WriteToken, SessionInv, ExportIsAsConfirmed
  <2> QED BY <2>3, <2>4, <2>5, <2>6, <2>7, <2>8, <2>9 DEF SessionInv
<1>4. CASE EnsureProject(p)
  <2>1. command'[p].at \in {Ensured(p), "image"} /\ command'[p].session = command[p].session
        /\ command'[p].listed = command[p].listed /\ command'[p].copied = command[p].copied
    BY <1>0, <1>4, MovesTo DEF EnsureProject, Ensured, Steps
  <2>2. MyKind(p) = "pentest" => command'[p].at \in {"overlay", "image"}
    BY <1>0, <1>4, MovesTo DEF EnsureProject, Ensured, Steps
  <2>3. MyKind(p) \in Guests => lab # Mine(p) /\ results[Mine(p)] = command[p].listed
    BY <1>0, <1>4 DEF EnsureProject, SessionInv, ExportSees
  <2>4. MyKind(p) = "pentest" \/ MyKind(p) \in Guests
    BY <1>0, <1>4 DEF EnsureProject, SessionInv, CommandOfActive, WorkSteps, SharedSteps, Kinds
  <2>5. command[p].at \in WorkSteps /\ command'[p].at # "confirm"
    BY <1>0, <1>o, <1>s, <1>4, <2>1, <2>2, <2>3, <2>4
    DEF EnsureProject, Ensured, WorkSteps, PentestSteps, SharedSteps
  <2>6. command'[p].at \in PentestSteps => MyKind(p) = "pentest"
    BY <1>0, <1>o, <1>s, <1>4, <2>1, <2>2, <2>3, <2>4 DEF EnsureProject, Ensured, PentestSteps
  <2>7. command'[p].at \in LabSteps \cup ExportSteps => MyKind(p) \in Guests
    BY <1>0, <1>o, <1>s, <1>4, <2>1, <2>2, <2>3, <2>4
    DEF EnsureProject, Ensured, LabSteps, ExportSteps
  <2>8. CommandOfActive'
    BY <1>0, <1>o, <1>s, <1>4, <2>1, <2>2, <2>3, <2>4, <2>5, <2>6, <2>7, StaysOfActive
    DEF EnsureProject, Ensured, SessionInv
  <2>9. GuestsOfActive'
    BY <1>0, <1>o, <1>s, <1>4, <2>1, <2>2, <2>3, <2>4
    DEF EnsureProject, Ensured, SessionInv, GuestsOfActive
  <2>10. WrittenForMine'
    BY ZenonT(40), <1>0, <1>o, <1>s, <1>4, <2>1, <2>2, <2>3, <2>4
    DEF EnsureProject, Ensured, SessionInv, WrittenForMine, AfterGuest, CommandOfActive,
        WorkSteps, PentestSteps, LabSteps, ExportSteps, SharedSteps, Kinds, Guests
  <2>11. DoneBeforeRemoval'
    BY <1>0, <1>o, <1>s, <1>4, <2>1, <2>2, <2>3, <2>4
    DEF EnsureProject, Ensured, SessionInv, DoneBeforeRemoval
  <2>12. ExportSees'
    BY <1>0, <1>o, <1>s, <1>4, <2>1, <2>2, <2>3, <2>4
    DEF EnsureProject, Ensured, SessionInv, ExportSees
  <2>13. VmIsFresh'
    BY <1>0, <1>o, <1>s, <1>4, <2>1, <2>2, <2>3, <2>4
    DEF EnsureProject, Ensured, SessionInv, VmIsFresh
  <2>14. ExportIsAsConfirmed'
    BY <1>0, <1>o, <1>s, <1>4, <2>1, <2>2, <2>3, <2>4
    DEF EnsureProject, Ensured, SessionInv, ExportIsAsConfirmed
  <2> QED BY <2>8, <2>9, <2>10, <2>11, <2>12, <2>13, <2>14 DEF SessionInv
<1>5. CASE MakeImage(p)
  <2>1. command'[p].at \in {Ensured(p), "format"} /\ command'[p].session = command[p].session
        /\ command'[p].listed = command[p].listed /\ command'[p].copied = command[p].copied
    BY <1>0, <1>5, MovesTo DEF MakeImage, Ensured, Steps
  <2>2. MyKind(p) = "pentest" => command'[p].at \in {"overlay", "format"}
    BY <1>0, <1>5, MovesTo DEF MakeImage, Ensured, Steps
  <2>3. MyKind(p) \in Guests => lab # Mine(p) /\ results[Mine(p)] = command[p].listed
    BY <1>0, <1>5 DEF MakeImage, SessionInv, ExportSees
  <2>4. MyKind(p) = "pentest" \/ MyKind(p) \in Guests
    BY <1>0, <1>5 DEF MakeImage, SessionInv, CommandOfActive, WorkSteps, SharedSteps, Kinds
  <2>5. command[p].at \in WorkSteps /\ command'[p].at # "confirm"
    BY <1>0, <1>o, <1>s, <1>5, <2>1, <2>2, <2>3, <2>4
    DEF MakeImage, Ensured, WorkSteps, PentestSteps, SharedSteps
  <2>6. command'[p].at \in PentestSteps => MyKind(p) = "pentest"
    BY <1>0, <1>o, <1>s, <1>5, <2>1, <2>2, <2>3, <2>4 DEF MakeImage, Ensured, PentestSteps
  <2>7. command'[p].at \in LabSteps \cup ExportSteps => MyKind(p) \in Guests
    BY <1>0, <1>o, <1>s, <1>5, <2>1, <2>2, <2>3, <2>4
    DEF MakeImage, Ensured, LabSteps, ExportSteps
  <2>8. CommandOfActive'
    BY <1>0, <1>o, <1>s, <1>5, <2>1, <2>2, <2>3, <2>4, <2>5, <2>6, <2>7, StaysOfActive
    DEF MakeImage, Ensured, SessionInv
  <2>9. GuestsOfActive'
    BY <1>0, <1>o, <1>s, <1>5, <2>1, <2>2, <2>3, <2>4
    DEF MakeImage, Ensured, SessionInv, GuestsOfActive
  <2>10. WrittenForMine'
    BY <1>0, <1>o, <1>s, <1>5, <2>1, <2>2, <2>3, <2>4
    DEF MakeImage, Ensured, SessionInv, WrittenForMine, AfterGuest
  <2>11. DoneBeforeRemoval'
    BY <1>0, <1>o, <1>s, <1>5, <2>1, <2>2, <2>3, <2>4
    DEF MakeImage, Ensured, SessionInv, DoneBeforeRemoval
  <2>12. ExportSees'
    BY <1>0, <1>o, <1>s, <1>5, <2>1, <2>2, <2>3, <2>4
    DEF MakeImage, Ensured, SessionInv, ExportSees
  <2>13. VmIsFresh'
    BY <1>0, <1>o, <1>s, <1>5, <2>1, <2>2, <2>3, <2>4
    DEF MakeImage, Ensured, SessionInv, VmIsFresh
  <2>14. ExportIsAsConfirmed'
    BY <1>0, <1>o, <1>s, <1>5, <2>1, <2>2, <2>3, <2>4
    DEF MakeImage, Ensured, SessionInv, ExportIsAsConfirmed
  <2> QED BY <2>8, <2>9, <2>10, <2>11, <2>12, <2>13, <2>14 DEF SessionInv
<1>6. CASE MakeOverlay(p)
  <2>1. command'[p].at = "project" /\ command'[p].session = command[p].session
        /\ command'[p].listed = command[p].listed /\ command'[p].copied = command[p].copied
    BY <1>0, <1>6, MovesTo DEF MakeOverlay, Steps
  <2>2. files'["overlay"] = Mine(p) /\ files'["session"] = files["session"] /\ files'["guest"] = files["guest"] /\ files'["token"] = files["token"]
    BY <1>0, <1>6 DEF Write, TypeOK, Files, MakeOverlay
  <2>3. Mine(p) = ActiveSession /\ ActiveSession # 0 /\ MyKind(p) = "pentest"
    BY <1>0, <1>6 DEF MakeOverlay, SessionInv, CommandOfActive, WorkSteps, PentestSteps
  <2>4. command[p].at \in WorkSteps /\ command'[p].at # "confirm"
    BY <1>0, <1>o, <1>s, <1>6, <2>1, <2>2, <2>3
    DEF MakeOverlay, WorkSteps, PentestSteps, SharedSteps
  <2>5. command'[p].at \in PentestSteps => MyKind(p) = "pentest"
    BY <1>0, <1>o, <1>s, <1>6, <2>1, <2>2, <2>3 DEF MakeOverlay, PentestSteps
  <2>6. command'[p].at \in LabSteps \cup ExportSteps => MyKind(p) \in Guests
    BY <1>0, <1>o, <1>s, <1>6, <2>1, <2>2, <2>3 DEF MakeOverlay, LabSteps, ExportSteps
  <2>7. CommandOfActive'
    BY <1>0, <1>o, <1>s, <1>6, <2>1, <2>2, <2>3, <2>4, <2>5, <2>6, StaysOfActive
    DEF MakeOverlay, SessionInv
  <2>8. GuestsOfActive'
    BY <1>0, <1>o, <1>s, <1>6, <2>1, <2>2, <2>3 DEF MakeOverlay, SessionInv, GuestsOfActive
  <2>9. WrittenForMine'
    BY <1>0, <1>o, <1>s, <1>6, <2>1, <2>2, <2>3
    DEF MakeOverlay, SessionInv, WrittenForMine, AfterGuest
  <2>10. DoneBeforeRemoval'
    BY <1>0, <1>o, <1>s, <1>6, <2>1, <2>2, <2>3 DEF MakeOverlay, SessionInv, DoneBeforeRemoval
  <2>11. ExportSees'
    BY <1>0, <1>o, <1>s, <1>6, <2>1, <2>2, <2>3 DEF MakeOverlay, SessionInv, ExportSees
  <2>12. VmIsFresh'
    BY <1>0, <1>o, <1>s, <1>6, <2>1, <2>2, <2>3 DEF MakeOverlay, SessionInv, VmIsFresh
  <2>13. ExportIsAsConfirmed'
    BY <1>0, <1>o, <1>s, <1>6, <2>1, <2>2, <2>3 DEF MakeOverlay, SessionInv, ExportIsAsConfirmed
  <2> QED BY <2>7, <2>8, <2>9, <2>10, <2>11, <2>12, <2>13 DEF SessionInv
<1>7. CASE LinkProject(p)
  <2>1. command'[p].at = "drop" /\ command'[p].session = command[p].session
        /\ command'[p].listed = command[p].listed /\ command'[p].copied = command[p].copied
    BY <1>0, <1>7, MovesTo DEF LinkProject, Steps
  <2>2. files'["project"] = Mine(p) /\ files'["session"] = files["session"] /\ files'["guest"] = files["guest"] /\ files'["token"] = files["token"] /\ files'["overlay"] = files["overlay"]
    BY <1>0, <1>7 DEF Write, TypeOK, Files, LinkProject
  <2>3. Mine(p) = ActiveSession /\ ActiveSession # 0 /\ MyKind(p) = "pentest"
    BY <1>0, <1>7 DEF LinkProject, SessionInv, CommandOfActive, WorkSteps, PentestSteps
  <2>4. command[p].at \in WorkSteps /\ command'[p].at # "confirm"
    BY <1>0, <1>o, <1>s, <1>7, <2>1, <2>2, <2>3
    DEF LinkProject, WorkSteps, PentestSteps, SharedSteps
  <2>5. command'[p].at \in PentestSteps => MyKind(p) = "pentest"
    BY <1>0, <1>o, <1>s, <1>7, <2>1, <2>2, <2>3 DEF LinkProject, PentestSteps
  <2>6. command'[p].at \in LabSteps \cup ExportSteps => MyKind(p) \in Guests
    BY <1>0, <1>o, <1>s, <1>7, <2>1, <2>2, <2>3 DEF LinkProject, LabSteps, ExportSteps
  <2>7. CommandOfActive'
    BY <1>0, <1>o, <1>s, <1>7, <2>1, <2>2, <2>3, <2>4, <2>5, <2>6, StaysOfActive
    DEF LinkProject, SessionInv
  <2>8. GuestsOfActive'
    BY <1>0, <1>o, <1>s, <1>7, <2>1, <2>2, <2>3 DEF LinkProject, SessionInv, GuestsOfActive
  <2>9. WrittenForMine'
    BY <1>0, <1>o, <1>s, <1>7, <2>1, <2>2, <2>3
    DEF LinkProject, SessionInv, WrittenForMine, AfterGuest
  <2>10. DoneBeforeRemoval'
    BY <1>0, <1>o, <1>s, <1>7, <2>1, <2>2, <2>3 DEF LinkProject, SessionInv, DoneBeforeRemoval
  <2>11. ExportSees'
    BY <1>0, <1>o, <1>s, <1>7, <2>1, <2>2, <2>3 DEF LinkProject, SessionInv, ExportSees
  <2>12. VmIsFresh'
    BY <1>0, <1>o, <1>s, <1>7, <2>1, <2>2, <2>3 DEF LinkProject, SessionInv, VmIsFresh
  <2>13. ExportIsAsConfirmed'
    BY <1>0, <1>o, <1>s, <1>7, <2>1, <2>2, <2>3 DEF LinkProject, SessionInv, ExportIsAsConfirmed
  <2> QED BY <2>7, <2>8, <2>9, <2>10, <2>11, <2>12, <2>13 DEF SessionInv
<1>8. CASE LoadTables(p)
  <2>1. command'[p].at = "units" /\ command'[p].session = command[p].session
        /\ command'[p].listed = command[p].listed /\ command'[p].copied = command[p].copied
    BY <1>0, <1>8, MovesTo DEF LoadTables, Steps
  <2>2. CommandOfActive'
    BY ZenonT(40), <1>0, <1>o, <1>s, <1>8, <2>1
    DEF LoadTables, SessionInv, CommandOfActive, WorkSteps, PentestSteps, LabSteps, ExportSteps,
        SharedSteps, Kinds, Guests
  <2>3. GuestsOfActive'
    BY ZenonT(40), <1>0, <1>o, <1>s, <1>8, <2>1
    DEF LoadTables, SessionInv, GuestsOfActive, CommandOfActive, WorkSteps, PentestSteps,
        LabSteps, ExportSteps, SharedSteps, Kinds, Guests
  <2>4. WrittenForMine'
    BY <1>0, <1>o, <1>s, <1>8, <2>1 DEF LoadTables, SessionInv, WrittenForMine, AfterGuest
  <2>5. DoneBeforeRemoval'
    BY <1>0, <1>o, <1>s, <1>8, <2>1 DEF LoadTables, SessionInv, DoneBeforeRemoval
  <2>6. ExportSees' BY <1>0, <1>o, <1>s, <1>8, <2>1 DEF LoadTables, SessionInv, ExportSees
  <2>7. VmIsFresh' BY <1>0, <1>o, <1>s, <1>8, <2>1 DEF LoadTables, SessionInv, VmIsFresh
  <2>8. ExportIsAsConfirmed'
    BY <1>0, <1>o, <1>s, <1>8, <2>1 DEF LoadTables, SessionInv, ExportIsAsConfirmed
  <2> QED BY <2>2, <2>3, <2>4, <2>5, <2>6, <2>7, <2>8 DEF SessionInv
<1>9. CASE StartUnits(p)
  <2>1. command'[p] = Idle BY <1>0, <1>9, LeavesAlone DEF StartUnits
  <2>2. command'[p].at = "idle" /\ command'[p].session = 0 BY <1>0, <1>9, <2>1 DEF Idle
  <2>3. CommandOfActive'
    BY ZenonT(40), <1>0, <1>o, <1>s, <1>9, <2>1, <2>2
    DEF StartUnits, Boot, NoVm, SessionInv, CommandOfActive, WorkSteps, PentestSteps, LabSteps,
        ExportSteps, SharedSteps, Kinds, Guests
  <2>4. GuestsOfActive'
    BY ZenonT(40), <1>0, <1>o, <1>s, <1>9, <2>1, <2>2
    DEF StartUnits, Boot, NoVm, SessionInv, GuestsOfActive, CommandOfActive, WrittenForMine,
        AfterGuest, DoneBeforeRemoval, WorkSteps, PentestSteps, LabSteps, ExportSteps,
        SharedSteps, Kinds, Guests
  <2>5. WrittenForMine'
    BY <1>0, <1>o, <1>s, <1>9, <2>1, <2>2
    DEF StartUnits, Boot, NoVm, SessionInv, WrittenForMine, AfterGuest
  <2>6. DoneBeforeRemoval'
    BY <1>0, <1>o, <1>s, <1>9, <2>1, <2>2
    DEF StartUnits, Boot, NoVm, SessionInv, DoneBeforeRemoval
  <2>7. ExportSees'
    BY <1>0, <1>o, <1>s, <1>9, <2>1, <2>2 DEF StartUnits, Boot, NoVm, SessionInv, ExportSees
  <2>8. VmIsFresh'
    BY ZenonT(40), <1>0, <1>o, <1>s, <1>9, <2>1, <2>2
    DEF StartUnits, Boot, NoVm, SessionInv, VmIsFresh, CommandOfActive, WrittenForMine,
        AfterGuest, GuestsOfActive, DoneBeforeRemoval, WorkSteps, PentestSteps, LabSteps,
        ExportSteps, SharedSteps, Kinds, Guests
  <2>9. ExportIsAsConfirmed'
    BY <1>0, <1>o, <1>s, <1>9, <2>1, <2>2
    DEF StartUnits, Boot, NoVm, SessionInv, ExportIsAsConfirmed
  <2> QED BY <2>3, <2>4, <2>5, <2>6, <2>7, <2>8, <2>9 DEF SessionInv
<1>10. CASE MakeLabDir(p)
  <2>1. command'[p].at = "scratch" /\ command'[p].session = command[p].session
        /\ command'[p].listed = command[p].listed /\ command'[p].copied = command[p].copied
    BY <1>0, <1>10, MovesTo DEF MakeLabDir, Steps
  <2>2. CommandOfActive'
    BY ZenonT(40), <1>0, <1>o, <1>s, <1>10, <2>1
    DEF MakeLabDir, SessionInv, CommandOfActive, WorkSteps, PentestSteps, LabSteps, ExportSteps,
        SharedSteps, Kinds, Guests
  <2>3. GuestsOfActive'
    BY <1>0, <1>o, <1>s, <1>10, <2>1 DEF MakeLabDir, SessionInv, GuestsOfActive
  <2>4. WrittenForMine'
    BY <1>0, <1>o, <1>s, <1>10, <2>1 DEF MakeLabDir, SessionInv, WrittenForMine, AfterGuest
  <2>5. DoneBeforeRemoval'
    BY <1>0, <1>o, <1>s, <1>10, <2>1 DEF MakeLabDir, SessionInv, DoneBeforeRemoval
  <2>6. ExportSees' BY <1>0, <1>o, <1>s, <1>10, <2>1 DEF MakeLabDir, SessionInv, ExportSees
  <2>7. VmIsFresh' BY <1>0, <1>o, <1>s, <1>10, <2>1 DEF MakeLabDir, SessionInv, VmIsFresh
  <2>8. ExportIsAsConfirmed'
    BY <1>0, <1>o, <1>s, <1>10, <2>1 DEF MakeLabDir, SessionInv, ExportIsAsConfirmed
  <2> QED BY <2>2, <2>3, <2>4, <2>5, <2>6, <2>7, <2>8 DEF SessionInv
<1>11. CASE MakeScratch(p)
  <2>1. command'[p].at \in {"tap", "current"} /\ command'[p].session = command[p].session
        /\ command'[p].listed = command[p].listed /\ command'[p].copied = command[p].copied
    BY <1>0, <1>11, MovesTo DEF MakeScratch, Steps
  <2>2. CommandOfActive'
    BY ZenonT(40), <1>0, <1>o, <1>s, <1>11, <2>1
    DEF MakeScratch, SessionInv, CommandOfActive, WorkSteps, PentestSteps, LabSteps,
        ExportSteps, SharedSteps, Kinds, Guests
  <2>3. GuestsOfActive'
    BY <1>0, <1>o, <1>s, <1>11, <2>1 DEF MakeScratch, SessionInv, GuestsOfActive
  <2>4. WrittenForMine'
    BY <1>0, <1>o, <1>s, <1>11, <2>1 DEF MakeScratch, SessionInv, WrittenForMine, AfterGuest
  <2>5. DoneBeforeRemoval'
    BY <1>0, <1>o, <1>s, <1>11, <2>1 DEF MakeScratch, SessionInv, DoneBeforeRemoval
  <2>6. ExportSees' BY <1>0, <1>o, <1>s, <1>11, <2>1 DEF MakeScratch, SessionInv, ExportSees
  <2>7. VmIsFresh' BY <1>0, <1>o, <1>s, <1>11, <2>1 DEF MakeScratch, SessionInv, VmIsFresh
  <2>8. ExportIsAsConfirmed'
    BY <1>0, <1>o, <1>s, <1>11, <2>1 DEF MakeScratch, SessionInv, ExportIsAsConfirmed
  <2> QED BY <2>2, <2>3, <2>4, <2>5, <2>6, <2>7, <2>8 DEF SessionInv
<1>12. CASE AddTap(p)
  <2>1. command'[p].at = "current" /\ command'[p].session = command[p].session
        /\ command'[p].listed = command[p].listed /\ command'[p].copied = command[p].copied
    BY <1>0, <1>12, MovesTo DEF AddTap, Steps
  <2>2. CommandOfActive'
    BY ZenonT(40), <1>0, <1>o, <1>s, <1>12, <2>1
    DEF AddTap, SessionInv, CommandOfActive, WorkSteps, PentestSteps, LabSteps, ExportSteps,
        SharedSteps, Kinds, Guests
  <2>3. GuestsOfActive' BY <1>0, <1>o, <1>s, <1>12, <2>1 DEF AddTap, SessionInv, GuestsOfActive
  <2>4. WrittenForMine'
    BY <1>0, <1>o, <1>s, <1>12, <2>1 DEF AddTap, SessionInv, WrittenForMine, AfterGuest
  <2>5. DoneBeforeRemoval'
    BY <1>0, <1>o, <1>s, <1>12, <2>1 DEF AddTap, SessionInv, DoneBeforeRemoval
  <2>6. ExportSees' BY <1>0, <1>o, <1>s, <1>12, <2>1 DEF AddTap, SessionInv, ExportSees
  <2>7. VmIsFresh' BY <1>0, <1>o, <1>s, <1>12, <2>1 DEF AddTap, SessionInv, VmIsFresh
  <2>8. ExportIsAsConfirmed'
    BY <1>0, <1>o, <1>s, <1>12, <2>1 DEF AddTap, SessionInv, ExportIsAsConfirmed
  <2> QED BY <2>2, <2>3, <2>4, <2>5, <2>6, <2>7, <2>8 DEF SessionInv
<1>13. CASE ReplaceCurrent(p)
  <2>1. command'[p].at = "start lab" /\ command'[p].session = command[p].session
        /\ command'[p].listed = command[p].listed /\ command'[p].copied = command[p].copied
    BY <1>0, <1>13, MovesTo DEF ReplaceCurrent, Steps
  <2>2. CommandOfActive'
    BY ZenonT(40), <1>0, <1>o, <1>s, <1>13, <2>1
    DEF ReplaceCurrent, SessionInv, CommandOfActive, WorkSteps, PentestSteps, LabSteps,
        ExportSteps, SharedSteps, Kinds, Guests
  <2>3. GuestsOfActive'
    BY <1>0, <1>o, <1>s, <1>13, <2>1 DEF ReplaceCurrent, SessionInv, GuestsOfActive
  <2>4. WrittenForMine'
    BY ZenonT(40), <1>0, <1>o, <1>s, <1>13, <2>1
    DEF ReplaceCurrent, SessionInv, WrittenForMine, AfterGuest, CommandOfActive, WorkSteps,
        PentestSteps, LabSteps, ExportSteps, SharedSteps, Kinds, Guests
  <2>5. DoneBeforeRemoval'
    BY <1>0, <1>o, <1>s, <1>13, <2>1 DEF ReplaceCurrent, SessionInv, DoneBeforeRemoval
  <2>6. ExportSees' BY <1>0, <1>o, <1>s, <1>13, <2>1 DEF ReplaceCurrent, SessionInv, ExportSees
  <2>7. VmIsFresh' BY <1>0, <1>o, <1>s, <1>13, <2>1 DEF ReplaceCurrent, SessionInv, VmIsFresh
  <2>8. ExportIsAsConfirmed'
    BY <1>0, <1>o, <1>s, <1>13, <2>1 DEF ReplaceCurrent, SessionInv, ExportIsAsConfirmed
  <2> QED BY <2>2, <2>3, <2>4, <2>5, <2>6, <2>7, <2>8 DEF SessionInv
<1>14. CASE StartLab(p)
  <2>1. command'[p] = Idle BY <1>0, <1>14, LeavesAlone DEF StartLab
  <2>2. command'[p].at = "idle" /\ command'[p].session = 0 BY <1>0, <1>14, <2>1 DEF Idle
  <2>3. CommandOfActive'
    BY ZenonT(40), <1>0, <1>o, <1>s, <1>14, <2>1, <2>2
    DEF StartLab, SessionInv, CommandOfActive, WorkSteps, PentestSteps, LabSteps, ExportSteps,
        SharedSteps, Kinds, Guests
  <2>4. GuestsOfActive'
    BY ZenonT(40), <1>0, <1>o, <1>s, <1>14, <2>1, <2>2
    DEF StartLab, SessionInv, GuestsOfActive, CommandOfActive, WrittenForMine, AfterGuest,
        DoneBeforeRemoval, WorkSteps, PentestSteps, LabSteps, ExportSteps, SharedSteps, Kinds,
        Guests
  <2>5. WrittenForMine'
    BY <1>0, <1>o, <1>s, <1>14, <2>1, <2>2 DEF StartLab, SessionInv, WrittenForMine, AfterGuest
  <2>6. DoneBeforeRemoval'
    BY <1>0, <1>o, <1>s, <1>14, <2>1, <2>2 DEF StartLab, SessionInv, DoneBeforeRemoval
  <2>7. ExportSees' BY <1>0, <1>o, <1>s, <1>14, <2>1, <2>2 DEF StartLab, SessionInv, ExportSees
  <2>8. VmIsFresh' BY <1>0, <1>o, <1>s, <1>14, <2>1, <2>2 DEF StartLab, SessionInv, VmIsFresh
  <2>9. ExportIsAsConfirmed'
    BY <1>0, <1>o, <1>s, <1>14, <2>1, <2>2 DEF StartLab, SessionInv, ExportIsAsConfirmed
  <2> QED BY <2>3, <2>4, <2>5, <2>6, <2>7, <2>8, <2>9 DEF SessionInv
<1>15. ASSUME NEW k \in Kinds, NewSession(p, k) PROVE SessionInv'
  <2>1. PICK s \in Sessions : /\ kind' = [kind EXCEPT ![s] = k]
                              /\ files' = [files EXCEPT !["session"] = s]
                              /\ command' = [command EXCEPT ![p].at = "guest", ![p].session = s]
    BY <1>15 DEF NewSession
  <2>2. files'["session"] = s /\ s # 0 /\ kind'[s] = k /\ files'["token"] = files["token"]
    BY <1>0, <2>1, SessionIds DEF TypeOK, Files
  <2>3. command'[p].at = "guest" /\ command'[p].session = s BY <1>0, <2>1 DEF TypeOK
  <2>4. LeftVm /\ LeftLab /\ tables = {}
    <3>1. files["session"] = 0 BY <1>15, <1>0 DEF NewSession, SessionInv, CommandOfActive
    <3>2. 0 \notin Sessions BY SessionIds
    <3> QED BY <1>0, <3>1, <3>2 DEF SessionInv, GuestsOfActive, TypeOK
  <2>5. UNCHANGED <<tables, vm, lab, results, exports, abandoned>> BY <1>15 DEF NewSession
  <2>6. CommandOfActive'
    BY ZenonT(40), <1>o, <2>2, <2>3
    DEF CommandOfActive, WorkSteps, PentestSteps, LabSteps, ExportSteps, SharedSteps
  <2>7. GuestsOfActive' BY <2>4, <2>5 DEF GuestsOfActive
  <2>8. WrittenForMine' BY <1>o, <2>3 DEF WrittenForMine, AfterGuest
  <2>9. DoneBeforeRemoval' BY <1>o, <2>3 DEF DoneBeforeRemoval
  <2>10. ExportSees' BY <1>o, <2>3 DEF ExportSees
  <2>11. VmIsFresh' BY <1>0, <2>2, <2>5 DEF SessionInv, VmIsFresh
  <2>12. ExportIsAsConfirmed' BY <1>0, <2>5 DEF SessionInv, ExportIsAsConfirmed
  <2> QED BY <2>6, <2>7, <2>8, <2>9, <2>10, <2>11, <2>12 DEF SessionInv
<1> QED
  BY <1>1, <1>2, <1>3, <1>4, <1>5, <1>6, <1>7, <1>8, <1>9, <1>10, <1>11, <1>12, <1>13, <1>14,
      <1>15
  DEF Start, ConfirmPentest, ConfirmMalware, Kinds

(* The except clause turns off what is on, or the history says that it is left. *)
LEMMA UndoOwns ==
    ASSUME HostSessionAssumption, OneOperator, HostInv, TypeInv', NEW p \in Terminals, Undo(p)
    PROVE  SessionInv'
<1>0. TypeInv /\ TypeOK /\ SessionInv BY DEF HostInv, TypeInv
<1>o. \A q \in Terminals : q = p BY DEF OneOperator
<1>s. command[p].at \in WorkSteps => Mine(p) \in Sessions BY <1>0 DEF TypeInv, CommandHasSession
<1> USE DEF At, Mine, MyKind, runVars, diskVars, UnitVars, LabVars, ActiveSession, LeftVm, LeftLab
<1>1. CASE Fails(p)
  <2>1. Leaves(p) => command'[p].at = "idle" BY <1>0, <1>1, LeavesAlone DEF Idle
  <2>2. Moves(p, "undo units") => command'[p].at = "undo units" /\ command'[p].session = command[p].session
    BY <1>0, <1>1, MovesTo DEF Steps
  <2>3. Moves(p, "undo lab") => command'[p].at = "undo lab" /\ command'[p].session = command[p].session
    BY <1>0, <1>1, MovesTo DEF Steps
  <2>4. command'[p].at \in {"idle", "undo units", "undo lab"}
    BY <1>0, <1>1, <2>1, <2>2, <2>3 DEF Fails
  <2>5. command'[p].at = "idle" \/ command'[p].session = command[p].session
    BY <1>0, <1>1, <2>1, <2>2, <2>3 DEF Fails
  <2>6. command'[p].at = "undo units" => MyKind(p) = "pentest"
    BY <1>0, <1>1, <2>1, <2>2, <2>3 DEF Fails
  <2>7. command'[p].at = "undo lab" => command[p].at \in LabSteps
    BY <1>0, <1>1, <2>1, <2>2, <2>3 DEF Fails, LabSteps
  <2>8. CommandOfActive'
    BY ZenonT(40), <1>0, <1>o, <1>s, <1>1, <2>1, <2>2, <2>3, <2>4, <2>5, <2>6, <2>7
    DEF Fails, SessionInv, CommandOfActive, WorkSteps, PentestSteps, LabSteps, ExportSteps,
        SharedSteps, Kinds, Guests
  <2>9. GuestsOfActive'
    BY <1>0, <1>o, <1>s, <1>1, <2>1, <2>2, <2>3, <2>4, <2>5, <2>6, <2>7
    DEF Fails, SessionInv, GuestsOfActive
  <2>10. WrittenForMine'
    BY <1>0, <1>o, <1>s, <1>1, <2>1, <2>2, <2>3, <2>4, <2>5, <2>6, <2>7
    DEF Fails, SessionInv, WrittenForMine, AfterGuest
  <2>11. DoneBeforeRemoval'
    BY <1>0, <1>o, <1>s, <1>1, <2>1, <2>2, <2>3, <2>4, <2>5, <2>6, <2>7
    DEF Fails, SessionInv, DoneBeforeRemoval
  <2>12. ExportSees'
    BY <1>0, <1>o, <1>s, <1>1, <2>1, <2>2, <2>3, <2>4, <2>5, <2>6, <2>7
    DEF Fails, SessionInv, ExportSees
  <2>13. VmIsFresh'
    BY <1>0, <1>o, <1>s, <1>1, <2>1, <2>2, <2>3, <2>4, <2>5, <2>6, <2>7
    DEF Fails, SessionInv, VmIsFresh
  <2>14. ExportIsAsConfirmed'
    BY <1>0, <1>o, <1>s, <1>1, <2>1, <2>2, <2>3, <2>4, <2>5, <2>6, <2>7
    DEF Fails, SessionInv, ExportIsAsConfirmed
  <2> QED BY <2>8, <2>9, <2>10, <2>11, <2>12, <2>13, <2>14 DEF SessionInv
<1>2. CASE StartUnitsFails(p)
  <2>1. command'[p].at = "undo units" /\ command'[p].session = command[p].session
        /\ command'[p].listed = command[p].listed /\ command'[p].copied = command[p].copied
    BY <1>0, <1>2, MovesTo DEF StartUnitsFails, Steps
  <2>2. Mine(p) = ActiveSession /\ ActiveSession # 0 /\ MyKind(p) = "pentest"
    BY <1>0, <1>2 DEF StartUnitsFails, SessionInv, CommandOfActive, WorkSteps, PentestSteps
  <2>3. files["guest"] = ActiveSession /\ files["token"] = ActiveSession /\ files["overlay"] = ActiveSession
    BY <1>0, <1>2 DEF StartUnitsFails, SessionInv, WrittenForMine, AfterGuest
  <2>4. vm' = vm \/ vm' = [session |-> ActiveSession, overlay |-> ActiveSession]
    BY <1>0, <1>2, <2>3 DEF StartUnitsFails, Boot
  <2>5. vm' = vm \/ (vm'.session = ActiveSession /\ vm'.overlay = ActiveSession)
    BY <1>0, <1>2, <2>4
  <2>6. CommandOfActive'
    BY ZenonT(40), <1>0, <1>o, <1>s, <1>2, <2>1, <2>2, <2>3, <2>4, <2>5
    DEF StartUnitsFails, SessionInv, CommandOfActive, WorkSteps, PentestSteps, LabSteps,
        ExportSteps, SharedSteps, Kinds, Guests
  <2>7. GuestsOfActive'
    BY <1>0, <1>o, <1>s, <1>2, <2>1, <2>2, <2>3, <2>4, <2>5
    DEF StartUnitsFails, SessionInv, GuestsOfActive
  <2>8. WrittenForMine'
    BY <1>0, <1>o, <1>s, <1>2, <2>1, <2>2, <2>3, <2>4, <2>5
    DEF StartUnitsFails, SessionInv, WrittenForMine, AfterGuest
  <2>9. DoneBeforeRemoval'
    BY <1>0, <1>o, <1>s, <1>2, <2>1, <2>2, <2>3, <2>4, <2>5
    DEF StartUnitsFails, SessionInv, DoneBeforeRemoval
  <2>10. ExportSees'
    BY <1>0, <1>o, <1>s, <1>2, <2>1, <2>2, <2>3, <2>4, <2>5
    DEF StartUnitsFails, SessionInv, ExportSees
  <2>11. VmIsFresh'
    BY <1>0, <1>o, <1>s, <1>2, <2>1, <2>2, <2>3, <2>4, <2>5
    DEF StartUnitsFails, SessionInv, VmIsFresh
  <2>12. ExportIsAsConfirmed'
    BY <1>0, <1>o, <1>s, <1>2, <2>1, <2>2, <2>3, <2>4, <2>5
    DEF StartUnitsFails, SessionInv, ExportIsAsConfirmed
  <2> QED BY <2>6, <2>7, <2>8, <2>9, <2>10, <2>11, <2>12 DEF SessionInv
<1>3. CASE UndoUnits(p)
  <2>1. command'[p].at = "undo tables" /\ command'[p].session = command[p].session
        /\ command'[p].listed = command[p].listed /\ command'[p].copied = command[p].copied
    BY <1>0, <1>3, MovesTo DEF UndoUnits, Steps
  <2>2. vm.session \in Nat
    BY <1>0, <1>3, HostSessionAssumption DEF TypeOK, Ids, HostSessionAssumption
  <2>3. vm' = NoVm => LeftVm' BY <1>0, <1>3 DEF NoVm
  <2>4. LeftVm' BY <1>0, <1>3, <2>3 DEF UndoUnits
  <2>5. abandoned \subseteq abandoned' /\ (vm' = NoVm \/ vm' = vm) BY <1>0, <1>3 DEF UndoUnits
  <2>6. CommandOfActive'
    BY ZenonT(40), <1>0, <1>o, <1>s, <1>3, <2>1, <2>2, <2>3, <2>4, <2>5
    DEF UndoUnits, NoVm, SessionInv, CommandOfActive, WorkSteps, PentestSteps, LabSteps,
        ExportSteps, SharedSteps, Kinds, Guests
  <2>7. GuestsOfActive'
    BY <1>0, <1>o, <1>s, <1>3, <2>1, <2>2, <2>3, <2>4, <2>5
    DEF UndoUnits, NoVm, SessionInv, GuestsOfActive
  <2>8. WrittenForMine'
    BY <1>0, <1>o, <1>s, <1>3, <2>1, <2>2, <2>3, <2>4, <2>5
    DEF UndoUnits, NoVm, SessionInv, WrittenForMine, AfterGuest
  <2>9. DoneBeforeRemoval'
    BY <1>0, <1>o, <1>s, <1>3, <2>1, <2>2, <2>3, <2>4, <2>5
    DEF UndoUnits, NoVm, SessionInv, DoneBeforeRemoval
  <2>10. ExportSees'
    BY <1>0, <1>o, <1>s, <1>3, <2>1, <2>2, <2>3, <2>4, <2>5
    DEF UndoUnits, NoVm, SessionInv, ExportSees
  <2>11. VmIsFresh'
    BY <1>0, <1>o, <1>s, <1>3, <2>1, <2>2, <2>3, <2>4, <2>5
    DEF UndoUnits, NoVm, SessionInv, VmIsFresh
  <2>12. ExportIsAsConfirmed'
    BY <1>0, <1>o, <1>s, <1>3, <2>1, <2>2, <2>3, <2>4, <2>5
    DEF UndoUnits, NoVm, SessionInv, ExportIsAsConfirmed
  <2> QED BY <2>6, <2>7, <2>8, <2>9, <2>10, <2>11, <2>12 DEF SessionInv
<1>4. CASE UndoLab(p)
  <2>1. command'[p].at = "undo cleanup" /\ command'[p].session = command[p].session
        /\ command'[p].listed = command[p].listed /\ command'[p].copied = command[p].copied
    BY <1>0, <1>4, MovesTo DEF UndoLab, Steps
  <2>2. CommandOfActive'
    BY ZenonT(40), <1>0, <1>o, <1>s, <1>4, <2>1
    DEF UndoLab, StopLabUnit, Cleanup, SessionInv, CommandOfActive, WorkSteps, PentestSteps,
        LabSteps, ExportSteps, SharedSteps, Kinds, Guests
  <2>3. GuestsOfActive'
    BY <1>0, <1>o, <1>s, <1>4, <2>1 DEF UndoLab, StopLabUnit, Cleanup, SessionInv, GuestsOfActive
  <2>4. WrittenForMine'
    BY <1>0, <1>o, <1>s, <1>4, <2>1
    DEF UndoLab, StopLabUnit, Cleanup, SessionInv, WrittenForMine, AfterGuest
  <2>5. DoneBeforeRemoval'
    BY ZenonT(40), <1>0, <1>o, <1>s, <1>4, <2>1
    DEF UndoLab, StopLabUnit, Cleanup, SessionInv, DoneBeforeRemoval, CommandOfActive,
        GuestsOfActive, WorkSteps, PentestSteps, LabSteps, ExportSteps, SharedSteps, Kinds, Guests
  <2>6. ExportSees'
    BY <1>0, <1>o, <1>s, <1>4, <2>1 DEF UndoLab, StopLabUnit, Cleanup, SessionInv, ExportSees
  <2>7. VmIsFresh'
    BY <1>0, <1>o, <1>s, <1>4, <2>1 DEF UndoLab, StopLabUnit, Cleanup, SessionInv, VmIsFresh
  <2>8. ExportIsAsConfirmed'
    BY <1>0, <1>o, <1>s, <1>4, <2>1
    DEF UndoLab, StopLabUnit, Cleanup, SessionInv, ExportIsAsConfirmed
  <2> QED BY <2>2, <2>3, <2>4, <2>5, <2>6, <2>7, <2>8 DEF SessionInv
<1>5. CASE UndoCleanup(p)
  <2>1. command'[p].at = "undo scratch" /\ command'[p].session = command[p].session
        /\ command'[p].listed = command[p].listed /\ command'[p].copied = command[p].copied
    BY <1>0, <1>5, MovesTo DEF UndoCleanup, Steps
  <2>2. CommandOfActive'
    BY ZenonT(40), <1>0, <1>o, <1>s, <1>5, <2>1
    DEF UndoCleanup, Cleanup, SessionInv, CommandOfActive, WorkSteps, PentestSteps, LabSteps,
        ExportSteps, SharedSteps, Kinds, Guests
  <2>3. GuestsOfActive'
    BY <1>0, <1>o, <1>s, <1>5, <2>1 DEF UndoCleanup, Cleanup, SessionInv, GuestsOfActive
  <2>4. WrittenForMine'
    BY <1>0, <1>o, <1>s, <1>5, <2>1
    DEF UndoCleanup, Cleanup, SessionInv, WrittenForMine, AfterGuest
  <2>5. DoneBeforeRemoval'
    BY <1>0, <1>o, <1>s, <1>5, <2>1 DEF UndoCleanup, Cleanup, SessionInv, DoneBeforeRemoval
  <2>6. ExportSees'
    BY <1>0, <1>o, <1>s, <1>5, <2>1 DEF UndoCleanup, Cleanup, SessionInv, ExportSees
  <2>7. VmIsFresh'
    BY <1>0, <1>o, <1>s, <1>5, <2>1 DEF UndoCleanup, Cleanup, SessionInv, VmIsFresh
  <2>8. ExportIsAsConfirmed'
    BY <1>0, <1>o, <1>s, <1>5, <2>1 DEF UndoCleanup, Cleanup, SessionInv, ExportIsAsConfirmed
  <2> QED BY <2>2, <2>3, <2>4, <2>5, <2>6, <2>7, <2>8 DEF SessionInv
<1> QED BY <1>1, <1>2, <1>3, <1>4, <1>5 DEF Undo

(* A stop removes the files only when nothing is on.                            *)
LEMMA StopOwns ==
    ASSUME HostSessionAssumption, OneOperator, HostInv, TypeInv', NEW p \in Terminals, Stop(p) \/ Ends(p)
    PROVE  SessionInv'
<1>0. TypeInv /\ TypeOK /\ SessionInv BY DEF HostInv, TypeInv
<1>o. \A q \in Terminals : q = p BY DEF OneOperator
<1>s. command[p].at \in WorkSteps => Mine(p) \in Sessions BY <1>0 DEF TypeInv, CommandHasSession
<1> USE DEF At, Mine, MyKind, runVars, diskVars, UnitVars, LabVars, ActiveSession, LeftVm, LeftLab
<1>1. CASE StopUnits(p)
  <2>1. Leaves(p) => command'[p].at = "idle" BY <1>0, <1>1, LeavesAlone DEF Idle
  <2>2. Moves(p, "stop tables") => command'[p].at = "stop tables" /\ command'[p].session = command[p].session
    BY <1>0, <1>1, MovesTo DEF Steps
  <2>3. command'[p].at \in {"idle", "stop tables"} BY <1>0, <1>1, <2>1, <2>2 DEF StopUnits
  <2>4. command'[p].at = "idle" \/ (command'[p].session = command[p].session /\ vm' = NoVm)
    BY <1>0, <1>1, <2>1, <2>2 DEF StopUnits
  <2>5. NoVm.session = 0 BY <1>0, <1>1 DEF NoVm
  <2>6. vm' = vm \/ vm' = NoVm BY <1>0, <1>1 DEF StopUnits
  <2>7. vm'.session = vm.session \/ vm'.session = 0 BY <1>0, <1>1, <2>5, <2>6
  <2>8. command'[p].at = "stop tables" => vm'.session = 0
    BY <1>0, <1>1, <2>2, <2>4, <2>5, WorkIsStep DEF WorkSteps, PentestSteps
  <2>9. CommandOfActive'
    BY ZenonT(40), <1>0, <1>o, <1>s, <1>1, <2>1, <2>2, <2>3, <2>4, <2>5, <2>6, <2>7, <2>8
    DEF StopUnits, SessionInv, CommandOfActive, WorkSteps, PentestSteps, LabSteps, ExportSteps,
        SharedSteps, Kinds, Guests
  <2>10. GuestsOfActive'
    BY <1>0, <1>o, <1>s, <1>1, <2>1, <2>2, <2>3, <2>4, <2>5, <2>6, <2>7, <2>8
    DEF StopUnits, SessionInv, GuestsOfActive
  <2>11. WrittenForMine'
    BY <1>0, <1>o, <1>s, <1>1, <2>1, <2>2, <2>3, <2>4, <2>5, <2>6, <2>7, <2>8
    DEF StopUnits, SessionInv, WrittenForMine, AfterGuest
  <2>12. DoneBeforeRemoval'
    BY <1>0, <1>o, <1>s, <1>1, <2>1, <2>2, <2>3, <2>4, <2>5, <2>6, <2>7, <2>8
    DEF StopUnits, SessionInv, DoneBeforeRemoval
  <2>13. ExportSees'
    BY <1>0, <1>o, <1>s, <1>1, <2>1, <2>2, <2>3, <2>4, <2>5, <2>6, <2>7, <2>8
    DEF StopUnits, SessionInv, ExportSees
  <2>14. VmIsFresh'
    BY <1>0, <1>o, <1>s, <1>1, <2>1, <2>2, <2>3, <2>4, <2>5, <2>6, <2>7, <2>8
    DEF StopUnits, SessionInv, VmIsFresh
  <2>15. ExportIsAsConfirmed'
    BY <1>0, <1>o, <1>s, <1>1, <2>1, <2>2, <2>3, <2>4, <2>5, <2>6, <2>7, <2>8
    DEF StopUnits, SessionInv, ExportIsAsConfirmed
  <2> QED BY <2>9, <2>10, <2>11, <2>12, <2>13, <2>14, <2>15 DEF SessionInv
<1>2. CASE StopLab(p)
  <2>1. Leaves(p) => command'[p].at = "idle" BY <1>0, <1>2, LeavesAlone DEF Idle
  <2>2. Moves(p, "stop scratch") => command'[p].at = "stop scratch" /\ command'[p].session = command[p].session
    BY <1>0, <1>2, MovesTo DEF Steps
  <2>3. command'[p].at \in {"idle", "stop scratch"} BY <1>0, <1>2, <2>1, <2>2 DEF StopLab
  <2>4. command'[p].at = "idle" \/ (command'[p].session = command[p].session /\ StopLabUnit(MyKind(p)))
    BY <1>0, <1>2, <2>1, <2>2 DEF StopLab
  <2>5. CommandOfActive'
    BY ZenonT(40), <1>0, <1>o, <1>s, <1>2, <2>1, <2>2, <2>3, <2>4
    DEF StopLab, StopLabUnit, Cleanup, SessionInv, CommandOfActive, WorkSteps, PentestSteps,
        LabSteps, ExportSteps, SharedSteps, Kinds, Guests
  <2>6. GuestsOfActive'
    BY <1>0, <1>o, <1>s, <1>2, <2>1, <2>2, <2>3, <2>4
    DEF StopLab, StopLabUnit, Cleanup, SessionInv, GuestsOfActive
  <2>7. WrittenForMine'
    BY <1>0, <1>o, <1>s, <1>2, <2>1, <2>2, <2>3, <2>4
    DEF StopLab, StopLabUnit, Cleanup, SessionInv, WrittenForMine, AfterGuest
  <2>8. DoneBeforeRemoval'
    BY ZenonT(40), <1>0, <1>o, <1>s, <1>2, <2>1, <2>2, <2>3, <2>4
    DEF StopLab, StopLabUnit, Cleanup, SessionInv, DoneBeforeRemoval, CommandOfActive,
        GuestsOfActive, WorkSteps, PentestSteps, LabSteps, ExportSteps, SharedSteps, Kinds, Guests
  <2>9. ExportSees'
    BY <1>0, <1>o, <1>s, <1>2, <2>1, <2>2, <2>3, <2>4
    DEF StopLab, StopLabUnit, Cleanup, SessionInv, ExportSees
  <2>10. VmIsFresh'
    BY <1>0, <1>o, <1>s, <1>2, <2>1, <2>2, <2>3, <2>4
    DEF StopLab, StopLabUnit, Cleanup, SessionInv, VmIsFresh
  <2>11. ExportIsAsConfirmed'
    BY <1>0, <1>o, <1>s, <1>2, <2>1, <2>2, <2>3, <2>4
    DEF StopLab, StopLabUnit, Cleanup, SessionInv, ExportIsAsConfirmed
  <2> QED BY <2>5, <2>6, <2>7, <2>8, <2>9, <2>10, <2>11 DEF SessionInv
<1>3. CASE DropTables(p)
  <2>1. command'[p].session = command[p].session BY <1>0, <1>3, MovesTo DEF DropTables, Steps
  <2>2. \/ At(p, "drop") /\ command'[p].at = "load"
        \/ At(p, "undo tables") /\ command'[p].at = "undo files"
        \/ At(p, "stop tables") /\ command'[p].at = "stop files"
    BY <1>0, <1>3, MovesTo DEF DropTables, Steps
  <2>3. CommandOfActive'
    BY ZenonT(40), <1>0, <1>o, <1>s, <1>3, <2>1, <2>2
    DEF DropTables, SessionInv, CommandOfActive, WorkSteps, PentestSteps, LabSteps, ExportSteps,
        SharedSteps, Kinds, Guests
  <2>4. GuestsOfActive'
    BY <1>0, <1>o, <1>s, <1>3, <2>1, <2>2 DEF DropTables, SessionInv, GuestsOfActive
  <2>5. WrittenForMine'
    BY <1>0, <1>o, <1>s, <1>3, <2>1, <2>2 DEF DropTables, SessionInv, WrittenForMine, AfterGuest
  <2>6. DoneBeforeRemoval'
    BY ZenonT(40), <1>0, <1>o, <1>s, <1>3, <2>1, <2>2
    DEF DropTables, SessionInv, DoneBeforeRemoval, CommandOfActive, GuestsOfActive, WorkSteps,
        PentestSteps, LabSteps, ExportSteps, SharedSteps, Kinds, Guests
  <2>7. ExportSees' BY <1>0, <1>o, <1>s, <1>3, <2>1, <2>2 DEF DropTables, SessionInv, ExportSees
  <2>8. VmIsFresh' BY <1>0, <1>o, <1>s, <1>3, <2>1, <2>2 DEF DropTables, SessionInv, VmIsFresh
  <2>9. ExportIsAsConfirmed'
    BY <1>0, <1>o, <1>s, <1>3, <2>1, <2>2 DEF DropTables, SessionInv, ExportIsAsConfirmed
  <2> QED BY <2>3, <2>4, <2>5, <2>6, <2>7, <2>8, <2>9 DEF SessionInv
<1>4. CASE RemoveScratch(p)
  <2>1. command'[p].session = command[p].session BY <1>0, <1>4, MovesTo DEF RemoveScratch, Steps
  <2>2. \/ At(p, "undo scratch") /\ command'[p].at = "undo files"
        \/ At(p, "stop scratch") /\ command'[p].at = "stop files"
    BY <1>0, <1>4, MovesTo DEF RemoveScratch, Steps
  <2>3. CommandOfActive'
    BY ZenonT(40), <1>0, <1>o, <1>s, <1>4, <2>1, <2>2
    DEF RemoveScratch, SessionInv, CommandOfActive, WorkSteps, PentestSteps, LabSteps,
        ExportSteps, SharedSteps, Kinds, Guests
  <2>4. GuestsOfActive'
    BY <1>0, <1>o, <1>s, <1>4, <2>1, <2>2 DEF RemoveScratch, SessionInv, GuestsOfActive
  <2>5. WrittenForMine'
    BY <1>0, <1>o, <1>s, <1>4, <2>1, <2>2
    DEF RemoveScratch, SessionInv, WrittenForMine, AfterGuest
  <2>6. DoneBeforeRemoval'
    BY ZenonT(40), <1>0, <1>o, <1>s, <1>4, <2>1, <2>2
    DEF RemoveScratch, SessionInv, DoneBeforeRemoval, CommandOfActive, GuestsOfActive,
        WorkSteps, PentestSteps, LabSteps, ExportSteps, SharedSteps, Kinds, Guests
  <2>7. ExportSees'
    BY <1>0, <1>o, <1>s, <1>4, <2>1, <2>2 DEF RemoveScratch, SessionInv, ExportSees
  <2>8. VmIsFresh'
    BY <1>0, <1>o, <1>s, <1>4, <2>1, <2>2 DEF RemoveScratch, SessionInv, VmIsFresh
  <2>9. ExportIsAsConfirmed'
    BY <1>0, <1>o, <1>s, <1>4, <2>1, <2>2 DEF RemoveScratch, SessionInv, ExportIsAsConfirmed
  <2> QED BY <2>3, <2>4, <2>5, <2>6, <2>7, <2>8, <2>9 DEF SessionInv
<1>5. CASE RemoveFiles(p)
  <2>1. command'[p] = Idle BY <1>0, <1>5, LeavesAlone DEF RemoveFiles
  <2>2. command'[p].at = "idle" /\ command'[p].session = 0 BY <1>0, <1>5, <2>1 DEF Idle
  <2>3. files'["session"] = 0 BY <1>0, <1>5 DEF RemoveFiles, NoFiles, Files
  <2>4. CommandOfActive'
    BY ZenonT(40), <1>0, <1>o, <1>s, <1>5, <2>1, <2>2, <2>3
    DEF RemoveFiles, SessionInv, CommandOfActive, WorkSteps, PentestSteps, LabSteps,
        ExportSteps, SharedSteps, Kinds, Guests
  <2>5. GuestsOfActive'
    BY ZenonT(40), <1>0, <1>o, <1>s, <1>5, <2>1, <2>2, <2>3
    DEF RemoveFiles, SessionInv, GuestsOfActive, CommandOfActive, WrittenForMine, AfterGuest,
        DoneBeforeRemoval, WorkSteps, PentestSteps, LabSteps, ExportSteps, SharedSteps, Kinds,
        Guests
  <2>6. WrittenForMine'
    BY <1>0, <1>o, <1>s, <1>5, <2>1, <2>2, <2>3
    DEF RemoveFiles, SessionInv, WrittenForMine, AfterGuest
  <2>7. DoneBeforeRemoval'
    BY <1>0, <1>o, <1>s, <1>5, <2>1, <2>2, <2>3 DEF RemoveFiles, SessionInv, DoneBeforeRemoval
  <2>8. ExportSees'
    BY <1>0, <1>o, <1>s, <1>5, <2>1, <2>2, <2>3 DEF RemoveFiles, SessionInv, ExportSees
  <2>9. VmIsFresh'
    BY ZenonT(40), <1>0, <1>o, <1>s, <1>5, <2>1, <2>2, <2>3
    DEF RemoveFiles, SessionInv, VmIsFresh, CommandOfActive, WrittenForMine, AfterGuest,
        GuestsOfActive, DoneBeforeRemoval, WorkSteps, PentestSteps, LabSteps, ExportSteps,
        SharedSteps, Kinds, Guests
  <2>10. ExportIsAsConfirmed'
    BY <1>0, <1>o, <1>s, <1>5, <2>1, <2>2, <2>3 DEF RemoveFiles, SessionInv, ExportIsAsConfirmed
  <2> QED BY <2>4, <2>5, <2>6, <2>7, <2>8, <2>9, <2>10 DEF SessionInv
<1>6. CASE BeginStop(p)
  <2>1. ActiveSession # 0 /\ kind[ActiveSession] \in Kinds
    BY <1>0, <1>6 DEF BeginStop, SessionInv, CommandOfActive
  <2>2. command'[p].session = ActiveSession BY <1>0, <1>6 DEF BeginStop, TypeOK
  <2>3. kind[ActiveSession] = "pentest" => command'[p].at = "stop units"
    BY <1>0, <1>6 DEF BeginStop, TypeOK
  <2>4. kind[ActiveSession] # "pentest" => command'[p].at = "stop lab"
    BY <1>0, <1>6 DEF BeginStop, TypeOK
  <2>5. CommandOfActive'
    BY ZenonT(40), <1>0, <1>o, <1>s, <1>6, <2>1, <2>2, <2>3, <2>4
    DEF BeginStop, SessionInv, CommandOfActive, WorkSteps, PentestSteps, LabSteps, ExportSteps,
        SharedSteps, Kinds, Guests
  <2>6. GuestsOfActive'
    BY <1>0, <1>o, <1>s, <1>6, <2>1, <2>2, <2>3, <2>4 DEF BeginStop, SessionInv, GuestsOfActive
  <2>7. WrittenForMine'
    BY <1>0, <1>o, <1>s, <1>6, <2>1, <2>2, <2>3, <2>4
    DEF BeginStop, SessionInv, WrittenForMine, AfterGuest
  <2>8. DoneBeforeRemoval'
    BY <1>0, <1>o, <1>s, <1>6, <2>1, <2>2, <2>3, <2>4 DEF BeginStop, SessionInv, DoneBeforeRemoval
  <2>9. ExportSees'
    BY <1>0, <1>o, <1>s, <1>6, <2>1, <2>2, <2>3, <2>4 DEF BeginStop, SessionInv, ExportSees
  <2>10. VmIsFresh'
    BY <1>0, <1>o, <1>s, <1>6, <2>1, <2>2, <2>3, <2>4 DEF BeginStop, SessionInv, VmIsFresh
  <2>11. ExportIsAsConfirmed'
    BY <1>0, <1>o, <1>s, <1>6, <2>1, <2>2, <2>3, <2>4
    DEF BeginStop, SessionInv, ExportIsAsConfirmed
  <2> QED BY <2>5, <2>6, <2>7, <2>8, <2>9, <2>10, <2>11 DEF SessionInv
<1> QED BY <1>1, <1>2, <1>3, <1>4, <1>5, <1>6 DEF Stop, Ends

(* An export copies what it listed, its guest being off.                        *)
LEMMA ExportOwns ==
    ASSUME HostSessionAssumption, OneOperator, HostInv, TypeInv', NEW p \in Terminals, Export(p)
    PROVE  SessionInv'
<1>0. TypeInv /\ TypeOK /\ SessionInv BY DEF HostInv, TypeInv
<1>o. \A q \in Terminals : q = p BY DEF OneOperator
<1>s. command[p].at \in WorkSteps => Mine(p) \in Sessions BY <1>0 DEF TypeInv, CommandHasSession
<1> USE DEF At, Mine, MyKind, runVars, diskVars, UnitVars, LabVars, ActiveSession, LeftVm, LeftLab
<1>1. CASE BeginExport(p)
  <2>1. ActiveSession # 0 /\ kind[ActiveSession] \in Kinds
    BY <1>0, <1>1 DEF BeginExport, SessionInv, CommandOfActive
  <2>2. command'[p].session = ActiveSession BY <1>0, <1>1 DEF BeginExport, TypeOK
  <2>3. command'[p].at = "export" BY <1>0, <1>1 DEF BeginExport, TypeOK
  <2>4. CommandOfActive'
    BY ZenonT(40), <1>0, <1>o, <1>s, <1>1, <2>1, <2>2, <2>3
    DEF BeginExport, SessionInv, CommandOfActive, WorkSteps, PentestSteps, LabSteps,
        ExportSteps, SharedSteps, Kinds, Guests
  <2>5. GuestsOfActive'
    BY <1>0, <1>o, <1>s, <1>1, <2>1, <2>2, <2>3 DEF BeginExport, SessionInv, GuestsOfActive
  <2>6. WrittenForMine'
    BY <1>0, <1>o, <1>s, <1>1, <2>1, <2>2, <2>3
    DEF BeginExport, SessionInv, WrittenForMine, AfterGuest
  <2>7. DoneBeforeRemoval'
    BY <1>0, <1>o, <1>s, <1>1, <2>1, <2>2, <2>3 DEF BeginExport, SessionInv, DoneBeforeRemoval
  <2>8. ExportSees'
    BY <1>0, <1>o, <1>s, <1>1, <2>1, <2>2, <2>3 DEF BeginExport, SessionInv, ExportSees
  <2>9. VmIsFresh'
    BY <1>0, <1>o, <1>s, <1>1, <2>1, <2>2, <2>3 DEF BeginExport, SessionInv, VmIsFresh
  <2>10. ExportIsAsConfirmed'
    BY <1>0, <1>o, <1>s, <1>1, <2>1, <2>2, <2>3 DEF BeginExport, SessionInv, ExportIsAsConfirmed
  <2> QED BY <2>4, <2>5, <2>6, <2>7, <2>8, <2>9, <2>10 DEF SessionInv
<1>2. CASE StopGuests(p)
  <2>1. Leaves(p) => command'[p].at = "idle" BY <1>0, <1>2, LeavesAlone DEF Idle
  <2>2. Moves(p, "list") => command'[p].at = "list" /\ command'[p].session = command[p].session
    BY <1>0, <1>2, MovesTo DEF Steps
  <2>3. command'[p].at \in {"idle", "list"} BY <1>0, <1>2, <2>1, <2>2 DEF StopGuests
  <2>4. command'[p].at = "idle" \/ (command'[p].session = command[p].session /\ StopLabUnit(MyKind(p)))
    BY <1>0, <1>2, <2>1, <2>2 DEF StopGuests
  <2>5. Mine(p) # 0 /\ (StopLabUnit(MyKind(p)) => lab' # Mine(p))
    BY <1>0, <1>2 DEF StopGuests, StopLabUnit, SessionInv, CommandOfActive, WorkSteps, ExportSteps
  <2>6. CommandOfActive'
    BY ZenonT(40), <1>0, <1>o, <1>s, <1>2, <2>1, <2>2, <2>3, <2>4, <2>5
    DEF StopGuests, StopLabUnit, Cleanup, SessionInv, CommandOfActive, WorkSteps, PentestSteps,
        LabSteps, ExportSteps, SharedSteps, Kinds, Guests
  <2>7. GuestsOfActive'
    BY <1>0, <1>o, <1>s, <1>2, <2>1, <2>2, <2>3, <2>4, <2>5
    DEF StopGuests, StopLabUnit, Cleanup, SessionInv, GuestsOfActive
  <2>8. WrittenForMine'
    BY <1>0, <1>o, <1>s, <1>2, <2>1, <2>2, <2>3, <2>4, <2>5
    DEF StopGuests, StopLabUnit, Cleanup, SessionInv, WrittenForMine, AfterGuest
  <2>9. DoneBeforeRemoval'
    BY <1>0, <1>o, <1>s, <1>2, <2>1, <2>2, <2>3, <2>4, <2>5
    DEF StopGuests, StopLabUnit, Cleanup, SessionInv, DoneBeforeRemoval
  <2>10. ExportSees'
    BY <1>0, <1>o, <1>s, <1>2, <2>1, <2>2, <2>3, <2>4, <2>5
    DEF StopGuests, StopLabUnit, Cleanup, SessionInv, ExportSees
  <2>11. VmIsFresh'
    BY <1>0, <1>o, <1>s, <1>2, <2>1, <2>2, <2>3, <2>4, <2>5
    DEF StopGuests, StopLabUnit, Cleanup, SessionInv, VmIsFresh
  <2>12. ExportIsAsConfirmed'
    BY <1>0, <1>o, <1>s, <1>2, <2>1, <2>2, <2>3, <2>4, <2>5
    DEF StopGuests, StopLabUnit, Cleanup, SessionInv, ExportIsAsConfirmed
  <2> QED BY <2>6, <2>7, <2>8, <2>9, <2>10, <2>11, <2>12 DEF SessionInv
<1>3. CASE ListResults(p)
  <2>1. lab # Mine(p) BY <1>0, <1>3 DEF ListResults, SessionInv, ExportSees
  <2>2. \/ command'[p].at = "idle"
        \/ /\ command'[p].at = "volume" /\ command'[p].session = command[p].session
           /\ command'[p].listed = results[Mine(p)]
    BY <1>0, <1>3, LeavesAlone DEF ListResults, Idle, TypeOK
  <2>3. CommandOfActive'
    BY ZenonT(40), <1>0, <1>o, <1>s, <1>3, <2>1, <2>2
    DEF ListResults, SessionInv, CommandOfActive, WorkSteps, PentestSteps, LabSteps,
        ExportSteps, SharedSteps, Kinds, Guests
  <2>4. GuestsOfActive'
    BY <1>0, <1>o, <1>s, <1>3, <2>1, <2>2 DEF ListResults, SessionInv, GuestsOfActive
  <2>5. WrittenForMine'
    BY ZenonT(40), <1>0, <1>o, <1>s, <1>3, <2>1, <2>2
    DEF ListResults, SessionInv, WrittenForMine, AfterGuest, CommandOfActive, WorkSteps,
        PentestSteps, LabSteps, ExportSteps, SharedSteps, Kinds, Guests
  <2>6. DoneBeforeRemoval'
    BY <1>0, <1>o, <1>s, <1>3, <2>1, <2>2 DEF ListResults, SessionInv, DoneBeforeRemoval
  <2>7. ExportSees'
    BY <1>0, <1>o, <1>s, <1>3, <2>1, <2>2 DEF ListResults, SessionInv, ExportSees
  <2>8. VmIsFresh' BY <1>0, <1>o, <1>s, <1>3, <2>1, <2>2 DEF ListResults, SessionInv, VmIsFresh
  <2>9. ExportIsAsConfirmed'
    BY <1>0, <1>o, <1>s, <1>3, <2>1, <2>2 DEF ListResults, SessionInv, ExportIsAsConfirmed
  <2> QED BY <2>3, <2>4, <2>5, <2>6, <2>7, <2>8, <2>9 DEF SessionInv
<1>4. CASE CopyResults(p)
  <2>1. \/ command'[p].at = "idle"
        \/ /\ command'[p].at = "publish" /\ command'[p].session = command[p].session
           /\ command'[p].listed = command[p].listed /\ command'[p].copied = results[Mine(p)]
    BY <1>0, <1>4, LeavesAlone DEF CopyResults, Idle, TypeOK
  <2>2. CommandOfActive'
    BY ZenonT(40), <1>0, <1>o, <1>s, <1>4, <2>1
    DEF CopyResults, SessionInv, CommandOfActive, WorkSteps, PentestSteps, LabSteps,
        ExportSteps, SharedSteps, Kinds, Guests
  <2>3. GuestsOfActive'
    BY <1>0, <1>o, <1>s, <1>4, <2>1 DEF CopyResults, SessionInv, GuestsOfActive
  <2>4. WrittenForMine'
    BY <1>0, <1>o, <1>s, <1>4, <2>1 DEF CopyResults, SessionInv, WrittenForMine, AfterGuest
  <2>5. DoneBeforeRemoval'
    BY <1>0, <1>o, <1>s, <1>4, <2>1 DEF CopyResults, SessionInv, DoneBeforeRemoval
  <2>6. ExportSees' BY <1>0, <1>o, <1>s, <1>4, <2>1 DEF CopyResults, SessionInv, ExportSees
  <2>7. VmIsFresh' BY <1>0, <1>o, <1>s, <1>4, <2>1 DEF CopyResults, SessionInv, VmIsFresh
  <2>8. ExportIsAsConfirmed'
    BY <1>0, <1>o, <1>s, <1>4, <2>1 DEF CopyResults, SessionInv, ExportIsAsConfirmed
  <2> QED BY <2>2, <2>3, <2>4, <2>5, <2>6, <2>7, <2>8 DEF SessionInv
<1>5. CASE Publish(p)
  <2>1. command'[p].at = "discard" /\ command'[p].session = command[p].session
        /\ command'[p].listed = command[p].listed /\ command'[p].copied = command[p].copied
    BY <1>0, <1>5, MovesTo DEF Publish, Steps
  <2>2. command[p].copied = command[p].listed BY <1>0, <1>5 DEF Publish, SessionInv, ExportSees
  <2>3. \A s \in Sessions : exports'[s] = exports[s] \/ exports'[s].manifest = exports'[s].image
    BY <1>0, <1>5, <2>2 DEF Publish, TypeOK
  <2>4. CommandOfActive'
    BY ZenonT(40), <1>0, <1>o, <1>s, <1>5, <2>1, <2>2, <2>3
    DEF Publish, SessionInv, CommandOfActive, WorkSteps, PentestSteps, LabSteps, ExportSteps,
        SharedSteps, Kinds, Guests
  <2>5. GuestsOfActive'
    BY <1>0, <1>o, <1>s, <1>5, <2>1, <2>2, <2>3 DEF Publish, SessionInv, GuestsOfActive
  <2>6. WrittenForMine'
    BY <1>0, <1>o, <1>s, <1>5, <2>1, <2>2, <2>3
    DEF Publish, SessionInv, WrittenForMine, AfterGuest
  <2>7. DoneBeforeRemoval'
    BY <1>0, <1>o, <1>s, <1>5, <2>1, <2>2, <2>3 DEF Publish, SessionInv, DoneBeforeRemoval
  <2>8. ExportSees'
    <3>1. Mine(p) \in Sessions BY <1>5, <1>s DEF Publish, WorkSteps, ExportSteps
    <3>2. command[p].copied = results[Mine(p)] /\ lab # Mine(p)
      BY <1>0, <1>5, <2>2 DEF Publish, SessionInv, ExportSees
    <3>3. exports' = [exports EXCEPT
            ![Mine(p)] = [manifest |-> command[p].listed, image |-> command[p].copied]]
      BY <1>5 DEF Publish
    <3>4. exports'[Mine(p)].image = results[Mine(p)] BY <1>0, <3>1, <3>2, <3>3 DEF TypeOK
    <3> QED BY <1>o, <1>5, <2>1, <3>2, <3>4 DEF Publish, ExportSees
  <2>9. VmIsFresh'
    BY <1>0, <1>o, <1>s, <1>5, <2>1, <2>2, <2>3 DEF Publish, SessionInv, VmIsFresh
  <2>10. ExportIsAsConfirmed'
    BY <1>0, <1>o, <1>s, <1>5, <2>1, <2>2, <2>3 DEF Publish, SessionInv, ExportIsAsConfirmed
  <2> QED BY <2>4, <2>5, <2>6, <2>7, <2>8, <2>9, <2>10 DEF SessionInv
<1>6. CASE Discard(p)
  <2>1. command'[p] = Idle BY <1>0, <1>6, LeavesAlone DEF Discard
  <2>2. command'[p].at = "idle" /\ command'[p].session = 0 BY <1>0, <1>6, <2>1 DEF Idle
  <2>3. CommandOfActive'
    BY ZenonT(40), <1>0, <1>o, <1>s, <1>6, <2>1, <2>2
    DEF Discard, SessionInv, CommandOfActive, WorkSteps, PentestSteps, LabSteps, ExportSteps,
        SharedSteps, Kinds, Guests
  <2>4. GuestsOfActive'
    BY <1>0, <1>o, <1>s, <1>6, <2>1, <2>2 DEF Discard, SessionInv, GuestsOfActive
  <2>5. WrittenForMine'
    BY <1>0, <1>o, <1>s, <1>6, <2>1, <2>2 DEF Discard, SessionInv, WrittenForMine, AfterGuest
  <2>6. DoneBeforeRemoval'
    BY <1>0, <1>o, <1>s, <1>6, <2>1, <2>2 DEF Discard, SessionInv, DoneBeforeRemoval
  <2>7. ExportSees' BY <1>0, <1>o, <1>s, <1>6, <2>1, <2>2 DEF Discard, SessionInv, ExportSees
  <2>8. VmIsFresh' BY <1>0, <1>o, <1>s, <1>6, <2>1, <2>2 DEF Discard, SessionInv, VmIsFresh
  <2>9. ExportIsAsConfirmed'
    BY <1>0, <1>o, <1>s, <1>6, <2>1, <2>2 DEF Discard, SessionInv, ExportIsAsConfirmed
  <2> QED BY <2>3, <2>4, <2>5, <2>6, <2>7, <2>8, <2>9 DEF SessionInv
<1> QED BY <1>1, <1>2, <1>3, <1>4, <1>5, <1>6 DEF Export

(* A command is killed wherever it is.                                         *)

LEMMA KillOwns ==
    ASSUME HostSessionAssumption, OneOperator, HostInv, TypeInv', NEW p \in Terminals, Kill(p)
    PROVE  SessionInv'
<1>0. TypeInv /\ TypeOK /\ SessionInv BY DEF HostInv, TypeInv
<1>o. \A q \in Terminals : q = p BY DEF OneOperator
<1>s. command[p].at \in WorkSteps => Mine(p) \in Sessions BY <1>0 DEF TypeInv, CommandHasSession
<1> USE DEF At, Mine, MyKind, runVars, diskVars, UnitVars, LabVars, ActiveSession, LeftVm, LeftLab
<1>1. command'[p].at = "idle"
  <2>1. command'[p] = Idle BY <1>0, LeavesAlone DEF Kill
  <2> QED BY <2>1 DEF Idle
<1>2. UNCHANGED <<tables, kind, results, exports, abandoned>> BY DEF Kill
<1>3. ASSUME At(p, "units")
      PROVE  CommandOfActive' /\ GuestsOfActive' /\ VmIsFresh'
  <2>1. files["guest"] = ActiveSession /\ files["token"] = ActiveSession /\ files["overlay"] = ActiveSession
    BY <1>0, <1>3 DEF SessionInv, WrittenForMine, AfterGuest
  <2>2. kind[ActiveSession] = "pentest" /\ ActiveSession # 0
    BY <1>0, <1>3 DEF SessionInv, CommandOfActive, WorkSteps, PentestSteps
  <2>3. vm' = vm \/ vm' = [session |-> ActiveSession, overlay |-> ActiveSession]
    BY <1>3, <2>1 DEF Kill, Boot
  <2>4. vm' = vm \/ (vm'.session = ActiveSession /\ vm'.overlay = ActiveSession) BY <2>3
  <2>5. files' = files /\ lab' = lab BY <1>3 DEF Kill
  <2>6. GuestsOfActive' BY <1>0, <1>2, <2>2, <2>4, <2>5 DEF SessionInv, GuestsOfActive
  <2>7. VmIsFresh' BY <1>0, <1>2, <2>1, <2>2, <2>4, <2>5 DEF SessionInv, VmIsFresh
  <2>8. CommandOfActive'
    BY ZenonT(40), <1>0, <1>o, <1>1, <1>2, <2>5
    DEF SessionInv, CommandOfActive, WorkSteps, PentestSteps, LabSteps, ExportSteps, SharedSteps
  <2> QED BY <2>6, <2>7, <2>8
<1>4. ASSUME At(p, "start lab")
      PROVE  CommandOfActive' /\ GuestsOfActive' /\ VmIsFresh'
  <2>1. /\ kind[ActiveSession] \in Guests /\ ActiveSession # 0
        /\ current \in {0, ActiveSession}
    BY <1>0, <1>4 DEF SessionInv, CommandOfActive, WorkSteps, LabSteps, WrittenForMine
  <2>2. files' = files /\ vm' = vm /\ lab' \in {lab, current} BY <1>4 DEF Kill
  <2>3. GuestsOfActive' BY <1>0, <1>2, <2>1, <2>2 DEF SessionInv, GuestsOfActive
  <2>4. VmIsFresh' BY <1>0, <1>2, <2>2 DEF SessionInv, VmIsFresh
  <2>5. CommandOfActive'
    BY ZenonT(40), <1>0, <1>o, <1>1, <1>2, <2>2
    DEF SessionInv, CommandOfActive, WorkSteps, PentestSteps, LabSteps, ExportSteps, SharedSteps
  <2> QED BY <2>3, <2>4, <2>5
<1>5. ASSUME At(p, "undo files") \/ At(p, "stop files")
      PROVE  CommandOfActive' /\ GuestsOfActive' /\ VmIsFresh'
  <2>1. LeftVm /\ LeftLab /\ tables = {} BY <1>0, <1>5 DEF SessionInv, DoneBeforeRemoval
  <2>2. UNCHANGED <<vm, lab>> BY <1>5 DEF Kill
  <2>3. files'["session"] \in {0, files["session"]}
    <3>1. PICK left \in SUBSET Files : files' = [f \in Files |-> IF f \in left THEN files[f] ELSE 0]
      BY <1>5 DEF Kill
    <3> QED BY <3>1 DEF Files
  <2>4. GuestsOfActive' BY <1>2, <2>1, <2>2 DEF GuestsOfActive
  <2>5. VmIsFresh' BY <1>0, <1>2, <2>1, <2>2 DEF SessionInv, VmIsFresh
  <2>6. CommandOfActive'
    BY ZenonT(40), <1>0, <1>o, <1>1, <1>2, <2>3
    DEF SessionInv, CommandOfActive, WorkSteps, PentestSteps, LabSteps, ExportSteps, SharedSteps
  <2> QED BY <2>4, <2>5, <2>6
<1>6. ASSUME command[p].at \notin {"units", "start lab", "undo files", "stop files"}
      PROVE  CommandOfActive' /\ GuestsOfActive' /\ VmIsFresh'
  <2>1. files' = files /\ vm' = vm /\ lab' = lab BY <1>6 DEF Kill
  <2>2. GuestsOfActive' BY <1>0, <1>2, <2>1 DEF SessionInv, GuestsOfActive
  <2>3. VmIsFresh' BY <1>0, <1>2, <2>1 DEF SessionInv, VmIsFresh
  <2>4. CommandOfActive'
    BY ZenonT(40), <1>0, <1>o, <1>1, <1>2, <2>1
    DEF SessionInv, CommandOfActive, WorkSteps, PentestSteps, LabSteps, ExportSteps, SharedSteps
  <2> QED BY <2>2, <2>3, <2>4
<1>7. WrittenForMine' /\ DoneBeforeRemoval' /\ ExportSees'
  BY <1>o, <1>1 DEF WrittenForMine, AfterGuest, DoneBeforeRemoval, ExportSees
<1>8. ExportIsAsConfirmed' BY <1>0, <1>2 DEF SessionInv, ExportIsAsConfirmed
<1> QED BY <1>3, <1>4, <1>5, <1>6, <1>7, <1>8 DEF SessionInv

(* Guests that end or write, and reboots.                                      *)
LEMMA OutsideOwns ==
    ASSUME HostSessionAssumption, OneOperator, HostInv, TypeInv', GuestEnds \/ GuestWrites \/ Reboot
    PROVE  SessionInv'
<1>0. TypeInv /\ TypeOK /\ SessionInv BY DEF HostInv, TypeInv
<1> USE DEF At, Mine, MyKind, runVars, diskVars, UnitVars, LabVars, ActiveSession, LeftVm, LeftLab
<1>1. CASE GuestEnds
  <2>1. /\ UNCHANGED <<files, tables, kind, results, exports, command, abandoned>>
        /\ vm' = vm \/ vm' = NoVm
        /\ lab' = lab \/ lab' = 0
        /\ current' = current \/ current' = 0
    BY <1>1 DEF GuestEnds, Cleanup
  <2>2. vm' = vm \/ vm'.session = 0 BY <2>1 DEF NoVm
  <2>3. CommandOfActive' BY <1>0, <2>1 DEF SessionInv, CommandOfActive
  <2>4. GuestsOfActive' BY <1>0, <2>1, <2>2 DEF SessionInv, GuestsOfActive
  <2>5. WrittenForMine' BY <1>0, <2>1 DEF SessionInv, WrittenForMine
  <2>6. DoneBeforeRemoval' BY <1>0, <2>1, <2>2 DEF SessionInv, DoneBeforeRemoval
  <2>7. ExportSees'
    <3>1. \A q \in Terminals : command[q].at \in WorkSteps => Mine(q) # 0
      BY <1>0 DEF SessionInv, CommandOfActive
    <3>2. {"volume", "image", "format", "list", "copy", "publish", "discard"} \subseteq WorkSteps
      BY DEF WorkSteps, SharedSteps, ExportSteps
    <3> QED BY <1>0, <2>1, <3>1, <3>2 DEF SessionInv, ExportSees
  <2>8. VmIsFresh' /\ ExportIsAsConfirmed'
    BY <1>0, <2>1 DEF SessionInv, VmIsFresh, ExportIsAsConfirmed
  <2> QED BY <2>3, <2>4, <2>5, <2>6, <2>7, <2>8 DEF SessionInv
<1>2. CASE GuestWrites
  <2>1. /\ UNCHANGED <<files, tables, vm, lab, current, kind, exports, command, abandoned>>
        /\ \A s \in Sessions : s # lab => results'[s] = results[s]
    BY <1>0, <1>2 DEF GuestWrites, TypeOK
  <2>2. CommandOfActive' BY <1>0, <2>1 DEF SessionInv, CommandOfActive
  <2>3. GuestsOfActive' BY <1>0, <2>1 DEF SessionInv, GuestsOfActive
  <2>4. WrittenForMine' BY <1>0, <2>1 DEF SessionInv, WrittenForMine
  <2>5. DoneBeforeRemoval' BY <1>0, <2>1 DEF SessionInv, DoneBeforeRemoval
  <2>6. ExportSees'
    <3>1. \A q \in Terminals : command[q].at \in WorkSteps => Mine(q) \in Sessions
      BY <1>0 DEF TypeInv, CommandHasSession
    <3>2. {"volume", "image", "format", "list", "copy", "publish", "discard"} \subseteq WorkSteps
      BY DEF WorkSteps, SharedSteps, ExportSteps
    <3> QED BY <1>0, <2>1, <3>1, <3>2 DEF SessionInv, ExportSees
  <2>7. VmIsFresh' /\ ExportIsAsConfirmed'
    BY <1>0, <2>1 DEF SessionInv, VmIsFresh, ExportIsAsConfirmed
  <2> QED BY <2>2, <2>3, <2>4, <2>5, <2>6, <2>7 DEF SessionInv
<1>3. CASE Reboot
  <2>1. /\ files'["session"] = 0 /\ tables' = {} /\ vm' = NoVm /\ vm'.session = 0 /\ lab' = 0
        /\ \A p \in Terminals : command'[p].at = "idle"
        /\ exports' = exports
    BY <1>3 DEF Reboot, NoFiles, Files, NoVm, Idle
  <2>2. CommandOfActive'
    BY ZenonT(40), <2>1 DEF CommandOfActive, WorkSteps, PentestSteps, LabSteps, ExportSteps, SharedSteps
  <2>3. GuestsOfActive' /\ DoneBeforeRemoval' BY <2>1 DEF GuestsOfActive, DoneBeforeRemoval
  <2>4. WrittenForMine' /\ ExportSees' BY <2>1 DEF WrittenForMine, AfterGuest, ExportSees
  <2>5. VmIsFresh' /\ ExportIsAsConfirmed'
    BY <1>0, <2>1 DEF SessionInv, VmIsFresh, ExportIsAsConfirmed
  <2> QED BY <2>2, <2>3, <2>4, <2>5 DEF SessionInv
<1> QED BY <1>1, <1>2, <1>3

(* Every step of one operator keeps the inductive invariant.                   *)
LEMMA HostStep == HostSessionAssumption /\ OneOperator /\ HostInv /\ [Next]_vars => HostInv'
<1> SUFFICES ASSUME HostSessionAssumption, OneOperator, HostInv, [Next]_vars PROVE HostInv' OBVIOUS
<1>1. TypeInv' BY TypeStep DEF HostInv
<1>2. SessionInv'
  <2>1. CASE UNCHANGED vars
    BY <2>1
    DEF HostInv, SessionInv, vars, runVars, diskVars, CommandOfActive, GuestsOfActive,
        WrittenForMine,
       DoneBeforeRemoval, ExportSees, VmIsFresh, ExportIsAsConfirmed, LeftVm, LeftLab, ActiveSession, At, Mine, MyKind
  <2>2. CASE Next
    BY <1>1, <2>2, StartOwns, UndoOwns, StopOwns, ExportOwns, KillOwns, OutsideOwns DEF Next
  <2> QED BY <2>1, <2>2
<1> QED BY <1>1, <1>2 DEF HostInv

(* The inductive invariant holds for one operator.                             *)
THEOREM HostInvariant == OneOperator => (Spec => []HostInv)
<1> SUFFICES ASSUME OneOperator PROVE Spec => []HostInv OBVIOUS
<1>1. Init => HostInv BY HostInit, HostSessionAssumption
<1>2. HostInv /\ [Next]_vars => HostInv' BY HostStep, HostSessionAssumption
<1> QED BY <1>1, <1>2, PTL DEF Spec

(* Whatever lets packets through and every guest that is on is of the session  *)
(* on file, unless a start could not stop it, wherever a command was killed.   *)
THEOREM HostSessionOwnsAll == OneOperator => (Spec => []SessionOwnsAll)
<1>1. HostInv => SessionOwnsAll
  BY DEF HostInv, TypeInv, SessionInv, TypeOK, GuestsOfActive, SessionOwnsAll, LeftVm, LeftLab
<1> QED BY <1>1, HostInvariant, PTL

(* A guest has the overlay, and while it is not abandoned the token, that were *)
(* made for its session.                                                       *)
THEOREM HostFreshGuest == OneOperator => (Spec => []FreshGuest)
<1>1. HostInv => FreshGuest BY DEF HostInv, SessionInv, VmIsFresh, FreshGuest
<1> QED BY <1>1, HostInvariant, PTL

(* An export holds what the operator has confirmed.                            *)
THEOREM HostExportIsAsConfirmed == OneOperator => (Spec => []ExportIsAsConfirmed)
<1>1. HostInv => ExportIsAsConfirmed BY DEF HostInv, SessionInv
<1> QED BY <1>1, HostInvariant, PTL

-------------------------------------------------------------------------------
(* What becomes of the results of a malware session.                           *)

ResultsGoBy ==
    \A s \in Sessions : results[s] # 0 /\ results'[s] = 0 =>
        \/ exports[s].image = results[s]
        \/ \E p \in Terminals :
              Mine(p) = s /\ \E step \in {"stop scratch", "undo scratch"} : At(p, step)

(* Only these steps write the results of a session, and two of them empty it.  *)
LEMMA WhoWritesResults ==
    ASSUME HostSessionAssumption, TypeInv, Next, results' # results
    PROVE  \/ \E p \in Terminals : RemoveScratch(p) \/ Discard(p)
           \/ \A s \in Sessions : results'[s] # results[s] => results'[s] # 0
<1> USE DEF diskVars
<1>1. ASSUME NEW p \in Terminals, Start(p) PROVE MakeScratch(p)
  BY <1>1 DEF Start, BeginStart, ConfirmPentest, ConfirmMalware, NewSession, WriteGuestMetadata,
      WriteToken, EnsureProject, MakeImage, MakeOverlay, LinkProject, LoadTables, StartUnits,
      MakeLabDir, AddTap, ReplaceCurrent, StartLab
<1>2. ASSUME NEW p \in Terminals, Undo(p) \/ Stop(p) PROVE FALSE
  BY <1>2 DEF Undo, Fails, StartUnitsFails, UndoUnits, UndoLab, UndoCleanup,
      Stop, BeginStop, StopUnits, StopLab
<1>3. ASSUME NEW p \in Terminals, Ends(p) PROVE RemoveScratch(p)
  BY <1>3 DEF Ends, DropTables, RemoveFiles
<1>4. ASSUME NEW p \in Terminals, Export(p) PROVE Discard(p)
  BY <1>4 DEF Export, BeginExport, StopGuests, ListResults, CopyResults, Publish
<1>5. ASSUME NEW p \in Terminals, Kill(p) PROVE FALSE BY <1>5 DEF Kill
<1>6. ~GuestEnds /\ ~Reboot BY DEF GuestEnds, Reboot
<1>7. ASSUME NEW p \in Terminals, MakeScratch(p)
      PROVE  \A s \in Sessions : results'[s] # results[s] => results'[s] # 0
  BY <1>7 DEF MakeScratch, TypeInv, TypeOK
<1>8. ASSUME GuestWrites
      PROVE  \A s \in Sessions : results'[s] # results[s] => results'[s] # 0
  <2>1. results' = [results EXCEPT ![lab] = results[lab] + 1] /\ results[lab] \in 1..(MaxWrites - 1)
    BY <1>8 DEF GuestWrites
  <2>2. results[lab] + 1 # 0 BY <2>1 DEF HostSessionAssumption
  <2> QED BY <2>1, <2>2 DEF TypeInv, TypeOK
<1> QED BY <1>1, <1>2, <1>3, <1>4, <1>5, <1>6, <1>7, <1>8 DEF Next

LEMMA ResultsStep == HostSessionAssumption /\ OneOperator /\ HostInv /\ [Next]_vars => ResultsGoBy
<1> SUFFICES ASSUME HostSessionAssumption, OneOperator, HostInv, [Next]_vars,
                    NEW s \in Sessions, results[s] # 0, results'[s] = 0
             PROVE  \/ exports[s].image = results[s]
                    \/ \E p \in Terminals :
                          Mine(p) = s /\ \E step \in {"stop scratch", "undo scratch"} : At(p, step)
  BY DEF ResultsGoBy
<1>1. results' # results OBVIOUS
<1>2. Next /\ TypeInv /\ TypeOK /\ ExportSees
  BY <1>1 DEF HostInv, TypeInv, SessionInv, vars, diskVars
<1>3. PICK p \in Terminals : RemoveScratch(p) \/ Discard(p)
  BY <1>1, <1>2, WhoWritesResults
<1>4. Mine(p) = s BY <1>2, <1>3 DEF RemoveScratch, Discard, TypeOK
<1>5. CASE RemoveScratch(p) BY <1>4, <1>5 DEF RemoveScratch
<1>6. CASE Discard(p) BY <1>2, <1>4, <1>6 DEF Discard, ExportSees
<1> QED BY <1>3, <1>5, <1>6

(* The results of a session go by a stop, by the undoing of its start, or when *)
(* an export has them all, whatever failed and wherever a command was killed.  *)
THEOREM HostResultsAreKept == OneOperator => (Spec => ResultsAreKept)
<1> SUFFICES ASSUME OneOperator PROVE Spec => ResultsAreKept OBVIOUS
<1>1. Spec => []HostInv BY HostInvariant
<1>2. HostInv /\ [Next]_vars => [ResultsGoBy]_vars BY ResultsStep, HostSessionAssumption
<1>3. ResultsAreKept <=> [][ResultsGoBy]_vars BY DEF ResultsAreKept, ResultsGoBy
<1> QED BY <1>1, <1>2, <1>3, PTL DEF Spec
===============================================================================
