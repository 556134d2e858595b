------------------------------ MODULE HostSession -----------------------------
(* The host's commands pta start, stop and export (host_cli.py), with the root *)
(* helpers they call (volume_helper.py, malware_lab.py).  A command is a       *)
(* process that takes one step after another; it can be killed between two of  *)
(* them and in the middle of one.  What it leaves is in /run, which a reboot   *)
(* empties, in nftables, in units of systemd, and in /var/lib/pentestagent.    *)
EXTENDS Integers, FiniteSets

CONSTANTS
    Terminals,      \* where the operator enters commands
    MaxSessions,    \* bound: sessions that are started; they are 1, 2, ...
    MaxWrites       \* bound: states of the results of a malware session

ASSUME HostSessionAssumption == MaxSessions \in Nat /\ MaxWrites \in Nat \ {0}

Sessions == 1..MaxSessions
Guests == {"linux", "windows"}
Kinds == {"pentest"} \cup Guests
Files == {"session", "guest", "token", "overlay", "project"}

VARIABLES
    files,      \* /run/pentestagent: the session each file was written for; 0 if none
    kind,       \* mode and guest of each session; "none" before it is confirmed
    tables,     \* sessions whose rules are in nftables, which lets through no more
    vm,         \* what microvm@pentest has booted with; NoVm if it is off
    broker,     \* the broker is on
    lab,        \* the session a pta-malware unit is on for; 0 if none is
    labDirs,    \* sessions that have a directory in /run/pta-malware
    current,    \* /run/pta-malware/current; 0 if there is none
    tap,        \* the TAP of the Windows guest exists
    volume,     \* the block volume of the project, which is a file in a subvolume
    results,    \* the state of the scratch image of each session; 0 if none
    exports,    \* what projects have of a session: its manifest and its image
    command,    \* of each terminal
    abandoned   \* history: sessions whose units a failed start could not stop

runVars == <<files, tables, vm, broker, lab, labDirs, current, tap>>
diskVars == <<volume, results, exports>>
vars == <<runVars, diskVars, kind, command, abandoned>>

NoVm == [session |-> 0, overlay |-> 0]
NoExport == [manifest |-> 0, image |-> 0]
Idle == [at |-> "idle", session |-> 0, listed |-> 0, copied |-> 0]
NoFiles == [f \in Files |-> 0]

Init ==
    /\ files = NoFiles /\ tables = {} /\ vm = NoVm /\ broker = FALSE
    /\ lab = 0 /\ labDirs = {} /\ current = 0 /\ tap = FALSE
    /\ volume = "none"
    /\ kind = [s \in Sessions |-> "none"]
    /\ results = [s \in Sessions |-> 0]
    /\ exports = [s \in Sessions |-> NoExport]
    /\ command = [p \in Terminals |-> Idle]
    /\ abandoned = {}

-------------------------------------------------------------------------------
At(p, step) == command[p].at = step
Mine(p) == command[p].session
MyKind(p) == kind[Mine(p)]
Moves(p, step) == command' = [command EXCEPT ![p].at = step]
Leaves(p) == command' = [command EXCEPT ![p] = Idle]

(* _load_session and _ensure_no_session: session.json alone tells.             *)
ActiveSession == files["session"]

Write(p, file) == files' = [files EXCEPT ![file] = Mine(p)]

UnitVars == <<vm, broker>>
LabVars == <<lab, labDirs, current, tap>>

-------------------------------------------------------------------------------
(* pta start pentest | malware.                                                *)

BeginStart(p) ==
    /\ At(p, "idle") /\ ActiveSession = 0
    /\ Moves(p, "confirm")
    /\ UNCHANGED <<runVars, kind, diskVars, abandoned>>

(* The session is described to the operator, confirmed and recorded.           *)
NewSession(p, k) ==
    /\ At(p, "confirm")
    /\ \E s \in Sessions :
         /\ kind[s] = "none" /\ \A u \in Sessions : u < s => kind[u] # "none"
         /\ kind' = [kind EXCEPT ![s] = k]
         /\ files' = [files EXCEPT !["session"] = s]
         /\ command' = [command EXCEPT ![p].at = "guest", ![p].session = s]
    /\ UNCHANGED <<tables, UnitVars, LabVars, diskVars, abandoned>>

ConfirmPentest(p) == NewSession(p, "pentest")
ConfirmMalware(p) == \E guest \in Guests : NewSession(p, guest)

(* _write_guest_metadata, with the token of the guest.                         *)
WriteGuestMetadata(p) ==
    /\ At(p, "guest")
    /\ Write(p, "guest")
    /\ Moves(p, IF MyKind(p) = "pentest" THEN "token" ELSE "lab")
    /\ UNCHANGED <<tables, UnitVars, LabVars, kind, diskVars, abandoned>>

WriteToken(p) ==
    /\ At(p, "token")
    /\ Write(p, "token")
    /\ Moves(p, "volume")
    /\ UNCHANGED <<tables, UnitVars, LabVars, kind, diskVars, abandoned>>

(* pta-volume ensure, before an export too: a volume there is gets a snapshot, *)
(* whatever is in it.                                                          *)
Ensured(p) == IF MyKind(p) = "pentest" THEN "overlay" ELSE "copy"

EnsureProject(p) ==
    /\ At(p, "volume")
    /\ \/ volume \in {"raw", "formatted"} /\ Moves(p, Ensured(p)) /\ UNCHANGED volume
       \/ volume = "none" /\ volume' = "empty" /\ Moves(p, "image")
    /\ UNCHANGED <<runVars, kind, results, exports, abandoned>>

(* The image is made, then formatted.                                          *)
MakeImage(p) ==
    /\ \/ At(p, "image") /\ volume' = "raw" /\ Moves(p, "format")
       \/ At(p, "format") /\ volume' = "formatted" /\ Moves(p, Ensured(p))
    /\ UNCHANGED <<runVars, kind, results, exports, abandoned>>

(* Mutant: an overlay that exists is used again.                               *)
KeepOverlay(p) ==
    /\ At(p, "overlay")
    /\ IF files["overlay"] = 0 THEN Write(p, "overlay") ELSE UNCHANGED files
    /\ Moves(p, "project")
    /\ UNCHANGED <<tables, UnitVars, LabVars, kind, diskVars, abandoned>>

(* pta-volume prepare: an overlay in place of the one that exists.             *)
MakeOverlay(p) ==
    /\ At(p, "overlay")
    /\ Write(p, "overlay")
    /\ Moves(p, "project")
    /\ UNCHANGED <<tables, UnitVars, LabVars, kind, diskVars, abandoned>>

LinkProject(p) ==
    /\ At(p, "project")
    /\ Write(p, "project")
    /\ Moves(p, "drop")
    /\ UNCHANGED <<tables, UnitVars, LabVars, kind, diskVars, abandoned>>

(* nft delete, of a start, of its undoing, or of a stop.                       *)
DropTables(p) ==
    /\ tables' = {}
    /\ \/ At(p, "drop") /\ Moves(p, "load")
       \/ At(p, "undo tables") /\ Moves(p, "undo files")
       \/ At(p, "stop tables") /\ Moves(p, "stop files")
    /\ UNCHANGED <<files, UnitVars, LabVars, kind, diskVars, abandoned>>

(* nft -f adds to the tables there are.                                        *)
LoadTables(p) ==
    /\ At(p, "load")
    /\ tables' = tables \cup {Mine(p)}
    /\ Moves(p, "units")
    /\ UNCHANGED <<files, UnitVars, LabVars, kind, diskVars, abandoned>>

(* microvm@pentest: nothing if it is on, or if a path is missing on which it   *)
(* has a condition: project.img, and session.json and broker-token of "guest". *)
Boot ==
    IF vm # NoVm \/ \E f \in {"project", "guest"} : files[f] = 0 THEN vm
    ELSE [session |-> files["guest"], overlay |-> files["overlay"]]

StartUnits(p) ==
    /\ At(p, "units")
    /\ vm' = Boot /\ broker' = TRUE
    /\ Leaves(p)
    /\ UNCHANGED <<files, tables, LabVars, kind, diskVars, abandoned>>

-------------------------------------------------------------------------------
(* pta-malware-lab prepare and cleanup.                                        *)

(* The directory, and in it the sample as an image.                            *)
MakeLabDir(p) ==
    /\ At(p, "lab")
    /\ labDirs' = labDirs \cup {Mine(p)}
    /\ Moves(p, "scratch")
    /\ UNCHANGED <<files, tables, UnitVars, lab, current, tap, kind, diskVars, abandoned>>

MakeScratch(p) ==
    /\ At(p, "scratch")
    /\ results' = [results EXCEPT ![Mine(p)] = 1]
    /\ Moves(p, IF MyKind(p) = "windows" THEN "tap" ELSE "current")
    /\ UNCHANGED <<runVars, kind, volume, exports, abandoned>>

AddTap(p) ==
    /\ At(p, "tap") /\ ~tap
    /\ tap' = TRUE
    /\ Moves(p, "current")
    /\ UNCHANGED <<files, tables, UnitVars, lab, labDirs, current, kind, diskVars, abandoned>>

ReplaceCurrent(p) ==
    /\ At(p, "current")
    /\ current' = Mine(p)
    /\ Moves(p, "start lab")
    /\ UNCHANGED <<files, tables, UnitVars, lab, labDirs, tap, kind, diskVars, abandoned>>

StartLab(p) ==
    /\ At(p, "start lab")
    /\ lab' = IF lab = 0 THEN current ELSE lab
    /\ Leaves(p)
    /\ UNCHANGED <<files, tables, UnitVars, labDirs, current, tap, kind, diskVars, abandoned>>

(* cleanup goes by session.json, and raises if that is of another guest.       *)
Cleanup(guest) ==
    IF ActiveSession # 0 /\ kind[ActiveSession] = guest
      THEN /\ labDirs' = labDirs \ {ActiveSession}
           /\ current' = 0
           /\ tap' = (tap /\ guest # "windows")
      ELSE UNCHANGED <<labDirs, current, tap>>

(* systemctl stop of a pta-malware unit, whose ExecStop is a cleanup; that is  *)
(* not run if the unit is off.                                                 *)
StopLabUnit(guest) ==
    IF lab # 0 /\ kind[lab] = guest
      THEN lab' = 0 /\ Cleanup(guest)
      ELSE UNCHANGED LabVars

-------------------------------------------------------------------------------
(* A step of a start that fails, and the except clause of the start.           *)

(* A volume that could not be made is removed.                                 *)
Fails(p) ==
    /\ IF \E step \in {"image", "format"} : At(p, step) THEN volume' = "none" ELSE UNCHANGED volume
    /\ \/ \E step \in {"volume", "image", "format", "overlay", "project", "load"} :
             /\ At(p, step)
             /\ IF MyKind(p) = "pentest" THEN Moves(p, "undo units") ELSE Leaves(p)
       \/ \E step \in {"lab", "scratch", "tap", "current", "start lab"} :
             At(p, step) /\ Moves(p, "undo lab")
    /\ UNCHANGED <<runVars, kind, results, exports, abandoned>>

(* One of the two units did not start.                                         *)
StartUnitsFails(p) ==
    /\ At(p, "units")
    /\ vm' \in {vm, Boot} /\ broker' \in BOOLEAN
    /\ Moves(p, "undo units")
    /\ UNCHANGED <<files, tables, LabVars, kind, diskVars, abandoned>>

(* The result of systemctl stop is not looked at.                              *)
UndoUnits(p) ==
    /\ At(p, "undo units")
    /\ \/ vm' = NoVm /\ broker' = FALSE /\ UNCHANGED abandoned
       \/ abandoned' = abandoned \cup ({vm.session} \ {0}) /\ UNCHANGED UnitVars
    /\ Moves(p, "undo tables")
    /\ UNCHANGED <<files, tables, LabVars, kind, diskVars>>

UndoLab(p) ==
    /\ At(p, "undo lab")
    /\ \/ StopLabUnit(MyKind(p)) /\ UNCHANGED abandoned
       \/ abandoned' = abandoned \cup ({lab} \ {0}) /\ UNCHANGED LabVars
    /\ Moves(p, "undo cleanup")
    /\ UNCHANGED <<files, tables, UnitVars, kind, diskVars>>

UndoCleanup(p) ==
    /\ At(p, "undo cleanup")
    /\ Cleanup(MyKind(p))
    /\ Moves(p, "undo scratch")
    /\ UNCHANGED <<files, tables, UnitVars, lab, kind, diskVars, abandoned>>

-------------------------------------------------------------------------------
(* pta stop, and the last steps it shares with the except clauses.             *)

BeginStop(p) ==
    /\ At(p, "idle") /\ ActiveSession # 0
    /\ command' = [command EXCEPT
         ![p].at = IF kind[ActiveSession] = "pentest" THEN "stop units" ELSE "stop lab",
         ![p].session = ActiveSession]
    /\ UNCHANGED <<runVars, kind, diskVars, abandoned>>

(* Mutant: a failure is passed over.                                           *)
StopUnitsAnyhow(p) ==
    /\ At(p, "stop units")
    /\ vm' \in {vm, NoVm} /\ broker' \in {broker, FALSE}
    /\ Moves(p, "stop tables")
    /\ UNCHANGED <<files, tables, LabVars, kind, diskVars, abandoned>>

(* A failure ends the command.                                                 *)
StopUnits(p) ==
    /\ At(p, "stop units")
    /\ \/ vm' = NoVm /\ broker' = FALSE /\ Moves(p, "stop tables")
       \/ vm' \in {vm, NoVm} /\ broker' \in {broker, FALSE} /\ Leaves(p)
    /\ UNCHANGED <<files, tables, LabVars, kind, diskVars, abandoned>>

StopLab(p) ==
    /\ At(p, "stop lab")
    /\ \/ StopLabUnit(MyKind(p)) /\ Moves(p, "stop scratch")
       \/ UNCHANGED LabVars /\ Leaves(p)
    /\ UNCHANGED <<files, tables, UnitVars, kind, diskVars, abandoned>>

RemoveScratch(p) ==
    /\ \/ At(p, "undo scratch") /\ Moves(p, "undo files")
       \/ At(p, "stop scratch") /\ Moves(p, "stop files")
    /\ results' = [results EXCEPT ![Mine(p)] = 0]
    /\ UNCHANGED <<runVars, kind, volume, exports, abandoned>>

RemoveFiles(p) ==
    /\ At(p, "undo files") \/ At(p, "stop files")
    /\ files' = NoFiles
    /\ Leaves(p)
    /\ UNCHANGED <<tables, UnitVars, LabVars, kind, diskVars, abandoned>>

-------------------------------------------------------------------------------
(* pta export.                                                                 *)

BeginExport(p) ==
    /\ At(p, "idle") /\ ActiveSession # 0
    /\ kind[ActiveSession] # "pentest"
    /\ command' = [command EXCEPT ![p].at = "export", ![p].session = ActiveSession]
    /\ UNCHANGED <<runVars, kind, diskVars, abandoned>>

(* Mutant: the guests are left on.                                             *)
StopNothing(p) ==
    /\ At(p, "export")
    /\ Moves(p, "list")
    /\ UNCHANGED <<runVars, kind, diskVars, abandoned>>

StopGuests(p) ==
    /\ At(p, "export")
    /\ \/ StopLabUnit(MyKind(p)) /\ Moves(p, "list")
       \/ UNCHANGED LabVars /\ Leaves(p)
    /\ UNCHANGED <<files, tables, UnitVars, kind, diskVars, abandoned>>

(* The manifest is made and shown; there may be no results, or an export.      *)
ListResults(p) ==
    /\ At(p, "list")
    /\ IF results[Mine(p)] = 0 \/ exports[Mine(p)] # NoExport
         THEN Leaves(p)
         ELSE command' = [command EXCEPT ![p].at = "volume", ![p].listed = results[Mine(p)]]
    /\ UNCHANGED <<runVars, kind, diskVars, abandoned>>

(* Mutant: the except clause removes what was copied, and does not raise.      *)
CopyResultsAnyhow(p) ==
    /\ At(p, "copy")
    /\ \/ command' = [command EXCEPT ![p].at = "publish", ![p].copied = results[Mine(p)]]
       \/ Moves(p, "discard")
    /\ UNCHANGED <<runVars, kind, diskVars, abandoned>>

(* Into a directory of its own, removed if it fails.                           *)
CopyResults(p) ==
    /\ At(p, "copy")
    /\ \/ command' = [command EXCEPT ![p].at = "publish", ![p].copied = results[Mine(p)]]
       \/ Leaves(p)
    /\ UNCHANGED <<runVars, kind, diskVars, abandoned>>

Publish(p) ==
    /\ At(p, "publish")
    /\ exports' = [exports EXCEPT
         ![Mine(p)] = [manifest |-> command[p].listed, image |-> command[p].copied]]
    /\ Moves(p, "discard")
    /\ UNCHANGED <<runVars, kind, volume, results, abandoned>>

Discard(p) ==
    /\ At(p, "discard")
    /\ results' = [results EXCEPT ![Mine(p)] = 0]
    /\ Leaves(p)
    /\ UNCHANGED <<runVars, kind, volume, exports, abandoned>>

-------------------------------------------------------------------------------
(* What else happens.                                                          *)

(* A command is killed, by Ctrl-C too, which is not an Exception: no except    *)
(* clause runs.  systemd may have done what it was asked; of a directory that  *)
(* is being removed any part is left.                                          *)
Kill(p) ==
    /\ ~At(p, "idle")
    /\ Leaves(p)
    /\ CASE At(p, "units") -> vm' \in {vm, Boot} /\ broker' \in BOOLEAN /\ UNCHANGED <<files, LabVars>>
         [] At(p, "start lab") -> lab' \in {lab, current} /\ UNCHANGED <<files, UnitVars, labDirs, current, tap>>
         [] At(p, "undo files") \/ At(p, "stop files") ->
              /\ \E left \in SUBSET Files : files' = [f \in Files |-> IF f \in left THEN files[f] ELSE 0]
              /\ UNCHANGED <<UnitVars, LabVars>>
         [] OTHER -> UNCHANGED <<files, UnitVars, LabVars>>
    /\ UNCHANGED <<tables, kind, diskVars, abandoned>>

(* The guest of a session shuts down; that of a Windows session ends its unit. *)
GuestEnds ==
    /\ \/ vm # NoVm /\ vm' = NoVm /\ UNCHANGED <<broker, LabVars>>
       \/ lab # 0 /\ kind[lab] = "windows" /\ lab' = 0 /\ Cleanup("windows") /\ UNCHANGED UnitVars
    /\ UNCHANGED <<files, tables, kind, diskVars, command, abandoned>>

(* A malware guest writes results.                                             *)
GuestWrites ==
    /\ lab # 0 /\ results[lab] \in 1..(MaxWrites - 1)
    /\ results' = [results EXCEPT ![lab] = @ + 1]
    /\ UNCHANGED <<runVars, kind, volume, exports, command, abandoned>>

(* The host restarts; /var/lib/pentestagent stays.                             *)
Reboot ==
    /\ files' = NoFiles /\ tables' = {} /\ vm' = NoVm /\ broker' = FALSE
    /\ lab' = 0 /\ labDirs' = {} /\ current' = 0 /\ tap' = FALSE
    /\ command' = [p \in Terminals |-> Idle]
    /\ UNCHANGED <<kind, diskVars, abandoned>>

Start(p) ==
    \/ BeginStart(p) \/ ConfirmPentest(p) \/ ConfirmMalware(p) \/ WriteGuestMetadata(p)
    \/ WriteToken(p) \/ EnsureProject(p) \/ MakeImage(p) \/ MakeOverlay(p) \/ LinkProject(p) \/ LoadTables(p) \/ StartUnits(p)
    \/ MakeLabDir(p) \/ MakeScratch(p) \/ AddTap(p) \/ ReplaceCurrent(p) \/ StartLab(p)
Undo(p) == Fails(p) \/ StartUnitsFails(p) \/ UndoUnits(p) \/ UndoLab(p) \/ UndoCleanup(p)
Stop(p) == BeginStop(p) \/ StopUnits(p) \/ StopLab(p)
Ends(p) == DropTables(p) \/ RemoveScratch(p) \/ RemoveFiles(p)
Export(p) ==
    \/ BeginExport(p) \/ StopGuests(p) \/ ListResults(p)
    \/ CopyResults(p) \/ Publish(p) \/ Discard(p)

Next ==
    \/ \E p \in Terminals : Start(p) \/ Undo(p) \/ Stop(p) \/ Ends(p) \/ Export(p) \/ Kill(p)
    \/ GuestEnds
    \/ GuestWrites
    \/ Reboot

Spec == Init /\ [][Next]_vars

-------------------------------------------------------------------------------
(* Properties.                                                                 *)

Steps == {"idle", "confirm", "guest", "token", "overlay", "project", "drop", "load", "units",
          "lab", "scratch", "tap", "current", "start lab",
          "undo units", "undo tables", "undo lab", "undo cleanup", "undo scratch", "undo files",
          "stop units", "stop tables", "stop lab", "stop scratch", "stop files",
          "volume", "image", "format", "export", "list", "copy", "publish", "discard"}
Ids == 0..MaxSessions

(* Every variable has its type.                                                *)
TypeOK ==
    /\ files \in [Files -> Ids]
    /\ kind \in [Sessions -> Kinds \cup {"none"}]
    /\ tables \in SUBSET Sessions
    /\ vm \in [session : Ids, overlay : Ids]
    /\ broker \in BOOLEAN
    /\ lab \in Ids
    /\ labDirs \in SUBSET Sessions
    /\ current \in Ids
    /\ tap \in BOOLEAN
    /\ volume \in {"none", "empty", "raw", "formatted"}
    /\ results \in [Sessions -> 0..MaxWrites]
    /\ exports \in [Sessions -> [manifest : 0..MaxWrites, image : 0..MaxWrites]]
    /\ command \in [Terminals -> [at : Steps, session : Ids, listed : 0..MaxWrites, copied : 0..MaxWrites]]
    /\ abandoned \in SUBSET Sessions

(* Whatever lets packets through, and every guest that is on, belongs to the   *)
(* session on file, at which the next start stops short and which a stop ends: *)
(* no guest is ever under the rules of another session, whichever command was  *)
(* killed where.  Excepted are guests a failed start could not stop.           *)
SessionOwnsAll ==
    /\ tables \subseteq {ActiveSession}
    /\ vm.session \in {0, ActiveSession} \cup abandoned
    /\ lab \in {0, ActiveSession} \cup abandoned

(* start pentest: "with a fresh ephemeral overlay".  A guest is booted with an *)
(* overlay that was made for its session, also after a removal that was left   *)
(* half done; and it has the token the broker expects.                         *)
FreshGuest ==
    vm # NoVm => /\ vm.overlay = vm.session
                 /\ vm.session \notin abandoned => files["token"] = vm.session

(* An export holds the results its manifest, which the operator has confirmed, *)
(* describes.                                                                  *)
ExportIsAsConfirmed == \A s \in Sessions : exports[s].manifest = exports[s].image

(* docs/nixos-workstation.md:239: "Scratch remains only long enough for `pta   *)
(* export`".  It remains that long: the results of a session go by a stop, by  *)
(* the undoing of its own start, or when an export has them all, the last the  *)
(* guest wrote among them; never because an export failed or was killed.       *)
ResultsAreKept ==
    [][\A s \in Sessions : results[s] # 0 /\ results'[s] = 0 =>
          \/ exports[s].image = results[s]
          \/ \E p \in Terminals :
                Mine(p) = s /\ \E step \in {"stop scratch", "undo scratch"} : At(p, step)]_vars

(* docs/nixos-workstation.md:238: "Every stop removes the sample ISO,          *)
(* firmware-variable copy, TAP, and Linux or Windows overlay".  Without a      *)
(* session and a command there is no directory of a malware session.           *)
StopRemovesSample ==
    ActiveSession = 0 /\ (\A p \in Terminals : At(p, "idle")) => labDirs = {} /\ ~tap
===============================================================================
