------------------------------ MODULE AuditChain ------------------------------
(* runtime/policy.py: AuditLog, as operators on the lines of its file.         *)
(*                                                                             *)
(* A line carries an event, the hash it chains to (previous_hash), its own     *)
(* hash, and how its bytes ended on disk:                                      *)
(*   "whole"  all of it, newline included                                      *)
(*   "bare"   all of it but the newline                                        *)
(*   "cut"    a strict prefix of the JSON text                                 *)
(* Hashes are abstracted to positions: the line written at position n has hash *)
(* n, no two lines share one, and the hash of an untouched line checks out.    *)
EXTENDS Integers, Sequences

Genesis == 0        \* "0" * 64

Forms == {"whole", "bare", "cut"}

Line(file, head, event, form) ==
    [event |-> event, previous |-> head, hash |-> Len(file) + 1, form |-> form]

(* Mutant: the loader checks each line alone and forgets the chain.            *)
VerifiesLinesOnly(file) ==
    \A i \in DOMAIN file :
        file[i].form = "whole" \/ (file[i].form = "bare" /\ i = Len(file))

(* _load_existing_chain: every line parses, and chains to the one before it.   *)
(* A line without its newline parses only while nothing follows it.            *)
Verifies(file) ==
    \A i \in DOMAIN file :
        /\ file[i].form = "whole" \/ (file[i].form = "bare" /\ i = Len(file))
        /\ file[i].previous = (IF i = 1 THEN Genesis ELSE file[i - 1].hash)

(* Mutant: the loader verifies the chain and does not resume it.               *)
LoadedHeadLost(file) == Genesis

(* _previous_hash after loading a file that verifies.                          *)
LoadedHead(file) == IF file = <<>> THEN Genesis ELSE file[Len(file)].hash

(* append returns: the line is on disk (fsync).                                *)
Written(file, head, event) == Append(file, Line(file, head, event, "whole"))

(* append raises: what it may leave behind.  The open failed and nothing was   *)
(* written, or a write or the fsync failed after some or all of the bytes.     *)
Leftovers(file, head, event) ==
    {file} \cup {Append(file, Line(file, head, event, form)) : form \in Forms}
===============================================================================
