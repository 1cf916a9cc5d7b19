--------------------------- MODULE HookLedgerDisk ---------------------------
(***************************************************************************)
(* HookLedger on a machine that can lose power: what the page cache holds  *)
(* and no fsync or kernel writeback has stored may be gone afterwards.     *)
(* _append_record fsyncs the ledger file, and never the directory that     *)
(* names it: neither when the first append creates the file nor when a     *)
(* repair renames another over it.  repair_hook_ledger fsyncs neither the  *)
(* quarantine file nor the file it renames.                                *)
(***************************************************************************)
EXTENDS HookLedger

VARIABLES disk,     \* what is stored of the ledger file: its lines, and whether the last is torn
          linked,   \* the stored directory leads to that file
          entry,    \* what is stored of the file it leads to otherwise
          stored,   \* quarantine files whose bytes are stored
          synced,   \* history: the file was stored since it took the ledger's place
          late,     \* history: records acknowledged while the directory led elsewhere
          archived  \* history: acknowledged records a repair moved to a quarantine file

diskVars == <<disk, linked, entry, stored, synced, late, archived>>

Cached == [lines |-> lines, torn |-> torn]

(* No file, or one with nothing in it. *)
Empty == [lines |-> <<>>, torn |-> FALSE]

(* What a power failure makes of the ledger file: as stored, as it was, or   *)
(* with the start of a line that had not been stored.                        *)
Returns ==
  {disk, Cached}
    \cup (IF Len(lines) > Len(disk.lines) /\ ~disk.torn
            THEN {[lines |-> Append(disk.lines, Junk), torn |-> TRUE]} ELSE {})

DiskInit ==
  /\ Init
  /\ disk = Empty /\ linked = FALSE /\ entry = Empty
  /\ stored = {} /\ synced = TRUE /\ late = {} /\ archived = {}

(* Mutant: the record is acknowledged without an fsync. *)
Acknowledge_NoFsync ==
  /\ acked' # acked
  /\ synced' = TRUE
  /\ late' = IF linked THEN late ELSE late \cup (acked' \ acked)
  /\ UNCHANGED <<disk, linked, entry, archived>>

(* The fsync of an append stores the whole ledger file, and nothing else. *)
Acknowledge ==
  /\ acked' # acked
  /\ disk' = Cached'
  /\ synced' = TRUE
  /\ late' = IF linked THEN late ELSE late \cup (acked' \ acked)
  /\ UNCHANGED <<linked, entry, archived>>

(* os.replace: the stored directory still leads to the file before, of which *)
(* nothing is stored any more that was not (or will be by itself), and       *)
(* nothing need be stored of the new one.                                    *)
Displace ==
  /\ moved' # moved
  /\ disk' = Empty
  /\ entry' \in IF linked THEN Returns ELSE {entry}
  /\ linked' = FALSE
  /\ late' = IF linked /\ ~synced THEN acked ELSE late
  /\ synced' = FALSE
  /\ archived' = archived \cup {h \in acked : Holds(lines, h) /\ ~Holds(lines', h)}

(* A step of a process or an outsider. *)
CachedStep ==
  /\ Next
  /\ \/ Acknowledge
     \/ Displace
     \/ /\ UNCHANGED <<acked, moved>>
        /\ UNCHANGED <<disk, linked, entry, synced, late, archived>>
  /\ UNCHANGED stored

(* The kernel writes dirty pages back when it likes, those of files ... *)
Writeback ==
  /\ disk' = Cached
  /\ synced' = TRUE
  /\ stored' = 1..Len(quarantine)
  /\ UNCHANGED <<vars, linked, entry, late, archived>>

(* ... and those of the directory, once there is a file to name. *)
StoreEntry ==
  /\ ~linked /\ Cached # Empty
  /\ linked' = TRUE /\ entry' = Empty
  /\ late' = {}
  /\ UNCHANGED <<vars, disk, stored, synced, archived>>

(* Power fails, every process ends.  The ledger's name leads to the file it  *)
(* led to, or to the one the stored directory names; a quarantine file that  *)
(* was not stored comes back whole or empty.                                 *)
PowerLoss ==
  /\ \E after \in Returns \cup (IF linked THEN {} ELSE {entry}) :
       /\ lines' = after.lines /\ torn' = after.torn
       /\ disk' = after
       /\ linked' = (after # Empty)
  /\ entry' = Empty
  /\ synced' = TRUE /\ late' = {}
  /\ quarantine' \in {quarantine,
       [k \in 1..Len(quarantine) |-> IF k \in stored THEN quarantine[k] ELSE <<>>]}
  /\ stored' = 1..Len(quarantine)
  /\ pc' = [p \in Proc |-> "idle"]
  /\ holder' = NoProc /\ base' = NoBase /\ kept' = <<>>
  /\ UNCHANGED <<issued, acked, tampered, edits, moved, archived>>

DiskSpec ==
  DiskInit /\ [][CachedStep \/ Writeback \/ StoreEntry \/ PowerLoss]_<<vars, diskVars>>

-----------------------------------------------------------------------------
(* A record fsync acknowledged leaves the ledger only by an outsider's hand, *)
(* by a repair that moves it to a quarantine file, or by a power failure in  *)
(* one of two windows: while a file that replaced the ledger has not been    *)
(* stored, and, for a record acknowledged since the directory's entry        *)
(* changed, until the directory has been.                                    *)
AppendDurable ==
  [][\A h \in acked :
       Holds(lines, h) /\ ~Holds(lines', h)
       => h \in tampered' \cup archived' \cup late \/ ~synced]_<<vars, diskVars>>
=============================================================================
