----------------------------- MODULE AtomicFile -----------------------------
(***************************************************************************)
(* _atomic_write_secret of both config.py, _atomic_write_secret_bytes of   *)
(* crypto.py and save_settings of settings.py, the four copies of one      *)
(* routine: mkstemp beside the file, write, fsync, os.replace.  An inode   *)
(* has the content the page cache holds and the one the disk holds, and so *)
(* has the name; the writers and the readers are threads and processes.    *)
(***************************************************************************)
CONSTANTS
    Writers, Readers,
    Contents, Initial,      \* what is saved; what the file holds at first
    Torn,                   \* an empty or half-written content
    Inodes, FirstInode, NoInode

ASSUME AtomicFileAssumption ==
    Initial \in Contents /\ Torn \notin Contents /\ FirstInode \in Inodes /\ NoInode \notin Inodes

VARIABLES
    cached, stored,     \* each inode's content in the page cache and on the disk
    named, namedOnDisk, \* the inode the name stands for, in the cache and on the disk
    stage, payload, temp,   \* each writer's progress, content and temporary inode
    handle, got,        \* each reader's open inode and the content it read last
    litter              \* the temporary files nobody removed
fileVars == <<cached, stored, named, namedOnDisk, stage, payload, temp, handle, got, litter>>

Stages == {"idle", "opened", "written", "synced"}

FileTypeOK ==
    /\ cached \in [Inodes -> Contents \cup {Torn}] /\ stored \in [Inodes -> Contents \cup {Torn}]
    /\ named \in Inodes /\ namedOnDisk \in Inodes
    /\ stage \in [Writers -> Stages] /\ payload \in [Writers -> Contents]
    /\ temp \in [Writers -> Inodes]
    /\ handle \in [Readers -> Inodes \cup {NoInode}] /\ got \in [Readers -> Contents \cup {Torn}]
    /\ litter \subseteq Inodes

FileInit ==
    /\ cached = [n \in Inodes |-> IF n = FirstInode THEN Initial ELSE Torn] /\ stored = cached
    /\ named = FirstInode /\ namedOnDisk = FirstInode
    /\ stage = [w \in Writers |-> "idle"] /\ payload = [w \in Writers |-> Initial]
    /\ temp = [w \in Writers |-> FirstInode]
    /\ handle = [r \in Readers |-> NoInode] /\ got = [r \in Readers |-> Initial]
    /\ litter = {}

Writing(w) == stage[w] # "idle"
InUse == {named, namedOnDisk} \cup litter \cup {handle[r] : r \in Readers}
            \cup {temp[w] : w \in {v \in Writers : Writing(v)}}

-----------------------------------------------------------------------------
(* A save *)

\* mkstemp: a new name, so an inode nobody uses; it is empty.
Mkstemp(w) ==
    /\ ~Writing(w)
    /\ \E n \in Inodes \ InUse, c \in Contents :
        /\ temp' = [temp EXCEPT ![w] = n]
        /\ payload' = [payload EXCEPT ![w] = c]
        /\ cached' = [cached EXCEPT ![n] = Torn]
        /\ stored' = [stored EXCEPT ![n] = Torn]
    /\ stage' = [stage EXCEPT ![w] = "opened"]
    /\ UNCHANGED <<named, namedOnDisk, handle, got, litter>>
\* fh.write and fh.flush
Write(w) ==
    /\ stage[w] = "opened"
    /\ cached' = [cached EXCEPT ![temp[w]] = payload[w]]
    /\ stage' = [stage EXCEPT ![w] = "written"]
    /\ UNCHANGED <<stored, named, namedOnDisk, payload, temp, handle, got, litter>>
Fsync(w) ==
    /\ stage[w] = "written"
    /\ stored' = [stored EXCEPT ![temp[w]] = cached[temp[w]]]
    /\ stage' = [stage EXCEPT ![w] = "synced"]
    /\ UNCHANGED <<cached, named, namedOnDisk, payload, temp, handle, got, litter>>
\* A defect: the file is renamed before it was synced.
ReplaceUnsynced(w) ==
    /\ stage[w] \in {"written", "synced"}
    /\ named' = temp[w]
    /\ stage' = [stage EXCEPT ![w] = "idle"]
    /\ UNCHANGED <<cached, stored, namedOnDisk, payload, temp, handle, got, litter>>
Replace(w) ==
    /\ stage[w] = "synced"
    /\ named' = temp[w]
    /\ stage' = [stage EXCEPT ![w] = "idle"]
    /\ UNCHANGED <<cached, stored, namedOnDisk, payload, temp, handle, got, litter>>
\* A step raises: the temporary file is unlinked, which may fail as well.
SaveFails(w) ==
    /\ Writing(w)
    /\ stage' = [stage EXCEPT ![w] = "idle"]
    /\ litter' \in {litter, litter \cup {temp[w]}}
    /\ UNCHANGED <<cached, stored, named, namedOnDisk, payload, temp, handle, got>>

-----------------------------------------------------------------------------
(* A load: open the name, read what was opened *)

Open(r) ==
    /\ handle[r] = NoInode
    /\ handle' = [handle EXCEPT ![r] = named]
    /\ UNCHANGED <<cached, stored, named, namedOnDisk, stage, payload, temp, got, litter>>
Read(r) ==
    /\ handle[r] # NoInode
    /\ got' = [got EXCEPT ![r] = cached[handle[r]]]
    /\ handle' = [handle EXCEPT ![r] = NoInode]
    /\ UNCHANGED <<cached, stored, named, namedOnDisk, stage, payload, temp, litter>>

-----------------------------------------------------------------------------
(* The kernel and the power (external) *)

WriteBack(n) ==
    /\ stored[n] # cached[n]
    /\ stored' = [stored EXCEPT ![n] = cached[n]]
    /\ UNCHANGED <<cached, named, namedOnDisk, stage, payload, temp, handle, got, litter>>
\* The directory reaches the disk.
Journal ==
    /\ namedOnDisk # named
    /\ namedOnDisk' = named
    /\ UNCHANGED <<cached, stored, named, stage, payload, temp, handle, got, litter>>
\* A power cut loses what is not on the disk.  A reader that had opened the file
\* is counted as having read it before.
PowerLoss ==
    /\ cached' = stored
    /\ named' = namedOnDisk
    /\ stage' = [w \in Writers |-> "idle"]
    /\ litter' = (litter \cup {named} \cup {temp[w] : w \in {v \in Writers : Writing(v)}})
                    \ {namedOnDisk}
    /\ handle' = [r \in Readers |-> NoInode]
    /\ got' = [r \in Readers |-> IF handle[r] = NoInode THEN got[r] ELSE cached[handle[r]]]
    /\ UNCHANGED <<stored, namedOnDisk, payload, temp>>

FileNext ==
    \/ \E w \in Writers : Mkstemp(w) \/ Write(w) \/ Fsync(w) \/ Replace(w) \/ SaveFails(w)
    \/ \E r \in Readers : Open(r) \/ Read(r)
    \/ (\E n \in Inodes : WriteBack(n)) \/ Journal \/ PowerLoss
FileSpec == FileInit /\ [][FileNext]_fileVars

-----------------------------------------------------------------------------
(* A reader takes the value when it opens the file: no inode changes once it *)
(* has the name.                                                             *)
SeenBy(r) == IF handle[r] = NoInode THEN got[r] ELSE cached[handle[r]]
Reg == INSTANCE Register WITH value <- cached[named], onDisk <- stored[namedOnDisk],
                              seen <- [r \in Readers |-> SeenBy(r)]

\* A saved configuration, key, token store or settings file is always one whole
\* save, to every reader and after a power cut, whatever saves overlap or fail:
\* the routine implements a register.
FileIsRegister == Reg!Spec
=============================================================================
