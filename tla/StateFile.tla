------------------------------ MODULE StateFile ------------------------------
(***************************************************************************)
(* The state file of the portal server: save_state and load_state of       *)
(* server/src/main.rs, cut at the system calls.                            *)
(*                                                                         *)
(* save_state writes the serialised map to `<path>.tmp` (open with         *)
(* truncation, then write from offset 0) and renames it to `<path>`.  It   *)
(* takes no lock, the name of the temporary file is fixed, and the server  *)
(* runs its handlers on several threads: two calls may interleave at every *)
(* system call.                                                            *)
(*                                                                         *)
(* A file is an inode, named by the call that created it.  Its content is  *)
(* the map whose bytes it begins with and its length.  The bytes of a whole*)
(* map written over a longer file leave the tail of the longer one behind, *)
(* and JSON followed by such a tail does not parse.  A part of a map over  *)
(* another one leaves the bytes of both, and those may parse: two pushes of*)
(* a node can differ in fields of fixed width only, so that the maps saved *)
(* for them are equally long and agree but for these fields.               *)
(*                                                                         *)
(* A write is one step or several: the kernel writes all the bytes it is   *)
(* given unless the disk is full or the process is killed meanwhile, and   *)
(* keeps two writes to one inode apart.                                    *)
(***************************************************************************)
EXTENDS Integers

CONSTANTS Saver,       \* the calls of save_state, each made at most once
          Map,         \* the maps that can be saved
          EmptyMap,    \* what load_state makes of a missing or corrupt file
          Size(_),     \* length of a serialised map
          IOErrors,    \* system calls may fail
          None

ASSUME FileAssumption ==
    /\ EmptyMap \in Map
    /\ None \notin Map
    /\ None \notin Saver
    /\ \A m \in Map : Size(m) \in Nat \ {0}

VARIABLES
    tmp, path,   \* the two directory entries: an inode, or None
    data,        \* inode -> content
    saver,       \* call -> [at: its next step, map: its argument, fd: the inode it has
                 \*          open, off: how many bytes of the map it has written there]
    clash,       \* history: some call has begun while another was running
    short,       \* history: some write has written a part only
    failed,      \* history: the call that ended last did not persist its map
    dark         \* history: the power has failed

fileVars == <<tmp, path, data, saver, clash, short, failed, dark>>

(* What a directory entry can be. *)
Link == Saver \cup {None}

(* Content: the file starts with the first `upto` bytes of the map `head`, *)
(* and is `size` bytes long.                                               *)
Content == [head : Map \cup {None}, upto : Nat, size : Nat]
Beginning(m, k) == [head |-> IF k = 0 THEN None ELSE m, upto |-> k, size |-> k]
Blank    == Beginning(EmptyMap, 0)
Whole(m) == Beginning(m, Size(m))

Longest(a, b)  == IF a >= b THEN a ELSE b
Agreed(c, m)   == IF c.head = m THEN c.upto ELSE 0

(* Content c with the bytes of m from offset `from` up to `to` written on  *)
(* it.  If it did not start with the bytes of m below `from`, these are    *)
(* bytes of others; or, if the file had been truncated meanwhile, zeros,   *)
(* which JSON never parses (None).                                         *)
Put(c, m, from, to) ==
    IF Agreed(c, m) >= from
    THEN [head |-> m, upto |-> Longest(Agreed(c, m), to), size |-> Longest(c.size, to)]
    ELSE [head |-> IF c.head = None \/ c.size < from THEN None ELSE m,
          upto |-> 0, size |-> Longest(c.size, to)]

(* serde_json::from_slice succeeds: one complete map and nothing after it. *)
Readable(c) == c.head # None /\ c.upto = Size(c.head) /\ c.size = c.upto

(* Where the bytes of one map end, those of another go on. *)
Mixture(c) == c.head # None /\ c.upto < Size(c.head) /\ c.upto < c.size

(* load_state: the map in the file; empty when it is missing or corrupt. *)
Loaded == IF path # None /\ Readable(data[path]) THEN data[path].head ELSE EmptyMap

(* What load_state may come back with: bytes of several maps may parse, and*)
(* then as a map nobody has saved.                                         *)
Loadable == IF path # None /\ Mixture(data[path]) THEN Map ELSE {Loaded}

Stage == {"idle", "create", "write", "rename", "done"}
Busy(s) == saver[s].at \in {"create", "write", "rename"}
Quiet   == \A s \in Saver : ~Busy(s)

-----------------------------------------------------------------------------
(* save_state(path, m) is called.  The map was cloned under the mutex, the *)
(* call runs outside it.                                                   *)
Begin(s, m) ==
    /\ saver[s].at = "idle"
    /\ saver' = [saver EXCEPT ![s] = [at |-> "create", map |-> m, fd |-> None, off |-> 0]]
    /\ clash' = (clash \/ ~Quiet)
    /\ UNCHANGED <<tmp, path, data, short, failed, dark>>

(* Mutant: an existing temporary file is opened without O_TRUNC. *)
CreateKeepingBytes(s) ==
    LET inode == IF tmp = None THEN s ELSE tmp IN
    /\ saver[s].at = "create"
    /\ tmp' = inode
    /\ saver' = [saver EXCEPT ![s].at = "write", ![s].fd = inode]
    /\ UNCHANGED <<path, data, clash, short, failed, dark>>

(* Mutant: the temporary file is opened without O_CREAT. *)
CreateNothing(s) ==
    /\ saver[s].at = "create"
    /\ data' = [data EXCEPT ![tmp] = Blank]
    /\ saver' = [saver EXCEPT ![s].at = "write", ![s].fd = tmp]
    /\ UNCHANGED <<tmp, path, clash, short, failed, dark>>

(* fs::write opens the temporary file with O_CREAT|O_TRUNC: an existing    *)
(* one is emptied under whoever else has it open.                          *)
Create(s) ==
    LET inode == IF tmp = None THEN s ELSE tmp IN
    /\ saver[s].at = "create"
    /\ tmp' = inode
    /\ data' = [data EXCEPT ![inode] = Blank]
    /\ saver' = [saver EXCEPT ![s].at = "write", ![s].fd = inode]
    /\ UNCHANGED <<path, clash, short, failed, dark>>

(* fs::write writes the bytes to the inode it opened, whatever its name is *)
(* by now, from where it has got to.  A system call may take fewer bytes   *)
(* than it is given; fs::write then goes on with the rest.                 *)
Short(s) ==
    /\ saver[s].at = "write"
    /\ \E k \in saver[s].off + 1 .. Size(saver[s].map) - 1 :
           /\ data' = [data EXCEPT ![saver[s].fd] = Put(@, saver[s].map, saver[s].off, k)]
           /\ saver' = [saver EXCEPT ![s].off = k]
    /\ short' = TRUE
    /\ UNCHANGED <<tmp, path, clash, failed, dark>>

(* Mutant: the map is serialised into the file (to_writer), in many writes. *)
WriteStreamed(s) ==
    LET m == saver[s].map
        k == saver[s].off + 1 IN
    /\ saver[s].at = "write"
    /\ data' = [data EXCEPT ![saver[s].fd] = Put(@, m, saver[s].off, k)]
    /\ saver' = IF k < Size(m) THEN [saver EXCEPT ![s].off = k]
                ELSE [saver EXCEPT ![s].at = "rename", ![s].fd = None, ![s].off = 0]
    /\ UNCHANGED <<tmp, path, clash, short, failed, dark>>

(* The system call that writes the last byte. *)
Write(s) ==
    LET m == saver[s].map IN
    /\ saver[s].at = "write"
    /\ data' = [data EXCEPT ![saver[s].fd] = Put(@, m, saver[s].off, Size(m))]
    /\ saver' = [saver EXCEPT ![s].at = "rename", ![s].fd = None, ![s].off = 0]
    /\ UNCHANGED <<tmp, path, clash, short, failed, dark>>

(* fs::rename moves whatever the temporary name stands for; when another   *)
(* call has moved it already the rename fails, which is only logged.       *)
Rename(s) ==
    /\ saver[s].at = "rename"
    /\ path' = IF tmp = None THEN path ELSE tmp
    /\ failed' = (tmp = None)
    /\ tmp' = None
    /\ saver' = [saver EXCEPT ![s].at = "done"]
    /\ UNCHANGED <<data, clash, short, dark>>

(* Mutant: the result of the write is ignored, the rename follows anyway. *)
AbortThenRename(s) ==
    /\ IOErrors /\ Busy(s)
    /\ saver' = [saver EXCEPT ![s].at = IF @ = "write" THEN "rename" ELSE "done",
                              ![s].fd = None, ![s].off = 0]
    /\ failed' = (IF saver[s].at = "write" THEN failed ELSE TRUE)
    /\ UNCHANGED <<tmp, path, data, clash, short, dark>>

(* An I/O error ends the call at any of its steps (disk full, permissions);*)
(* what it has written so far stays where it is.                           *)
Abort(s) ==
    /\ IOErrors /\ Busy(s)
    /\ saver' = [saver EXCEPT ![s].at = "done", ![s].fd = None, ![s].off = 0]
    /\ failed' = TRUE
    /\ UNCHANGED <<tmp, path, data, clash, short, dark>>

(* The process dies: every running call stops where it is, in the middle   *)
(* of its write perhaps.                                                   *)
Stopped == [s \in Saver |-> IF Busy(s)
                            THEN [saver[s] EXCEPT !.at = "done", !.fd = None, !.off = 0]
                            ELSE saver[s]]
Crash ==
    /\ saver' = Stopped
    /\ failed' = FALSE
    /\ UNCHANGED <<tmp, path, data, clash, short, dark>>

(* The machine loses its power.  Nothing was flushed (no fsync of the file *)
(* or its directory): the state file may be back at any earlier one, the   *)
(* last rename undone.  Or it is gone, or bytes of it are, so that it is   *)
(* short or has zeros in it and does not parse: for load_state, and for the*)
(* next rename, that is the same, and the model has no state file then.    *)
(* When calls have overlapped, the bytes of one may come out among those of*)
(* another; the last state file stands for whichever that is.  (Truncation *)
(* is taken to reach the disk before what is written after it.)  Whether   *)
(* the temporary file is left makes no difference either, as it is emptied *)
(* before it is written again; files without a name are gone.              *)
Recovered(p, c) ==
    /\ path' = p
    /\ data' = [i \in Saver |-> IF i = p THEN c ELSE Blank]

Mixed(m) == [head |-> m, upto |-> 0, size |-> Size(m)]

PowerCut ==
    /\ \/ Recovered(None, Blank)
       \/ \E p \in Saver \ {tmp} : Readable(data[p]) /\ Recovered(p, data[p])
       \/ path # None /\ clash /\ Recovered(path, Mixed(saver[path].map))
    /\ tmp' = None
    /\ saver' = Stopped
    /\ failed' = FALSE
    /\ dark' = TRUE
    /\ UNCHANGED <<clash, short>>

-----------------------------------------------------------------------------
FileInit ==
    /\ tmp = None
    /\ path = None
    /\ data = [i \in Saver |-> Blank]
    /\ saver = [s \in Saver |-> [at |-> "idle", map |-> EmptyMap, fd |-> None, off |-> 0]]
    /\ clash = FALSE
    /\ short = FALSE
    /\ failed = FALSE
    /\ dark = FALSE

(* One system call of call s, successful or not. *)
Step(s) == Create(s) \/ Short(s) \/ Write(s) \/ Rename(s) \/ Abort(s)

FileNext ==
    \/ \E s \in Saver : \E m \in Map : Begin(s, m)
    \/ \E s \in Saver : Step(s)
    \/ Crash
    \/ PowerCut

FileSpec == FileInit /\ [][FileNext]_fileVars

-----------------------------------------------------------------------------
(* Types; and a call has its file open from its open to the end of its write. *)
FileTypeOK ==
    /\ tmp \in Link
    /\ path \in Link
    /\ data \in [Saver -> Content]
    /\ saver \in [Saver -> [at : Stage, map : Map, fd : Link, off : Nat]]
    /\ \A s \in Saver : IF saver[s].at = "write"
                        THEN saver[s].fd \in Saver /\ saver[s].off < Size(saver[s].map)
                        ELSE saver[s].fd = None /\ saver[s].off = 0
    /\ clash \in BOOLEAN
    /\ short \in BOOLEAN
    /\ failed \in BOOLEAN
    /\ dark \in BOOLEAN

(* "Atomically persist the map (write tmp + rename) so a crash mid-write   *)
(* can't corrupt it" (main.rs:387), where it is true: as long as no two    *)
(* calls have overlapped and the machine keeps its power, the state file   *)
(* is absent or one whole map, across crashes and I/O errors at every step.*)
NeverTorn == (~clash /\ ~dark) => (path = None \/ Readable(data[path]))

(* What a restart reads back is empty or one of the maps some call was     *)
(* given -- but for a mixture of several of them, and that takes both: two *)
(* calls that overlapped, and a write cut into pieces or a power failure.  *)
(* So neither an overlap alone, nor a crash, an I/O error or a power       *)
(* failure alone, ever brings back a map that nobody saved.                *)
Given == {saver[s].map : s \in {s \in Saver : saver[s].at # "idle"}}
Spliceable == clash /\ (short \/ dark)
LoadedIsASnapshot == ~Spliceable => Loadable \subseteq {EmptyMap} \cup Given

(* The state file changes only by a rename, and without an overlap the     *)
(* rename installs exactly the map of the call that makes it: no step of a *)
(* call that fails, and no crash of the process, changes what a restart    *)
(* would load; only a power failure does.                                  *)
OnlyRenamePublishes ==
    [][(~clash /\ Loaded' # Loaded)
           => \/ PowerCut
              \/ \E s \in Saver : saver[s].at = "rename" /\ saver'[s].at = "done"
                               /\ Loaded' = saver[s].map]_fileVars

(* The same promise as main.rs:387 words it: whatever the calls have done, *)
(* once they are over the state file is absent or one whole map.           *)
NeverCorrupt == (Quiet /\ ~dark) => (path = None \/ Readable(data[path]))
=============================================================================
