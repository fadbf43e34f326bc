----------------------------- MODULE PresetFiles -----------------------------
(***************************************************************************)
(* A preset on disk as CPresetManager (src/CPresetManager.cpp) saves and   *)
(* loads it through CExclusiveFile (src/CExclusiveFile.cpp, the Unix       *)
(* build, without waiting for locks): several running instances of the     *)
(* program, in processes of their own, use one path, and any of them may   *)
(* be killed in the middle.                                                *)
(*                                                                         *)
(* The file system is external: a path names an inode or none, an inode    *)
(* lives on while somebody has it open, flock() locks an inode and not the *)
(* path, and opening for writing truncates before any lock is asked for.   *)
(* A file's content is the preset written to it, or it is empty, partly    *)
(* written, or a preset written over the beginning of a longer one.        *)
(***************************************************************************)
EXTENDS Naturals, FiniteSets

CONSTANTS Instances,
          Presets,        \* the contents that can be saved
          empty, partial, \* the contents of a file that holds no preset
          mixed,          \* so is one preset over the beginning of a longer one
          nobody          \* no instance

ASSUME PresetAssumption ==
    /\ Instances # {} /\ IsFiniteSet(Instances) /\ nobody \notin Instances
    /\ Cardinality({empty, partial, mixed}) = 3
    /\ {empty, partial, mixed} \cap Presets = {}

none == 0
Inodes == 1 .. Cardinality(Instances) + 1

VARIABLES
    path,    \* the inode that the preset's path names, or none
    content, \* of each inode
    lock,    \* the instance that holds each inode's lock, or nobody
    pc,      \* each instance's step
    fd,      \* the inode that it has open, or none
    archive, \* the serialized state that it saves, or the bytes that it read
    good,    \* history: the presets saved since a save began alone
    overlap, \* history: since then another save began during a save
    spoilt,  \* history: since then a save failed or was killed
    crossed  \* history: the instances whose load coincides with a save

fileVars == <<path, content, lock, pc, fd, archive, good, overlap,
              spoilt, crossed>>
history == <<good, overlap, spoilt, crossed>>

FilesInit ==
    /\ path = none
    /\ content = [f \in Inodes |-> empty] /\ lock = [f \in Inodes |-> nobody]
    /\ pc = [i \in Instances |-> "idle"] /\ fd = [i \in Instances |-> none]
    /\ archive = [i \in Instances |-> empty]
    /\ good = {} /\ overlap = FALSE /\ spoilt = FALSE /\ crossed = {}

Steps(i, step) == pc' = [pc EXCEPT ![i] = step]
Saving(i) ==
    pc[i] \in {"create", "lock", "remove", "recreate", "relock", "write", "close"}

(* An inode that no path and no process refers to.                           *)
Unused == CHOOSE f \in Inodes : f # path /\ \A i \in Instances : fd[i] # f

(* An inode is gone with its last name and its last descriptor.              *)
Kept(c, p, d) ==
    [f \in Inodes |-> IF f = p \/ \E i \in Instances : d[i] = f THEN c[f] ELSE empty]

(* close(): the lock goes with the descriptor.                               *)
Closes(i, c) ==
    /\ fd' = [fd EXCEPT ![i] = none]
    /\ lock' = [f \in Inodes |-> IF lock[f] = i THEN nobody ELSE lock[f]]
    /\ content' = Kept(c, path, fd')

(* The file is closed, with these contents, and the caller returns.          *)
Ends(i, c) ==
    /\ Closes(i, c) /\ Steps(i, "idle")
    /\ archive' = [archive EXCEPT ![i] = empty]
    /\ crossed' = crossed \ {i}
    /\ UNCHANGED path

Fails(i, c) == Ends(i, c) /\ UNCHANGED <<good, overlap, spoilt>>
SaveFails(i, c) == Ends(i, c) /\ good' = {} /\ spoilt' = TRUE /\ UNCHANGED overlap

-----------------------------------------------------------------------------
(* savePreset().                                                             *)

SaveBegins(i, p) ==
    /\ pc[i] = "idle"
    /\ archive' = [archive EXCEPT ![i] = p]
    /\ Steps(i, "create")
    /\ LET alone == \A j \in Instances : ~Saving(j)
       IN  /\ good' = IF alone THEN {} ELSE good
           /\ overlap' = ~alone
           /\ spoilt' = (spoilt /\ ~alone)
    /\ crossed' = crossed \cup {j \in Instances : pc[j] # "idle"}
    /\ UNCHANGED <<path, content, lock, fd>>

(* ::open() in open(path, writeMode), the first and the second time.         *)
\* Mutant: the second open() expects the file to be there.
Mutant_Create(i) ==
    /\ pc[i] \in {"create", "recreate"}
    /\ LET f == IF path = none THEN Unused ELSE path
       IN  /\ path' = IF pc[i] = "create" THEN f ELSE path
           /\ fd' = [fd EXCEPT ![i] = f]
           /\ content' = [content EXCEPT ![f] = empty]
    /\ Steps(i, IF pc[i] = "create" THEN "lock" ELSE "relock")
    /\ UNCHANGED <<lock, archive, history>>

Create(i) ==
    /\ pc[i] \in {"create", "recreate"}
    /\ LET f == IF path = none THEN Unused ELSE path
       IN  /\ path' = f
           /\ fd' = [fd EXCEPT ![i] = f]
           /\ content' = [content EXCEPT ![f] = empty]
    /\ Steps(i, IF pc[i] = "create" THEN "lock" ELSE "relock")
    /\ UNCHANGED <<lock, archive, history>>

(* ::flock(): when it is refused the save fails, the file truncated.         *)
LockForSave(i) ==
    /\ pc[i] \in {"lock", "relock"}
    /\ lock[fd[i]] = nobody
    /\ lock' = [lock EXCEPT ![fd[i]] = i]
    /\ Steps(i, IF pc[i] = "lock" THEN "remove" ELSE "write")
    /\ UNCHANGED <<path, content, fd, archive, history>>

\* Mutant: a lock that is refused is not reported as a failure.
Mutant_LockRefused(i) ==
    /\ pc[i] \in {"lock", "relock"} /\ lock[fd[i]] # nobody
    /\ Fails(i, content)

LockRefused(i) ==
    /\ pc[i] \in {"lock", "relock"} /\ lock[fd[i]] # nobody
    /\ SaveFails(i, content)

(* remove() closes the file, and then removes what the path names now.       *)
RemoveCloses(i) ==
    /\ pc[i] = "remove" /\ fd[i] # none
    /\ Closes(i, content)
    /\ UNCHANGED <<path, pc, archive, history>>

RemoveUnlinks(i) ==
    /\ pc[i] = "remove" /\ fd[i] = none
    /\ path' = none
    /\ content' = Kept(content, none, fd)
    /\ Steps(i, "recreate")
    /\ UNCHANGED <<lock, fd, archive, history>>

(* write() succeeds, or falls short and false is returned.  What somebody    *)
(* wrote since the file was truncated stays after the end of what is written *)
(* now, when it is longer.                                                   *)
Write(i) ==
    /\ pc[i] = "write"
    /\ \E mix \in IF content[fd[i]] \in {empty, archive[i]} THEN {archive[i]}
                                                         ELSE {archive[i], mixed} :
           content' = [content EXCEPT ![fd[i]] = mix]
    /\ Steps(i, "close")
    /\ UNCHANGED <<path, lock, fd, archive, history>>

WriteFallsShort(i) ==
    /\ pc[i] = "write"
    /\ SaveFails(i, [content EXCEPT ![fd[i]] = partial])

(* The file is closed by its destructor and true is returned.                *)
SaveSucceeds(i) ==
    /\ pc[i] = "close"
    /\ Ends(i, content)
    /\ good' = IF spoilt THEN {} ELSE good \cup {archive[i]}
    /\ UNCHANGED <<overlap, spoilt>>

-----------------------------------------------------------------------------
(* loadPreset(), until the serializer is built.                              *)

LoadBegins(i) ==
    /\ pc[i] = "idle" /\ path # none
    /\ fd' = [fd EXCEPT ![i] = path]
    /\ Steps(i, "lockRead")
    /\ crossed' = IF \E j \in Instances : Saving(j) THEN crossed \cup {i}
                                                   ELSE crossed \ {i}
    /\ UNCHANGED <<path, content, lock, archive, good, overlap, spoilt>>

LoadRefused(i) ==
    /\ pc[i] = "lockRead" /\ lock[fd[i]] # nobody
    /\ Fails(i, content)

LockForLoad(i) ==
    /\ pc[i] = "lockRead" /\ lock[fd[i]] = nobody
    /\ lock' = [lock EXCEPT ![fd[i]] = i]
    /\ Steps(i, "size")
    /\ UNCHANGED <<path, content, fd, archive, history>>

(* getFileSize(): the file's length is what tells its contents apart.        *)
Size(i) ==
    /\ pc[i] = "size"
    /\ archive' = [archive EXCEPT ![i] = content[fd[i]]]
    /\ Steps(i, "read")
    /\ UNCHANGED <<path, content, lock, fd, history>>

(* read() of so many bytes, which are all there or were truncated meanwhile. *)
Read(i) ==
    /\ pc[i] = "read" /\ archive[i] = content[fd[i]]
    /\ Steps(i, "build")
    /\ UNCHANGED <<path, content, lock, fd, archive, history>>

ReadFallsShort(i) ==
    /\ pc[i] = "read" /\ archive[i] # content[fd[i]]
    /\ Fails(i, content)

(* build() of a part of a preset or a mixed one throws: the checksum, which  *)
(* is taken to the end of the file, is wrong.                                *)
BuildThrows(i) ==
    /\ pc[i] = "build" /\ archive[i] \in {partial, mixed}
    /\ Fails(i, content)

Build(i) ==
    /\ pc[i] = "build" /\ archive[i] \in Presets
    /\ Closes(i, content) /\ Steps(i, "built")
    /\ UNCHANGED <<path, archive, history>>

-----------------------------------------------------------------------------
(* The process ends at once, and a new one begins.  So it does in the build  *)
(* of an empty file, whose bytes have no address.                            *)
Killed(i) ==
    /\ pc[i] # "idle"
    /\ IF Saving(i) THEN SaveFails(i, content) ELSE Fails(i, content)

FileMoves(i) ==
    \/ Create(i) \/ LockForSave(i) \/ LockRefused(i) \/ RemoveCloses(i)
    \/ RemoveUnlinks(i) \/ Write(i) \/ WriteFallsShort(i) \/ SaveSucceeds(i)
    \/ LoadBegins(i) \/ LoadRefused(i) \/ LockForLoad(i) \/ Size(i) \/ Read(i)
    \/ ReadFallsShort(i) \/ BuildThrows(i) \/ Build(i)
-----------------------------------------------------------------------------
(* Whichever saves ran at the same time, when they are through and all of    *)
(* them returned true the path names a file that holds what one of them      *)
(* saved, also after earlier saves that failed or were killed.  Only when    *)
(* one began during another may two have written to one file: they opened it *)
(* before one had the lock that the other got later.                         *)
SavedIsThere ==
    (\A i \in Instances : ~Saving(i)) /\ ~spoilt /\ good # {} =>
        path # none /\ content[path] \in good \cup (IF overlap THEN {mixed} ELSE {})

(* A load gets as far as an empty file, which it does not survive, only      *)
(* after a save that failed or was killed, or when a save was under way at   *)
(* some time during the load: both may be through by then.                   *)
EmptyIsLeftBehind ==
    \A i \in Instances : pc[i] = "build" /\ archive[i] = empty =>
        spoilt \/ i \in crossed
=============================================================================
