-------------------------- MODULE PresetWidgetProofs --------------------------
(***************************************************************************)
(* Theorems about presets, for any number of instances, edits and presets. *)
(*                                                                         *)
(* The argument: as long as no save failed, either a save is on its way to *)
(* a file of its own under the path, or what the path names was written    *)
(* by a save that is through or about to be (Durable).  A load that no     *)
(* save coincides with has the file open that the path names (Loading).    *)
(* Locks play no part in it: two saves that write to one inode are allowed *)
(* for by overlap, and whoever is refused has failed.                      *)
(***************************************************************************)
EXTENDS PresetWidget, FiniteSetTheorems, TLAPS

Contents == Presets \cup {empty, partial, mixed}

FilesTypeOK ==
    /\ path \in Inodes \cup {none} /\ content \in [Inodes -> Contents]
    /\ lock \in [Inodes -> Instances \cup {nobody}]
    /\ pc \in [Instances -> {"idle", "create", "lock", "remove", "recreate", "relock",
                             "write", "close", "lockRead", "size", "read", "build",
                             "built", "asking"}]
    /\ fd \in [Instances -> Inodes \cup {none}] /\ archive \in [Instances -> Contents]
    /\ good \subseteq Presets /\ crossed \subseteq Instances
    /\ overlap \in BOOLEAN /\ spoilt \in BOOLEAN

(* The steps with an open file, and those with a whole preset at hand.       *)
InCall ==
    \A i \in Instances :
        /\ pc[i] \in {"lock", "relock", "write", "close", "lockRead", "size", "read", "build"} =>
               fd[i] \in Inodes
        /\ Saving(i) \/ pc[i] = "built" => archive[i] \in Presets

(* A save that is not overlapped writes to a file that it has just emptied.  *)
Alone ==
    ~overlap =>
        /\ \A i, j \in Instances : Saving(i) /\ Saving(j) => i = j
        /\ \A i \in Instances : pc[i] \in {"relock", "write"} => content[fd[i]] = empty

Replacing(i) == pc[i] \in {"lock", "remove", "recreate"}
Writing(i) == pc[i] \in {"relock", "write"} /\ fd[i] = path

Written ==
    good \cup {archive[i] : i \in {j \in Instances : pc[j] = "close"}}
         \cup (IF overlap THEN {mixed} ELSE {})

Durable ==
    ~spoilt =>
        \/ \E i \in Instances : Replacing(i) \/ Writing(i)
        \/ path # none /\ content[path] \in Written
        \/ good = {} /\ \A i \in Instances : Saving(i) => pc[i] = "create"

(* Without a save, good or failed, there is no file.                         *)
NoneSaved == ~spoilt /\ good = {} /\ (\A i \in Instances : ~Saving(i)) => path = none

Loads(i) == pc[i] \in {"lockRead", "size", "read", "build"}

Loading ==
    \A i \in Instances \ crossed : Loads(i) =>
        /\ \A j \in Instances : ~Saving(j)
        /\ pc[i] \in {"lockRead", "size"} => fd[i] = path
        /\ pc[i] \in {"read", "build"} /\ ~spoilt => archive[i] # empty

FilesInv ==
    FilesTypeOK /\ InCall /\ Alone /\ Durable /\ NoneSaved /\ Loading

(* The objects have their types, and are half changed with an excuse.        *)
ObjectInv ==
    /\ object \in [Instances -> States] /\ safeState \in [Instances -> Presets]
    /\ edits \in 0 .. MaxEdits
    /\ excuse \in [Instances -> {"none", "accepted", "stranded"}]
    /\ TornByChoice

IInv == FilesInv /\ ObjectInv

(* An empty file is no preset and no mixed one.                              *)
LEMMA Distinct ==
    ASSUME PresetAssumption
    PROVE  empty \notin Presets /\ empty # mixed /\ empty \in Contents /\ none \notin Inodes
<1>1. empty # mixed
  <2> SUFFICES ASSUME empty = mixed PROVE FALSE
    OBVIOUS
  <2>1. {empty, partial, mixed} = {empty} \cup {partial}
    OBVIOUS
  <2>2. IsFiniteSet({empty}) /\ Cardinality({empty}) = 1
    BY FS_Singleton
  <2>3. Cardinality({empty} \cup {partial}) \in {1, 2}
    BY <2>2, FS_AddElement
  <2> QED
    BY <2>1, <2>3 DEF PresetAssumption
<1>2. none \notin Inodes
  BY FS_CardinalityType DEF PresetAssumption, none, Inodes
<1> QED
  BY <1>1, <1>2 DEF PresetAssumption, Contents

(* There is an inode that nobody refers to: one more than the instances.     *)
LEMMA UnusedIsFree ==
    ASSUME PresetAssumption, path = none
    PROVE  Unused \in Inodes
<1> DEFINE open == {fd[i] : i \in Instances}
           k == Cardinality(Instances)
<1>1. k \in Nat
  BY FS_CardinalityType DEF PresetAssumption
<1>2. IsFiniteSet(open) /\ Cardinality(open) <= k
  <2> DEFINE F == [i \in Instances |-> fd[i]]
  <2>1. F \in Surjection(Instances, open)
    BY DEF Surjection
  <2> HIDE DEF F, open
  <2> QED
    BY <2>1, FS_Surjection DEF PresetAssumption
<1>3. IsFiniteSet(Inodes) /\ Cardinality(Inodes) = k + 1
  <2> HIDE DEF k
  <2>1. IsFiniteSet(1 .. k + 1) /\ Cardinality(1 .. k + 1) = k + 1
    BY <1>1, FS_Interval
  <2> QED
    BY <2>1 DEF Inodes, k
<1>4. ~(Inodes \subseteq open)
  <2>1. Inodes \subseteq open => Cardinality(Inodes) <= Cardinality(open)
    BY <1>2, FS_Subset
  <2>2. Cardinality(open) \in Nat
    BY <1>2, FS_CardinalityType
  <2> HIDE DEF open, k
  <2> QED
    BY <1>1, <1>2, <1>3, <2>1, <2>2
<1>5. \E f \in Inodes : f # path /\ \A i \in Instances : fd[i] # f
  BY <1>4, Distinct
<1> QED
  BY <1>5 DEF Unused

(* What a close leaves of the files.                                         *)
LEMMA ClosesKeeps ==
    ASSUME PresetAssumption, FilesTypeOK, NEW i \in Instances, NEW c \in [Inodes -> Contents],
           Closes(i, c)
    PROVE  /\ content' \in [Inodes -> Contents] /\ lock' \in [Inodes -> Instances \cup {nobody}]
           /\ fd' = [fd EXCEPT ![i] = none]
           /\ path \in Inodes => content'[path] = c[path]
           /\ \A j \in Instances : j # i /\ fd[j] \in Inodes => content'[fd[j]] = c[fd[j]]
<1>1. /\ fd' = [fd EXCEPT ![i] = none] /\ empty \in Contents
      /\ lock' = [f \in Inodes |-> IF lock[f] = i THEN nobody ELSE lock[f]]
      /\ content' = [f \in Inodes |-> IF f = path \/ \E j \in Instances : fd'[j] = f THEN c[f] ELSE empty]
  BY Distinct DEF Closes, Kept
<1>2. /\ content' \in [Inodes -> Contents]
      /\ path \in Inodes => content'[path] = c[path]
  BY <1>1
<1>3. lock' \in [Inodes -> Instances \cup {nobody}]
  BY <1>1 DEF FilesTypeOK
<1>4. \A j \in Instances : j # i /\ fd[j] \in Inodes => content'[fd[j]] = c[fd[j]]
  BY <1>1 DEF FilesTypeOK
<1> QED
  BY <1>1, <1>2, <1>3, <1>4

(* What the end of a call leaves.                                            *)
LEMMA EndsKeeps ==
    ASSUME PresetAssumption, FilesTypeOK, NEW i \in Instances, NEW c \in [Inodes -> Contents],
           Ends(i, c)
    PROVE  /\ content' \in [Inodes -> Contents] /\ lock' \in [Inodes -> Instances \cup {nobody}]
           /\ pc' = [pc EXCEPT ![i] = "idle"] /\ archive' = [archive EXCEPT ![i] = empty]
           /\ fd' = [fd EXCEPT ![i] = none] /\ crossed' = crossed \ {i} /\ path' = path
           /\ path \in Inodes => content'[path] = c[path]
           /\ \A j \in Instances : j # i => /\ fd[j] \in Inodes => content'[fd[j]] = c[fd[j]]
                                            /\ pc'[j] = pc[j] /\ archive'[j] = archive[j]
                                            /\ fd'[j] = fd[j]
           /\ pc'[i] = "idle"
<1>1. /\ pc' = [pc EXCEPT ![i] = "idle"] /\ archive' = [archive EXCEPT ![i] = empty]
      /\ crossed' = crossed \ {i} /\ path' = path /\ Closes(i, c)
  BY DEF Ends, Steps
<1>2. /\ content' \in [Inodes -> Contents] /\ lock' \in [Inodes -> Instances \cup {nobody}]
      /\ fd' = [fd EXCEPT ![i] = none]
      /\ path \in Inodes => content'[path] = c[path]
      /\ \A j \in Instances : j # i /\ fd[j] \in Inodes => content'[fd[j]] = c[fd[j]]
  BY <1>1, ClosesKeeps
<1> QED
  BY <1>1, <1>2 DEF FilesTypeOK

(* No file, no call.                                                         *)
LEMMA InitFiles == ASSUME PresetAssumption, FilesInit PROVE FilesInv
<1>1. FilesTypeOK
  BY Distinct DEF FilesInit, FilesTypeOK
<1>2. InCall /\ Alone /\ Durable /\ NoneSaved /\ Loading
  BY DEF FilesInit, InCall, Alone, Saving, Durable, NoneSaved, Loading, Loads
<1> QED
  BY <1>1, <1>2 DEF FilesInv
-----------------------------------------------------------------------------
(* Failures, and saves.                                                      *)

(* After a failed save nothing is promised until one begins alone.           *)
LEMMA SaveFailsKeeps ==
    ASSUME PresetAssumption, FilesInv, NEW i \in Instances, Saving(i),
           NEW c \in [Inodes -> Contents], SaveFails(i, c)
    PROVE  FilesInv'
<1>1. /\ content' \in [Inodes -> Contents] /\ lock' \in [Inodes -> Instances \cup {nobody}]
      /\ pc' = [pc EXCEPT ![i] = "idle"] /\ archive' = [archive EXCEPT ![i] = empty]
      /\ fd' = [fd EXCEPT ![i] = none] /\ crossed' = crossed \ {i} /\ path' = path
      /\ \A j \in Instances : j # i => /\ fd[j] \in Inodes => content'[fd[j]] = c[fd[j]]
                                       /\ pc'[j] = pc[j] /\ archive'[j] = archive[j]
                                       /\ fd'[j] = fd[j]
      /\ pc'[i] = "idle"
  BY EndsKeeps DEF FilesInv, SaveFails
<1>2. good' = {} /\ spoilt' = TRUE /\ overlap' = overlap
  BY DEF SaveFails
<1>3. FilesTypeOK'
  BY <1>1, <1>2, Distinct DEF FilesInv, FilesTypeOK
<1>4. InCall'
  BY <1>1 DEF FilesInv, InCall, Saving
<1>5. Alone'
  BY <1>1, <1>2 DEF FilesInv, Alone, Saving
<1>6. (Durable /\ NoneSaved)'
  BY <1>2 DEF Durable, NoneSaved
<1>7. Loading'
  BY <1>1 DEF FilesInv, Loading, Loads
<1> QED
  BY <1>3, <1>4, <1>5, <1>6, <1>7 DEF FilesInv

(* A step of an instance that neither saves nor changes a file or who saves  *)
(* keeps what is said of the saves.                                          *)
LEMMA LoadKeepsFiles ==
    ASSUME PresetAssumption, FilesInv, NEW i \in Instances,
           ~Saving(i), ~Saving(i)', NEW s,
           pc' = [pc EXCEPT ![i] = s],
           \A j \in Instances : j # i => fd'[j] = fd[j] /\ archive'[j] = archive[j],
           \A j \in Instances : j # i /\ fd[j] \in Inodes => content'[fd[j]] = content[fd[j]],
           path \in Inodes => content'[path] = content[path],
           UNCHANGED <<path, good, overlap, spoilt>>
    PROVE  (Alone /\ Durable /\ NoneSaved)' /\ \A j \in Instances : Saving(j)' <=> Saving(j)
<1>1. /\ \A j \in Instances : j # i => pc'[j] = pc[j]
      /\ pc'[i] = s
  BY DEF FilesInv, FilesTypeOK
<1>2. \A j \in Instances : Saving(j)' <=> Saving(j)
  BY <1>1 DEF Saving
<1>3. Alone'
  <2>1. \A j \in Instances : pc'[j] \in {"relock", "write"} =>
          pc[j] \in {"relock", "write"} /\ fd'[j] = fd[j] /\ content'[fd[j]] = content[fd[j]]
    BY <1>1 DEF FilesInv, InCall, Saving
  <2> QED
    BY <1>1, <1>2, <2>1 DEF FilesInv, Alone
<1>4. Durable'
  <2>1. \A j \in Instances : (Replacing(j)' <=> Replacing(j)) /\ (Writing(j)' <=> Writing(j))
    BY <1>1 DEF Replacing, Writing, Saving
  <2>2. Written' = Written
    <3>1. \A j \in Instances : (pc'[j] = "close" <=> pc[j] = "close")
                               /\ (pc[j] = "close" => archive'[j] = archive[j])
      BY <1>1 DEF Saving
    <3> QED
      BY <3>1 DEF Written
  <2>3. path # none => content'[path] = content[path]
    BY DEF FilesInv, FilesTypeOK
  <2>4. \A j \in Instances : Saving(j)' => pc'[j] = pc[j]
    BY <1>1
  <2> QED
    BY <1>1, <1>2, <2>1, <2>2, <2>3, <2>4 DEF FilesInv, Durable
<1>5. NoneSaved'
  BY <1>2 DEF FilesInv, NoneSaved
<1> QED
  BY <1>2, <1>3, <1>4, <1>5

(* A load that ends, and the end of a kept file, changes no file.            *)
LEMMA FailsKeeps ==
    ASSUME PresetAssumption, FilesInv, NEW i \in Instances, ~Saving(i), Fails(i, content)
    PROVE  FilesInv'
<1>1. /\ content' \in [Inodes -> Contents] /\ lock' \in [Inodes -> Instances \cup {nobody}]
      /\ pc' = [pc EXCEPT ![i] = "idle"] /\ archive' = [archive EXCEPT ![i] = empty]
      /\ fd' = [fd EXCEPT ![i] = none] /\ crossed' = crossed \ {i} /\ path' = path
      /\ path \in Inodes => content'[path] = content[path]
      /\ \A j \in Instances : j # i => /\ fd[j] \in Inodes => content'[fd[j]] = content[fd[j]]
                                       /\ pc'[j] = pc[j] /\ archive'[j] = archive[j]
                                       /\ fd'[j] = fd[j]
      /\ pc'[i] = "idle" /\ UNCHANGED <<good, overlap, spoilt>>
  BY EndsKeeps DEF FilesInv, FilesTypeOK, Fails
<1>2. FilesTypeOK'
  BY <1>1, Distinct DEF FilesInv, FilesTypeOK
<1>3. InCall'
  BY <1>1 DEF FilesInv, InCall, Saving
<1>4. (Alone /\ Durable /\ NoneSaved)' /\ \A j \in Instances : Saving(j)' <=> Saving(j)
  <2>1. ~Saving(i)'
    BY <1>1 DEF Saving
  <2>2. pc' = [pc EXCEPT ![i] = "idle"] /\ UNCHANGED <<path, good, overlap, spoilt>>
    BY <1>1
  <2>3. /\ \A j \in Instances : j # i => fd'[j] = fd[j] /\ archive'[j] = archive[j]
        /\ \A j \in Instances : j # i /\ fd[j] \in Inodes => content'[fd[j]] = content[fd[j]]
        /\ path \in Inodes => content'[path] = content[path]
    BY <1>1
  <2> QED
    BY ZenonT(30), <2>1, <2>2, <2>3, LoadKeepsFiles
<1>5. Loading'
  BY <1>1, <1>4 DEF FilesInv, Loading, Loads
<1> QED
  BY <1>2, <1>3, <1>4, <1>5 DEF FilesInv

(* A save that begins alone begins the history anew; one that does not is    *)
(* noted by the others, and by the loads under way.                          *)
LEMMA SaveBeginsKeeps ==
    ASSUME PresetAssumption, FilesInv, NEW i \in Instances, NEW p \in Presets, SaveBegins(i, p)
    PROVE  FilesInv'
<1> DEFINE alone == \A j \in Instances : ~Saving(j)
<1>1. /\ pc[i] = "idle" /\ archive' = [archive EXCEPT ![i] = p]
      /\ pc' = [pc EXCEPT ![i] = "create"]
      /\ good' = (IF alone THEN {} ELSE good)
      /\ overlap' = ~alone /\ spoilt' = (spoilt /\ ~alone)
      /\ crossed' = crossed \cup {j \in Instances : pc[j] # "idle"}
      /\ UNCHANGED <<path, content, lock, fd>>
  BY DEF SaveBegins, Steps
<1>2. FilesTypeOK'
  <2>1. overlap' \in BOOLEAN /\ spoilt' \in BOOLEAN
    BY <1>1
  <2> QED
    BY <1>1, <2>1 DEF FilesInv, FilesTypeOK, Contents
<1>3. /\ \A j \in Instances : j # i => pc'[j] = pc[j] /\ archive'[j] = archive[j]
      /\ pc'[i] = "create" /\ archive'[i] = p
  BY <1>1 DEF FilesInv, FilesTypeOK
<1>4. InCall'
  BY <1>1, <1>3 DEF FilesInv, InCall, Saving
<1>5. Alone'
  BY <1>1, <1>3 DEF Alone, Saving
<1>6. Durable'
  <2>1. CASE alone
    BY <1>1, <1>3, <2>1 DEF Durable, Saving
  <2>2. CASE ~alone
    <3> HIDE DEF alone
    <3>1. Written \subseteq Written'
      <4>1. \A j \in Instances : pc[j] = "close" => pc'[j] = "close" /\ archive'[j] = archive[j]
        BY <1>1, <1>3
      <4>2. good' = good /\ overlap' = TRUE
        BY <1>1, <2>2
      <4> QED
        BY <4>1, <4>2 DEF Written
    <3>2. \A j \in Instances : (Replacing(j) => Replacing(j)') /\ (Writing(j) => Writing(j)')
      BY <1>1, <1>3 DEF Replacing, Writing
    <3>3. (\A j \in Instances : Saving(j) => pc[j] = "create") =>
             \A j \in Instances : Saving(j)' => pc'[j] = "create"
      BY <1>3 DEF Saving
    <3>4. spoilt' = spoilt /\ good' = good
      BY <1>1, <2>2 DEF FilesInv, FilesTypeOK
    <3> QED
      BY <1>1, <3>1, <3>2, <3>3, <3>4 DEF FilesInv, Durable
  <2> QED
    BY <2>1, <2>2
<1>7. NoneSaved'
  BY <1>3 DEF NoneSaved, Saving
<1>8. Loading'
  BY <1>1, <1>3 DEF Loading, Loads
<1> QED
  BY <1>2, <1>4, <1>5, <1>6, <1>7, <1>8 DEF FilesInv

(* The file that the path names is emptied, or made.                         *)
LEMMA CreateKeeps ==
    ASSUME PresetAssumption, FilesInv, NEW i \in Instances, Create(i)
    PROVE  FilesInv'
<1> DEFINE f == IF path = none THEN Unused ELSE path
<1>1. /\ pc[i] \in {"create", "recreate"} /\ path' = f /\ fd' = [fd EXCEPT ![i] = f]
      /\ content' = [content EXCEPT ![f] = empty]
      /\ pc' = [pc EXCEPT ![i] = IF pc[i] = "create" THEN "lock" ELSE "relock"]
      /\ UNCHANGED <<lock, archive, good, overlap, spoilt, crossed>>
      /\ f \in Inodes
  <2>1. f \in Inodes
    BY UnusedIsFree DEF FilesInv, FilesTypeOK
  <2> QED
    BY <2>1 DEF Create, Steps, history
<1> HIDE DEF f
<1>2. FilesTypeOK'
  BY <1>1, Distinct DEF FilesInv, FilesTypeOK
<1>3. /\ \A j \in Instances : j # i => pc'[j] = pc[j] /\ fd'[j] = fd[j]
      /\ pc'[i] = (IF pc[i] = "create" THEN "lock" ELSE "relock") /\ fd'[i] = f
      /\ \A g \in Inodes : content'[g] = IF g = f THEN empty ELSE content[g]
  BY <1>1 DEF FilesInv, FilesTypeOK
<1>4. InCall'
  BY <1>1, <1>3 DEF FilesInv, InCall, Saving
<1>5. Saving(i) /\ Saving(i)' /\ \A j \in Instances : Saving(j)' <=> Saving(j)
  BY <1>1, <1>3 DEF Saving
<1>6. Alone'
  <2>1. \A j \in Instances : pc'[j] \in {"relock", "write"} => fd'[j] \in Inodes
    BY <1>1, <1>3 DEF FilesInv, InCall
  <2> QED
    BY <1>1, <1>3, <1>5, <2>1 DEF FilesInv, Alone
<1>7. Durable'
  <2>1. Replacing(i)' \/ Writing(i)'
    BY <1>1, <1>3 DEF Replacing, Writing
  <2> QED
    BY <2>1 DEF Durable
<1>8. NoneSaved'
  BY <1>5 DEF NoneSaved
<1>9. Loading'
  BY <1>1, <1>3, <1>5 DEF FilesInv, Loading, Loads
<1> QED
  BY <1>2, <1>4, <1>6, <1>7, <1>8, <1>9 DEF FilesInv

(* The lock of the file is got.                                              *)
LEMMA LockForSaveKeeps ==
    ASSUME PresetAssumption, FilesInv, NEW i \in Instances, LockForSave(i)
    PROVE  FilesInv'
<1>1. /\ pc[i] \in {"lock", "relock"} /\ lock' = [lock EXCEPT ![fd[i]] = i]
      /\ pc' = [pc EXCEPT ![i] = IF pc[i] = "lock" THEN "remove" ELSE "write"]
      /\ UNCHANGED <<path, content, fd, archive, good, overlap, spoilt, crossed>>
  BY DEF LockForSave, Steps, history
<1>2. FilesTypeOK'
  BY <1>1 DEF FilesInv, FilesTypeOK
<1>3. /\ \A j \in Instances : j # i => pc'[j] = pc[j]
      /\ pc'[i] = (IF pc[i] = "lock" THEN "remove" ELSE "write")
  BY <1>1 DEF FilesInv, FilesTypeOK
<1>4. InCall'
  BY <1>1, <1>3 DEF FilesInv, InCall, Saving
<1>5. \A j \in Instances : Saving(j)' <=> Saving(j)
  BY <1>1, <1>3 DEF Saving
<1>6. (Alone /\ NoneSaved)'
  BY <1>1, <1>3, <1>5 DEF FilesInv, Alone, NoneSaved
<1>7. Durable'
  <2>1. \A j \in Instances : (Replacing(j) => Replacing(j)') /\ (Writing(j) => Writing(j)')
    BY <1>1, <1>3 DEF Replacing, Writing
  <2>2. Written' = Written
    <3>1. \A j \in Instances : pc'[j] = "close" <=> pc[j] = "close"
      BY <1>1, <1>3
    <3> QED
      BY <1>1, <3>1 DEF Written
  <2>3. (\A j \in Instances : Saving(j) => pc[j] = "create") => ~Saving(i)
    BY <1>1
  <2>4. Saving(i)
    BY <1>1 DEF Saving
  <2> QED
    BY <1>1, <2>1, <2>2, <2>3, <2>4 DEF FilesInv, Durable
<1>8. Loading'
  BY <1>1, <1>3, <1>5 DEF FilesInv, Loading, Loads
<1> QED
  BY <1>2, <1>4, <1>6, <1>7, <1>8 DEF FilesInv

(* remove() leaves the file nameless, and the saver without one.             *)
LEMMA RemoveKeeps ==
    ASSUME PresetAssumption, FilesInv, NEW i \in Instances, RemoveCloses(i) \/ RemoveUnlinks(i)
    PROVE  FilesInv'
<1>1. /\ pc[i] = "remove" /\ pc'[i] \in {"remove", "recreate"}
      /\ pc' \in [Instances -> {"idle", "create", "lock", "remove", "recreate", "relock",
                             "write", "close", "lockRead", "size", "read", "build",
                             "built", "asking"}]
      /\ \A j \in Instances : j # i => pc'[j] = pc[j] /\ fd'[j] = fd[j]
      /\ fd' \in [Instances -> Inodes \cup {none}]
      /\ path' \in {path, none}
      /\ content' \in [Inodes -> Contents] /\ lock' \in [Inodes -> Instances \cup {nobody}]
      /\ \A j \in Instances : j # i /\ fd[j] \in Inodes => content'[fd[j]] = content[fd[j]]
      /\ UNCHANGED <<archive, good, overlap, spoilt, crossed>>
  <2>1. CASE RemoveCloses(i)
    <3>1. Closes(i, content) /\ pc' = pc /\ pc[i] = "remove" /\ path' = path
          /\ UNCHANGED <<archive, good, overlap, spoilt, crossed>>
      BY <2>1 DEF RemoveCloses, history
    <3>2. /\ content' \in [Inodes -> Contents] /\ lock' \in [Inodes -> Instances \cup {nobody}]
          /\ fd' = [fd EXCEPT ![i] = none]
          /\ \A j \in Instances : j # i /\ fd[j] \in Inodes => content'[fd[j]] = content[fd[j]]
      BY <3>1, ClosesKeeps DEF FilesInv, FilesTypeOK
    <3> QED
      BY <3>1, <3>2 DEF FilesInv, FilesTypeOK
  <2>2. CASE RemoveUnlinks(i)
    <3>1. /\ pc[i] = "remove" /\ path' = none /\ pc' = [pc EXCEPT ![i] = "recreate"]
          /\ content' = [f \in Inodes |-> IF f = none \/ \E j \in Instances : fd[j] = f
                                          THEN content[f] ELSE empty]
          /\ UNCHANGED <<lock, fd, archive, good, overlap, spoilt, crossed>>
      BY <2>2 DEF RemoveUnlinks, Kept, Steps, history
    <3>2. content' \in [Inodes -> Contents]
      BY <3>1, Distinct DEF FilesInv, FilesTypeOK
    <3> QED
      BY <3>1, <3>2 DEF FilesInv, FilesTypeOK
  <2> QED
    BY <2>1, <2>2
<1>2. FilesTypeOK'
  BY <1>1 DEF FilesInv, FilesTypeOK
<1>3. InCall'
  BY <1>1 DEF FilesInv, InCall, Saving
<1>4. Saving(i) /\ Saving(i)' /\ \A j \in Instances : Saving(j)' <=> Saving(j)
  BY <1>1 DEF Saving
<1>5. Alone'
  <2>1. \A j \in Instances : pc'[j] \in {"relock", "write"} =>
          pc[j] \in {"relock", "write"} /\ fd'[j] = fd[j] /\ content'[fd[j]] = content[fd[j]]
    BY <1>1 DEF FilesInv, InCall
  <2> QED
    BY <1>1, <1>4, <2>1 DEF FilesInv, Alone
<1>6. Durable'
  <2>1. Replacing(i)'
    BY <1>1 DEF Replacing
  <2> QED
    BY <2>1 DEF Durable
<1>7. NoneSaved'
  BY <1>4 DEF NoneSaved
<1>8. Loading'
  BY <1>1, <1>4 DEF FilesInv, Loading, Loads
<1> QED
  BY <1>2, <1>3, <1>5, <1>6, <1>7, <1>8 DEF FilesInv

(* write(): what the path names is now a preset, or a mixed file when two    *)
(* saves met.                                                                *)
LEMMA WriteKeeps ==
    ASSUME PresetAssumption, FilesInv, NEW i \in Instances, Write(i)
    PROVE  FilesInv'
<1>1. PICK mix \in {archive[i], mixed} :
          /\ content' = [content EXCEPT ![fd[i]] = mix]
          /\ content[fd[i]] \in {empty, archive[i]} => mix = archive[i]
  BY DEF Write
<1>2. /\ pc[i] = "write" /\ pc' = [pc EXCEPT ![i] = "close"]
      /\ fd[i] \in Inodes /\ archive[i] \in Presets
      /\ UNCHANGED <<path, lock, fd, archive, good, overlap, spoilt, crossed>>
  BY DEF FilesInv, InCall, Saving, Write, Steps, history
<1>3. FilesTypeOK'
  BY <1>1, <1>2 DEF FilesInv, FilesTypeOK, Contents
<1>4. /\ \A j \in Instances : j # i => pc'[j] = pc[j]
      /\ pc'[i] = "close"
      /\ \A g \in Inodes : content'[g] = IF g = fd[i] THEN mix ELSE content[g]
  BY <1>1, <1>2 DEF FilesInv, FilesTypeOK
<1>5. InCall'
  BY <1>2, <1>4 DEF FilesInv, InCall, Saving
<1>6. Saving(i) /\ Saving(i)' /\ \A j \in Instances : Saving(j)' <=> Saving(j)
  BY <1>2, <1>4 DEF Saving
<1>7. Alone'
  <2>1. \A j \in Instances : pc'[j] \in {"relock", "write"} => Saving(j) /\ j # i
    BY <1>4 DEF Saving
  <2>2. ~overlap => \A j \in Instances : Saving(j) => j = i
    BY <1>6 DEF FilesInv, Alone
  <2> QED
    BY <1>2, <1>6, <2>1, <2>2 DEF FilesInv, Alone
<1>8. Durable'
  <2>1. Written' = Written \cup {archive[i]}
    <3>1. \A j \in Instances : pc'[j] = "close" <=> pc[j] = "close" \/ j = i
      BY <1>4
    <3> QED
      BY <1>2, <3>1 DEF Written
  <2>2. \A j \in Instances : (Replacing(j) => Replacing(j)')
                             /\ (Writing(j) /\ j # i => Writing(j)')
    BY <1>2, <1>4 DEF Replacing, Writing
  <2>3. fd[i] = path => path # none /\ content'[path] \in Written'
    <3>1. overlap => mixed \in Written
      BY DEF Written
    <3>2. ~overlap => mix = archive[i]
      BY <1>1, <1>2 DEF FilesInv, Alone
    <3> QED
      BY <1>1, <1>2, <1>4, <2>1, <3>1, <3>2, Distinct
  <2>4. fd[i] # path /\ path # none => content'[path] = content[path]
    BY <1>4 DEF FilesInv, FilesTypeOK
  <2>5. Writing(i) => fd[i] = path
    BY DEF Writing
  <2>6. pc[i] # "create" /\ Saving(i)
    BY <1>2, <1>6
  <2> QED
    BY <1>2, <2>1, <2>2, <2>3, <2>4, <2>5, <2>6 DEF FilesInv, Durable
<1>9. NoneSaved'
  BY <1>6 DEF NoneSaved
<1>10. Loading'
  BY <1>2, <1>4, <1>6 DEF FilesInv, Loading, Loads
<1> QED
  BY <1>3, <1>5, <1>7, <1>8, <1>9, <1>10 DEF FilesInv

(* The saves that fail: at a lock, at a write, and with their process.       *)
LEMMA FailedSaveKeeps ==
    ASSUME PresetAssumption, FilesInv, NEW i \in Instances, Saving(i),
           WriteFallsShort(i) \/ LockRefused(i) \/ Killed(i)
    PROVE  FilesInv'
<1>1. CASE WriteFallsShort(i)
  <2> DEFINE c == [content EXCEPT ![fd[i]] = partial]
  <2>1. c \in [Inodes -> Contents]
    BY DEF FilesInv, FilesTypeOK, Contents
  <2>2. SaveFails(i, c)
    BY <1>1 DEF WriteFallsShort
  <2> HIDE DEF c
  <2> QED
    BY <2>1, <2>2, SaveFailsKeeps
<1>2. CASE LockRefused(i) \/ Killed(i)
  <2>1. SaveFails(i, content) /\ content \in [Inodes -> Contents]
    BY <1>2 DEF LockRefused, Killed, FilesInv, FilesTypeOK
  <2> QED
    BY <2>1, SaveFailsKeeps
<1> QED
  BY <1>1, <1>2

(* The file is closed and true returned: the preset is among the saved.      *)
LEMMA SaveSucceedsKeeps ==
    ASSUME PresetAssumption, FilesInv, NEW i \in Instances, SaveSucceeds(i)
    PROVE  FilesInv'
<1>1. /\ content' \in [Inodes -> Contents] /\ lock' \in [Inodes -> Instances \cup {nobody}]
      /\ pc' = [pc EXCEPT ![i] = "idle"] /\ archive' = [archive EXCEPT ![i] = empty]
      /\ fd' = [fd EXCEPT ![i] = none] /\ crossed' = crossed \ {i} /\ path' = path
      /\ path \in Inodes => content'[path] = content[path]
      /\ \A j \in Instances : j # i => /\ fd[j] \in Inodes => content'[fd[j]] = content[fd[j]]
                                       /\ pc'[j] = pc[j] /\ archive'[j] = archive[j]
                                       /\ fd'[j] = fd[j]
      /\ pc'[i] = "idle"
  BY EndsKeeps DEF FilesInv, FilesTypeOK, SaveSucceeds
<1>2. /\ good' = (IF spoilt THEN {} ELSE good \cup {archive[i]})
      /\ overlap' = overlap /\ spoilt' = spoilt
      /\ pc[i] = "close" /\ archive[i] \in Presets
  BY DEF FilesInv, InCall, Saving, SaveSucceeds
<1>3. FilesTypeOK'
  <2>1. good' \subseteq Presets
    BY <1>2 DEF FilesInv, FilesTypeOK
  <2> QED
    BY <1>1, <1>2, <2>1, Distinct DEF FilesInv, FilesTypeOK
<1>4. InCall'
  BY <1>1 DEF FilesInv, InCall, Saving
<1>5. Alone'
  <2>1. \A j \in Instances : pc'[j] \in {"relock", "write"} =>
          pc[j] \in {"relock", "write"} /\ fd'[j] = fd[j] /\ content'[fd[j]] = content[fd[j]]
    BY <1>1 DEF FilesInv, InCall
  <2>2. \A j \in Instances : Saving(j)' => Saving(j)
    BY <1>1 DEF Saving
  <2> QED
    BY <1>2, <2>1, <2>2 DEF FilesInv, Alone
<1>6. Durable'
  <2>1. \A j \in Instances : (Replacing(j) => Replacing(j)') /\ (Writing(j) => Writing(j)')
    BY <1>1, <1>2 DEF Replacing, Writing
  <2>2. ~spoilt => Written' = Written
    <3>1. \A j \in Instances : (pc[j] = "close" <=> pc'[j] = "close" \/ j = i)
                               /\ (pc'[j] = "close" => archive'[j] = archive[j])
      BY <1>1, <1>2
    <3> QED
      BY <1>2, <3>1 DEF Written
  <2>3. path # none => content'[path] = content[path]
    BY <1>1 DEF FilesInv, FilesTypeOK
  <2>4. Saving(i) /\ pc[i] # "create"
    BY <1>2 DEF Saving
  <2> QED
    BY <1>1, <1>2, <2>1, <2>2, <2>3, <2>4 DEF FilesInv, Durable
<1>7. NoneSaved'
  BY <1>2 DEF NoneSaved
<1>8. Loading'
  <2>1. \A j \in Instances \ crossed : Loads(j) => FALSE
    BY <1>2 DEF FilesInv, Loading, Saving
  <2> QED
    BY <1>1, <2>1 DEF Loading, Loads
<1> QED
  BY <1>3, <1>4, <1>5, <1>6, <1>7, <1>8 DEF FilesInv
-----------------------------------------------------------------------------
(* Loads, which only the last two conjuncts are about.                       *)

(* A load opens what the path names; one during a save is noted.             *)
LEMMA LoadBeginsKeeps ==
    ASSUME PresetAssumption, FilesInv, NEW i \in Instances, LoadBegins(i)
    PROVE  FilesInv'
<1>1. /\ pc[i] = "idle" /\ path \in Inodes /\ fd' = [fd EXCEPT ![i] = path]
      /\ pc' = [pc EXCEPT ![i] = "lockRead"]
      /\ crossed' = (IF \E j \in Instances : Saving(j) THEN crossed \cup {i} ELSE crossed \ {i})
      /\ UNCHANGED <<path, content, lock, archive, good, overlap, spoilt>>
  BY DEF FilesInv, FilesTypeOK, LoadBegins, Steps
<1>2. /\ \A j \in Instances : j # i => pc'[j] = pc[j] /\ fd'[j] = fd[j]
      /\ pc'[i] = "lockRead" /\ fd'[i] = path
  BY <1>1 DEF FilesInv, FilesTypeOK
<1>3. FilesTypeOK'
  <2>1. crossed' \subseteq Instances
    BY <1>1 DEF FilesInv, FilesTypeOK
  <2> QED
    BY <1>1, <2>1 DEF FilesInv, FilesTypeOK
<1>4. InCall'
  BY <1>1, <1>2 DEF FilesInv, InCall, Saving
<1>5. (Alone /\ Durable /\ NoneSaved)' /\ \A j \in Instances : Saving(j)' <=> Saving(j)
  <2>1. ~Saving(i) /\ ~Saving(i)'
    BY <1>1, <1>2 DEF Saving
  <2> QED
    BY <1>1, <1>2, <2>1, LoadKeepsFiles
<1>6. Loading'
  BY <1>1, <1>2, <1>5 DEF FilesInv, Loading, Loads
<1> QED
  BY <1>3, <1>4, <1>5, <1>6 DEF FilesInv

(* The steps of a load that change no file.                                  *)
LEMMA LoadStepKeeps ==
    ASSUME PresetAssumption, FilesInv, NEW i \in Instances,
           LockForLoad(i) \/ Size(i) \/ Read(i)
    PROVE  FilesInv'
<1>1. /\ pc[i] \in {"lockRead", "size", "read"}
      /\ \E s \in {"size", "read", "build"} :
             /\ pc' = [pc EXCEPT ![i] = s]
             /\ s = "size" => pc[i] = "lockRead" /\ archive' = archive
             /\ s = "read" => pc[i] = "size" /\ archive' = [archive EXCEPT ![i] = content[fd[i]]]
             /\ s = "build" => pc[i] = "read" /\ archive' = archive
      /\ UNCHANGED <<path, content, fd, good, overlap, spoilt, crossed>>
  BY DEF LockForLoad, Size, Read, Steps, history
<1>2. lock' \in [Inodes -> Instances \cup {nobody}]
  BY DEF LockForLoad, Size, Read, FilesInv, FilesTypeOK
<1>3. PICK s \in {"size", "read", "build"} :
             /\ pc' = [pc EXCEPT ![i] = s]
             /\ s = "size" => pc[i] = "lockRead" /\ archive' = archive
             /\ s = "read" => pc[i] = "size" /\ archive' = [archive EXCEPT ![i] = content[fd[i]]]
             /\ s = "build" => pc[i] = "read" /\ archive' = archive
  BY <1>1
<1>4. fd[i] \in Inodes /\ content[fd[i]] \in Contents
  BY <1>1 DEF FilesInv, FilesTypeOK, InCall
<1>5. FilesTypeOK'
  BY <1>1, <1>2, <1>3, <1>4 DEF FilesInv, FilesTypeOK
<1>6. /\ \A j \in Instances : j # i => pc'[j] = pc[j] /\ archive'[j] = archive[j]
      /\ pc'[i] = s /\ (s = "read" => archive'[i] = content[fd[i]])
      /\ s # "read" => archive'[i] = archive[i]
  BY <1>3 DEF FilesInv, FilesTypeOK
<1>7. InCall'
  BY <1>1, <1>4, <1>6 DEF FilesInv, InCall, Saving
<1>8. (Alone /\ Durable /\ NoneSaved)' /\ \A j \in Instances : Saving(j)' <=> Saving(j)
  <2>1. ~Saving(i) /\ ~Saving(i)'
    BY <1>1, <1>6 DEF Saving
  <2> QED
    BY <1>1, <1>3, <1>6, <2>1, LoadKeepsFiles
<1>9. Loading'
  <2>1. s = "read" /\ i \notin crossed /\ ~spoilt => content[fd[i]] # empty
    <3>1. SUFFICES ASSUME s = "read", i \notin crossed, ~spoilt
                   PROVE  content[fd[i]] # empty
      OBVIOUS
    <3>2. (\A j \in Instances : ~Saving(j)) /\ fd[i] = path
      BY <1>3, <3>1 DEF FilesInv, Loading, Loads
    <3>3. path # none
      BY <1>4, <3>2, Distinct
    <3>4. content[path] \in Written
      <4>1. ~\E j \in Instances : Replacing(j) \/ Writing(j)
        BY <3>2 DEF Replacing, Writing, Saving
      <4>2. good # {}
        BY <3>1, <3>2, <3>3 DEF FilesInv, NoneSaved
      <4> QED
        BY <3>1, <4>1, <4>2 DEF FilesInv, Durable
    <3>5. empty \notin Written
      BY <3>2, Distinct DEF Written, Saving, FilesInv, FilesTypeOK
    <3> QED
      BY <3>2, <3>4, <3>5
  <2> QED
    BY <1>1, <1>3, <1>6, <1>8, <2>1 DEF FilesInv, Loading, Loads
<1> QED
  BY <1>5, <1>7, <1>8, <1>9 DEF FilesInv

(* The file is closed, and the preset at hand is whole.                      *)
LEMMA BuildKeeps ==
    ASSUME PresetAssumption, FilesInv, NEW i \in Instances, Build(i)
    PROVE  FilesInv'
<1>1. /\ pc[i] = "build" /\ archive[i] \in Presets
      /\ pc' = [pc EXCEPT ![i] = "built"] /\ Closes(i, content)
      /\ UNCHANGED <<path, archive, good, overlap, spoilt, crossed>>
  BY DEF Build, Steps, history
<1>2. /\ content' \in [Inodes -> Contents] /\ lock' \in [Inodes -> Instances \cup {nobody}]
      /\ fd' = [fd EXCEPT ![i] = none]
      /\ path \in Inodes => content'[path] = content[path]
      /\ \A j \in Instances : j # i /\ fd[j] \in Inodes => content'[fd[j]] = content[fd[j]]
  BY <1>1, ClosesKeeps DEF FilesInv, FilesTypeOK
<1>3. FilesTypeOK'
  BY <1>1, <1>2 DEF FilesInv, FilesTypeOK
<1>4. /\ \A j \in Instances : j # i => pc'[j] = pc[j] /\ fd'[j] = fd[j]
      /\ pc'[i] = "built"
  BY <1>1, <1>2 DEF FilesInv, FilesTypeOK
<1>5. InCall'
  BY <1>1, <1>4 DEF FilesInv, InCall, Saving
<1>6. (Alone /\ Durable /\ NoneSaved)' /\ \A j \in Instances : Saving(j)' <=> Saving(j)
  <2>1. ~Saving(i) /\ ~Saving(i)'
    BY <1>1, <1>4 DEF Saving
  <2> QED
    BY <1>1, <1>2, <1>4, <2>1, LoadKeepsFiles
<1>7. Loading'
  BY <1>1, <1>4, <1>6 DEF FilesInv, Loading, Loads
<1> QED
  BY <1>3, <1>5, <1>6, <1>7 DEF FilesInv

(* The user is asked, with the file closed.                                  *)
LEMMA AskingKeeps ==
    ASSUME PresetAssumption, FilesInv, NEW i \in Instances, DeserializeThrows(i)
    PROVE  FilesInv'
<1>1. /\ pc[i] = "built" /\ pc' = [pc EXCEPT ![i] = "asking"]
      /\ UNCHANGED <<path, content, lock, fd, archive, good, overlap, spoilt, crossed>>
  BY DEF DeserializeThrows, Steps, history
<1>2. FilesTypeOK'
  BY <1>1 DEF FilesInv, FilesTypeOK
<1>3. /\ \A j \in Instances : j # i => pc'[j] = pc[j]
      /\ pc'[i] = "asking"
  BY <1>1 DEF FilesInv, FilesTypeOK
<1>4. InCall'
  BY <1>1, <1>3 DEF FilesInv, InCall, Saving
<1>5. (Alone /\ Durable /\ NoneSaved)' /\ \A j \in Instances : Saving(j)' <=> Saving(j)
  <2>1. ~Saving(i) /\ ~Saving(i)'
    BY <1>1, <1>3 DEF Saving
  <2> QED
    BY <1>1, <2>1, LoadKeepsFiles
<1>6. Loading'
  BY <1>1, <1>3, <1>5 DEF FilesInv, Loading, Loads
<1> QED
  BY <1>2, <1>4, <1>5, <1>6 DEF FilesInv
-----------------------------------------------------------------------------
(* The objects, and the whole.                                               *)

(* A step of the files alone moves an instance to a step short of a built    *)
(* serializer, or to one, and never to the question.                         *)
LEMMA FileMovesKeep ==
    ASSUME PresetAssumption, FilesInv, NEW i \in Instances, FileMoves(i)
    PROVE  FilesInv' /\ \A j \in Instances : pc'[j] = "asking" <=> pc[j] = "asking"
<1>1. FilesInv'
  <2>1. CASE LockRefused(i) \/ WriteFallsShort(i)
    <3>1. Saving(i)
      BY <2>1 DEF LockRefused, WriteFallsShort, Saving
    <3> QED
      BY <2>1, <3>1, FailedSaveKeeps
  <2>2. CASE LoadRefused(i) \/ ReadFallsShort(i) \/ BuildThrows(i)
    <3>1. ~Saving(i) /\ Fails(i, content)
      BY <2>2 DEF LoadRefused, ReadFallsShort, BuildThrows, Saving
    <3> QED
      BY <3>1, FailsKeeps
  <2> QED
    BY <2>1, <2>2, CreateKeeps, LockForSaveKeeps, RemoveKeeps, WriteKeeps, SaveSucceedsKeeps,
       LoadBeginsKeeps, LoadStepKeeps, BuildKeeps DEF FileMoves
<1>2. pc[i] # "asking" /\ (pc' = pc \/ \E s : s # "asking" /\ pc' = [pc EXCEPT ![i] = s])
  BY DEF FileMoves, Create, LockForSave, LockRefused, RemoveCloses, RemoveUnlinks, Write,
         WriteFallsShort, SaveSucceeds, LoadBegins, LoadRefused, LockForLoad, Size, Read,
         ReadFallsShort, BuildThrows, Build, Fails, SaveFails, Ends, Steps
<1> QED
  BY <1>1, <1>2 DEF FilesInv, FilesTypeOK

(* A state that is left to an object has its excuse when it is torn.         *)
LEMMA LeftWithExcuse ==
    ASSUME WidgetAssumption, IInv, NEW i \in Instances, NEW o \in States,
           NEW why \in {"none", "accepted", "stranded"}, o = torn => why # "none",
           Leaves(i, o, why)
    PROVE  /\ excuse' \in [Instances -> {"none", "accepted", "stranded"}]
           /\ o = torn => excuse'[i] \in {"accepted", "stranded"}
           /\ \A j \in Instances : j # i => excuse'[j] = excuse[j]
<1>1. excuse \in [Instances -> {"none", "accepted", "stranded"}]
  BY DEF IInv, ObjectInv
<1>2. excuse' = [excuse EXCEPT ![i] = IF o # torn THEN "none"
                                      ELSE IF excuse[i] = "none" THEN why ELSE excuse[i]]
  BY Zenon DEF Leaves
<1>3. excuse[i] \in {"none", "accepted", "stranded"}
  BY <1>1
<1> QED
  BY <1>1, <1>2, <1>3

(* A step after which the instance is idle, with an object that has its      *)
(* excuse, keeps the invariant.                                              *)
LEMMA LeavingKeeps ==
    ASSUME WidgetAssumption, IInv, NEW i \in Instances, NEW o \in States,
           NEW why \in {"none", "accepted", "stranded"}, o = torn => why # "none",
           Leaves(i, o, why), object' = [object EXCEPT ![i] = o],
           safeState' \in [Instances -> Presets], edits' \in 0 .. MaxEdits,
           FilesInv', \A j \in Instances : j # i => pc'[j] = pc[j]
    PROVE  IInv'
<1>1. /\ excuse' \in [Instances -> {"none", "accepted", "stranded"}]
      /\ o = torn => excuse'[i] \in {"accepted", "stranded"}
      /\ \A j \in Instances : j # i => excuse'[j] = excuse[j]
  BY LeftWithExcuse
<1>2. /\ object' \in [Instances -> States] /\ object'[i] = o
      /\ \A j \in Instances : j # i => object'[j] = object[j]
  BY DEF IInv, ObjectInv
<1>3. TornByChoice'
  BY <1>1, <1>2 DEF IInv, ObjectInv, TornByChoice
<1> QED
  BY <1>1, <1>2, <1>3 DEF IInv, ObjectInv

(* The answer to the question ends the load.                                 *)
LEMMA Answered ==
    ASSUME PresetAssumption, WidgetAssumption, IInv, NEW i \in Instances, Asked(i)
    PROVE  /\ FilesInv' /\ \A j \in Instances : j # i => pc'[j] = pc[j]
           /\ safeState' \in [Instances -> Presets]
<1>1. /\ pc[i] = "asking" /\ Fails(i, content) /\ pc' = [pc EXCEPT ![i] = "idle"]
      /\ safeState' = [safeState EXCEPT ![i] = void]
  BY DEF Asked, Fails, Ends, Steps
<1>2. FilesInv'
  BY <1>1, FailsKeeps DEF IInv, Saving
<1> QED
  BY <1>1, <1>2 DEF IInv, ObjectInv, FilesInv, FilesTypeOK, WidgetAssumption

(* An object changes in its own instance's steps: what is loaded half        *)
(* changed was saved so, and what is put back is what was there, or a part   *)
(* of it that the user accepted.                                             *)
LEMMA ObjectKeeps ==
    ASSUME PresetAssumption, WidgetAssumption, IInv, WidgetNext
    PROVE  IInv'
<1>1. PICK i \in Instances :
        \/ FileMoves(i) /\ UNCHANGED <<object, safeState, edits, excuse>>
        \/ Edit(i) \/ Save(i) \/ SafeStateThrows(i)
        \/ Deserialize(i) \/ DeserializeThrows(i)
        \/ Revert(i) \/ RevertThrows(i) \/ Keep(i) \/ Crash(i)
  BY DEF WidgetNext
<1>2. /\ 0 \in States /\ torn \in States /\ States \subseteq Presets /\ void \in Presets
      /\ 0 # torn /\ \A p \in Presets : p # void => p \in States
  BY DEF States, WidgetAssumption
<1>a. /\ object \in [Instances -> States] /\ safeState \in [Instances -> Presets]
      /\ edits \in 0 .. MaxEdits
  BY DEF IInv, ObjectInv
<1>b. \A p \in Serialized(i) : p \in Presets
  BY <1>2, <1>a DEF Serialized
<1>3. CASE FileMoves(i) /\ UNCHANGED <<object, safeState, edits, excuse>>
  BY <1>3, FileMovesKeep DEF IInv, ObjectInv, TornByChoice
<1>4. CASE Edit(i)
  <2>1. /\ pc[i] = "idle" /\ edits < MaxEdits /\ edits' = edits + 1
        /\ object' = [object EXCEPT ![i] = edits + 1] /\ Leaves(i, edits + 1, "none")
        /\ safeState' = safeState
    BY <1>4 DEF Edit
  <2>2. UNCHANGED <<path, content, lock, pc, fd, archive, good, overlap, spoilt, crossed>>
    BY <1>4 DEF Edit, fileVars
  <2>3. FilesInv'
    BY <2>2 DEF IInv, FilesInv, FilesTypeOK, InCall, Alone, Durable, NoneSaved, Loading,
                Saving, Replacing, Writing, Written, Loads
  <2>4. edits' \in 0 .. MaxEdits /\ edits + 1 \in States /\ edits + 1 # torn
    BY <1>a, <2>1 DEF States, WidgetAssumption
  <2> QED
    BY <1>a, <2>1, <2>2, <2>3, <2>4, LeavingKeeps
<1>5. CASE Save(i)
  <2>1. PICK p \in Presets : SaveBegins(i, p)
    BY <1>b, <1>5 DEF Save
  <2>2. UNCHANGED <<object, safeState, edits, excuse>>
    BY <1>5 DEF Save
  <2>3. \A j \in Instances : pc'[j] = "asking" <=> pc[j] = "asking"
    BY <2>1 DEF SaveBegins, Steps, IInv, FilesInv, FilesTypeOK
  <2>4. FilesInv'
    BY <2>1, SaveBeginsKeeps DEF IInv
  <2> QED
    BY <2>2, <2>3, <2>4 DEF IInv, ObjectInv, TornByChoice
<1>6. CASE SafeStateThrows(i)
  <2>1. /\ pc[i] = "built" /\ Fails(i, content) /\ UNCHANGED <<object, safeState, edits, excuse>>
        /\ pc' = [pc EXCEPT ![i] = "idle"]
    BY <1>6 DEF SafeStateThrows, Fails, Ends, Steps
  <2>2. FilesInv'
    BY <2>1, FailsKeeps DEF IInv, Saving
  <2>3. \A j \in Instances : pc'[j] = "asking" <=> pc[j] = "asking"
    BY <2>1 DEF IInv, FilesInv, FilesTypeOK
  <2> QED
    BY <2>1, <2>2, <2>3 DEF IInv, ObjectInv, TornByChoice
<1>7. CASE Deserialize(i)
  <2>1. /\ pc[i] = "built" /\ archive[i] # void /\ Fails(i, content)
        /\ edits' = edits /\ safeState' = safeState
        /\ object' = [object EXCEPT ![i] = archive[i]] /\ Leaves(i, archive[i], "accepted")
        /\ pc' = [pc EXCEPT ![i] = "idle"]
    BY <1>7 DEF Deserialize, Fails, Ends, Steps
  <2>2. FilesInv'
    BY <2>1, FailsKeeps DEF IInv, Saving
  <2>3. archive[i] \in States
    BY <1>2, <2>1 DEF IInv, FilesInv, InCall
  <2>4. \A j \in Instances : j # i => pc'[j] = pc[j]
    BY <2>1 DEF IInv, FilesInv, FilesTypeOK
  <2> QED
    BY <1>a, <2>1, <2>2, <2>3, <2>4, LeavingKeeps
<1>8. CASE DeserializeThrows(i)
  <2>1. /\ pc[i] = "built" /\ UNCHANGED <<edits, excuse>>
        /\ pc' = [pc EXCEPT ![i] = "asking"]
        /\ object' = object \/ object' = [object EXCEPT ![i] = torn]
    BY <1>8 DEF DeserializeThrows, Steps
  <2>2. PICK p \in Presets : safeState' = [safeState EXCEPT ![i] = p]
    BY <1>b, <1>8 DEF DeserializeThrows
  <2>3. FilesInv'
    BY <1>8, AskingKeeps DEF IInv
  <2>4. pc'[i] = "asking" /\ \A j \in Instances : j # i => pc'[j] = pc[j]
    BY <2>1 DEF IInv, FilesInv, FilesTypeOK
  <2>5. object' \in [Instances -> States] /\ \A j \in Instances : j # i => object'[j] = object[j]
    BY <1>2, <1>a, <2>1
  <2>6. TornByChoice'
    BY <2>1, <2>4, <2>5 DEF IInv, ObjectInv, TornByChoice
  <2> QED
    BY <1>a, <2>1, <2>2, <2>3, <2>5, <2>6 DEF IInv, ObjectInv
<1>9. CASE Revert(i)
  <2>1. /\ Asked(i) /\ safeState[i] # void /\ edits' = edits
        /\ object' = [object EXCEPT ![i] = safeState[i]] /\ Leaves(i, safeState[i], "accepted")
    BY <1>9 DEF Revert
  <2>2. safeState[i] \in States
    BY <1>2, <1>a, <2>1
  <2> QED
    BY <1>a, <2>1, <2>2, Answered, LeavingKeeps
<1>10. CASE RevertThrows(i)
  <2>1. PICK o \in States :
           object' = [object EXCEPT ![i] = o] /\ object'[i] = o
    <3>1. object' = [object EXCEPT ![i] = object[i]] \/ object' = [object EXCEPT ![i] = torn]
      BY <1>10, <1>a DEF RevertThrows
    <3> QED
      BY <1>2, <1>a, <3>1
  <2>2. Asked(i) /\ edits' = edits /\ Leaves(i, o, "stranded")
    BY <1>10, <2>1 DEF RevertThrows
  <2> QED
    BY <1>a, <2>1, <2>2, Answered, LeavingKeeps
<1>11. CASE Keep(i)
  <2>1. /\ Asked(i) /\ edits' = edits /\ Leaves(i, object[i], "accepted")
        /\ object' = [object EXCEPT ![i] = object[i]]
    BY <1>11, <1>a DEF Keep
  <2> QED
    BY <1>a, <2>1, Answered, LeavingKeeps
<1>12. CASE Crash(i)
  <2>1. /\ Killed(i) /\ edits' = edits /\ Leaves(i, 0, "none")
        /\ object' = [object EXCEPT ![i] = 0] /\ safeState' = [safeState EXCEPT ![i] = void]
        /\ pc' = [pc EXCEPT ![i] = "idle"]
    BY <1>12 DEF Crash, Killed, Fails, SaveFails, Ends, Steps
  <2>2. FilesInv'
    <3>1. CASE Saving(i)
      BY <2>1, <3>1, FailedSaveKeeps DEF IInv
    <3>2. CASE ~Saving(i)
      BY <2>1, <3>2, FailsKeeps DEF IInv, Killed
    <3> QED
      BY <3>1, <3>2
  <2>3. \A j \in Instances : j # i => pc'[j] = pc[j]
    BY <2>1 DEF IInv, FilesInv, FilesTypeOK
  <2>4. safeState' \in [Instances -> Presets]
    BY <1>2, <1>a, <2>1
  <2> QED
    BY <1>2, <1>a, <2>1, <2>2, <2>3, <2>4, LeavingKeeps
<1> QED
  BY <1>1, <1>3, <1>4, <1>5, <1>6, <1>7, <1>8, <1>9, <1>10, <1>11, <1>12
-----------------------------------------------------------------------------
(* Theorems.                                                                 *)

(* The invariant holds throughout.                                           *)
THEOREM Invariance == WidgetSpec => []IInv
<1>1. WidgetInit => IInv
  <2> SUFFICES ASSUME WidgetInit PROVE IInv
    OBVIOUS
  <2>1. FilesInv
    BY InitFiles, PresetAssumption DEF WidgetInit
  <2>2. ObjectInv
    BY WidgetAssumption DEF WidgetInit, FilesInit, ObjectInv, TornByChoice, States
  <2> QED
    BY <2>1, <2>2 DEF IInv
<1>2. IInv /\ [WidgetNext]_wVars => IInv'
  <2> SUFFICES ASSUME IInv, [WidgetNext]_wVars PROVE IInv'
    OBVIOUS
  <2>1. CASE WidgetNext
    BY <2>1, ObjectKeeps, PresetAssumption, WidgetAssumption
  <2>2. CASE UNCHANGED wVars
    <3>1. UNCHANGED <<path, content, lock, pc, fd, archive, good, overlap, spoilt, crossed>>
      BY <2>2 DEF wVars, fileVars
    <3>2. FilesInv'
      BY <3>1 DEF IInv, FilesInv, FilesTypeOK, InCall, Alone, Durable, NoneSaved, Loading,
                  Saving, Replacing, Writing, Written, Loads
    <3>3. ObjectInv'
      BY <2>2, <3>1 DEF wVars, IInv, ObjectInv, TornByChoice
    <3> QED
      BY <3>2, <3>3 DEF IInv
  <2> QED
    BY <2>1, <2>2
<1> QED
  BY <1>1, <1>2, PTL DEF WidgetSpec

(* When all saves are through and none failed, the path names a file with    *)
(* one of the presets whose saving returned true, or a mixed one when two    *)
(* saves met (CPresetManager::savePreset()).                                 *)
THEOREM SavedPresets == WidgetSpec => []SavedIsThere
<1>1. IInv => SavedIsThere
  <2> SUFFICES ASSUME IInv, \A i \in Instances : ~Saving(i), ~spoilt, good # {}
               PROVE  /\ path # none
                      /\ content[path] \in good \cup (IF overlap THEN {mixed} ELSE {})
    BY DEF SavedIsThere
  <2>1. path # none /\ content[path] \in Written
    BY DEF IInv, FilesInv, Durable, Replacing, Writing, Saving
  <2>2. \A i \in Instances : pc[i] # "close"
    BY DEF Saving
  <2> QED
    BY <2>1, <2>2 DEF Written
<1> QED
  BY <1>1, Invariance, PTL

(* A load reads an empty file only after a save that failed or was killed,   *)
(* or when a save was under way at some time during the load, whether that   *)
(* succeeded or not (CPresetManager::loadPreset()).                          *)
THEOREM LoadsOfEmptyFiles == WidgetSpec => []EmptyIsLeftBehind
<1>1. IInv => EmptyIsLeftBehind
  BY DEF IInv, FilesInv, Loading, Loads, EmptyIsLeftBehind
<1> QED
  BY <1>1, Invariance, PTL

(* An object is half changed only while its user is asked, with the user's   *)
(* consent, or when the return to the state kept threw in turn               *)
(* (CPresetWidget, SafeSerializableObject::deserializeObject()).             *)
THEOREM ObjectsAreWhole == WidgetSpec => []TornByChoice
<1>1. IInv => TornByChoice
  BY DEF IInv, ObjectInv
<1> QED
  BY <1>1, Invariance, PTL
=============================================================================
