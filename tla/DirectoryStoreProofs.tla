-------------------------- MODULE DirectoryStoreProofs --------------------------
(***************************************************************************)
(* Theorems about the files of an agent: friends.json (DirectoryStore),    *)
(* for every set of peers, of instances, of inodes and of records, and     *)
(* whatever a mutation does to a record; and audit.log (AuditLog), for     *)
(* every set of writers, every number of rotated copies and every size.    *)
(*                                                                         *)
(* IntactUnlessOverlap is not inductive: os.replace publishes whatever the *)
(* name `.tmp` stands for.  While no two saves have overlapped, the one    *)
(* instance that saves is the only one with a descriptor (Exclusive), the  *)
(* inode it has open is the one named `.tmp`, and once it is closed that   *)
(* inode holds its map (Saving); `.tmp` is never friends.json itself       *)
(* (Apart), so truncating it does not touch the live file.                 *)
(*                                                                         *)
(* DurableUnlessOutdated needs to know of every instance that is not       *)
(* outdated that its map differs from what was saved last only in the      *)
(* records it changed itself (Fresh): the whole map it saves then undoes   *)
(* nothing.                                                                *)
(*                                                                         *)
(* The theorems about audit.log rest on what the names hold while no two   *)
(* rotations have overlapped: full files that get older with the name, an  *)
(* unbroken interval of entries up to the last one, and, for a writer that *)
(* rotates, an empty name to move to.  AuditInv puts these together.       *)
(***************************************************************************)
EXTENDS DirectoryStore, AuditLog, FiniteSetTheorems, TLAPS

Saver(i) == at[i] \in {"opened", "written"}

Apart == tmp # NoInode => tmp # file

Descriptors == \A i \in Instances : at[i] # "opened" => fd[i] = NoInode

Exclusive ==
    ~overlap =>
        /\ \A i, j \in Instances : Saver(i) /\ Saver(j) => i = j
        /\ shared = {}

Saving ==
    ~overlap => \A i \in Instances :
        /\ Saver(i) => tmp \in Inodes
        /\ at[i] = "opened" => fd[i] = tmp
        /\ at[i] = "written" => content[tmp] = mem[i]

Fresh ==
    ~overlap /\ ~clobbered =>
        \A i \in Instances \ outdated : at[i] # "down" =>
            \A p \in Peers \ touched[i] : mem[i][p] = owed[p]

Safe == Apart /\ Descriptors /\ Exclusive /\ Saving /\ IntactUnlessOverlap

IInv == TypeOK /\ Safe /\ Fresh /\ DurableUnlessOutdated

-----------------------------------------------------------------------------
(* Lemmas about the file system.                                           *)

\* What friends.json holds depends on its inode only.
LEMMA OnFileSame ==
    ASSUME file' = file, file # NoInode => content'[file] = content[file]
    PROVE  OnFile' = OnFile
PROOF
  BY DEF OnFile

\* Freeing inodes changes no inode that has a name.
LEMMA ContentsNamed ==
    ASSUME NEW new, Contents(new), NEW n \in Inodes, n \in {file', tmp'}
    PROVE  content'[n] = new[n]
PROOF
  BY DEF Contents

LEMMA ContentsType ==
    ASSUME NEW new \in [Inodes -> Map \cup {Empty, Torn}], Contents(new)
    PROVE  content' \in [Inodes -> Map \cup {Empty, Torn}]
PROOF
  BY DEF Contents

LEMMA NobodyIsMap == Nobody \in Map
PROOF
  BY DEF Nobody, Map

LEMMA TypeOKInit == Init => TypeOK
PROOF
  BY NobodyIsMap DEF Init, TypeOK, Stages

\* Closing a file changes what the inode behind the descriptor holds.
LEMMA CloseType ==
    ASSUME TypeOK, NEW i \in Instances, NEW what \in Map \cup {Empty, Torn}, Close(i, what)
    PROVE  /\ fd' \in [Instances -> Inodes \cup {NoInode}]
           /\ content' \in [Inodes -> Map \cup {Empty, Torn}]
           /\ shared' \subseteq Inodes
           /\ file' = file /\ tmp' = tmp
PROOF
<1> DEFINE new == [n \in Inodes |-> IF n = fd[i] THEN what ELSE content[n]]
<1>1. new \in [Inodes -> Map \cup {Empty, Torn}]
  BY DEF TypeOK
<1>2. Contents(new)
  BY DEF Close
<1> QED
  BY <1>1, <1>2, ContentsType DEF Close, TypeOK

\* Closing a file that is not friends.json leaves friends.json alone.
LEMMA CloseElsewhere ==
    ASSUME TypeOK, NEW i \in Instances, NEW what, Close(i, what),
           fd[i] # NoInode => fd[i] # file
    PROVE  /\ OnFile' = OnFile
           /\ tmp \in Inodes /\ fd[i] # tmp => content'[tmp] = content[tmp]
           /\ tmp \in Inodes /\ fd[i] = tmp => content'[tmp] = what
PROOF
<1> DEFINE new == [n \in Inodes |-> IF n = fd[i] THEN what ELSE content[n]]
<1>1. Contents(new) /\ file' = file /\ tmp' = tmp
  BY DEF Close
<1>2. file # NoInode => content'[file] = new[file]
  BY <1>1, ContentsNamed DEF TypeOK
<1>3. file # NoInode => new[file] = content[file]
  BY DEF TypeOK
<1>4. tmp \in Inodes => content'[tmp] = new[tmp]
  BY <1>1, ContentsNamed
<1> HIDE DEF new
<1>5. OnFile' = OnFile
  BY <1>1, <1>2, <1>3, OnFileSame
<1>6. tmp \in Inodes => new[tmp] = IF fd[i] = tmp THEN what ELSE content[tmp]
  BY DEF new
<1> QED
  BY <1>4, <1>5, <1>6

-----------------------------------------------------------------------------
(* The actions.                                                            *)

LEMMA InitInv == Init => IInv
PROOF
<1> SUFFICES ASSUME Init PROVE IInv
  OBVIOUS
<1>1. TypeOK
  BY TypeOKInit
<1>2. Safe
  BY NobodyIsMap
  DEF Init, Safe, Apart, Descriptors, Exclusive, Saving, Saver,
      IntactUnlessOverlap, FileIntact, OnFile
<1>3. Fresh /\ DurableUnlessOutdated
  BY DEF Init, Fresh, DurableUnlessOutdated, Durable, OnFile
<1> QED
  BY <1>1, <1>2, <1>3 DEF IInv

LEMMA StartInv ==
    ASSUME IInv, NEW i \in Instances, Start(i)
    PROVE  IInv'
PROOF
<1> USE DEF IInv
<1>1. TypeOK'
  BY DEF TypeOK, Start, store, Stages
<1>2. OnFile' = OnFile
  BY DEF Start, store, OnFile
<1>3. \A j \in Instances : at'[j] = IF j = i THEN "idle" ELSE at[j]
  BY DEF Start, TypeOK
<1>4. \A j \in Instances : j # i => mem'[j] = mem[j]
  BY DEF Start, TypeOK
<1>5. Safe'
  <2>1. Apart' /\ Descriptors' /\ Exclusive'
    BY <1>3 DEF Safe, Apart, Descriptors, Exclusive, Saver, Start, store
  <2>2. Saving'
    BY <1>3, <1>4 DEF Safe, Saving, Saver, Start, store
  <2>3. IntactUnlessOverlap'
    BY <1>2 DEF Safe, IntactUnlessOverlap, FileIntact, Start
  <2> QED
    BY <2>1, <2>2, <2>3 DEF Safe
<1>6. DurableUnlessOutdated'
  BY <1>2 DEF DurableUnlessOutdated, Durable, Start
<1>7. Fresh'
  <2> SUFFICES ASSUME ~overlap, ~clobbered, NEW j \in Instances, j \notin outdated',
                      at'[j] # "down", NEW p \in Peers, p \notin touched[j]
               PROVE  mem'[j][p] = owed[p]
    BY DEF Fresh, Start
  <2>1. CASE j = i
    <3>1. mem'[j] = OnFile
      BY <2>1 DEF Start, TypeOK
    <3>2. OnFile = owed
      BY DEF DurableUnlessOutdated, Durable
    <3> QED
      BY <3>1, <3>2
  <2>2. CASE j # i
    BY <1>3, <1>4, <2>2 DEF Fresh, Start
  <2> QED
    BY <2>1, <2>2
<1> QED
  BY <1>1, <1>5, <1>6, <1>7

LEMMA MutateInv ==
    ASSUME IInv, NEW i \in Instances, NEW p \in Peers,
           NEW rec \in Records \cup {NoRecord}, Mutate(i, p, rec)
    PROVE  IInv'
PROOF
<1> USE DEF IInv
<1>1. TypeOK'
  BY DEF TypeOK, Mutate, store, ghosts, Stages, Map
<1>2. OnFile' = OnFile
  BY DEF Mutate, store, OnFile
<1>3. \A j \in Instances : at'[j] = IF j = i THEN "mutated" ELSE at[j]
  BY DEF Mutate, TypeOK
<1>4. \A j \in Instances : j # i => mem'[j] = mem[j] /\ touched'[j] = touched[j]
  BY DEF Mutate, TypeOK
<1>5. Safe'
  <2>1. Apart' /\ Descriptors' /\ Exclusive'
    BY <1>3 DEF Safe, Apart, Descriptors, Exclusive, Saver, Mutate, store, ghosts
  <2>2. Saving'
    BY <1>3, <1>4 DEF Safe, Saving, Saver, Mutate, store, ghosts
  <2>3. IntactUnlessOverlap'
    BY <1>2 DEF Safe, IntactUnlessOverlap, FileIntact, Mutate, ghosts
  <2> QED
    BY <2>1, <2>2, <2>3 DEF Safe
<1>6. DurableUnlessOutdated'
  BY <1>2 DEF DurableUnlessOutdated, Durable, Mutate, ghosts
<1>7. Fresh'
  <2> SUFFICES ASSUME ~overlap, ~clobbered, NEW j \in Instances, j \notin outdated,
                      at'[j] # "down", NEW q \in Peers, q \notin touched'[j]
               PROVE  mem'[j][q] = owed[q]
    BY DEF Fresh, Mutate, ghosts
  <2>1. CASE j = i
    <3>1. q # p /\ q \notin touched[i]
      BY <2>1 DEF Mutate, TypeOK
    <3>2. mem'[i][q] = mem[i][q]
      BY <3>1 DEF Mutate, TypeOK, Map
    <3>3. at[i] # "down"
      BY DEF Mutate
    <3> QED
      BY <2>1, <3>1, <3>2, <3>3 DEF Fresh
  <2>2. CASE j # i
    BY <1>3, <1>4, <2>2 DEF Fresh
  <2> QED
    BY <2>1, <2>2
<1> QED
  BY <1>1, <1>5, <1>6, <1>7

LEMMA OpenTmpInv ==
    ASSUME IInv, NEW i \in Instances, OpenTmp(i)
    PROVE  IInv'
PROOF
<1> USE DEF IInv
<1> DEFINE new == [content EXCEPT ![tmp'] = Empty]
<1>1. /\ tmp' \in Inodes
      /\ tmp' # file
      /\ tmp = NoInode => tmp' \in Unused
      /\ tmp # NoInode => tmp' = tmp
      /\ file' = file
  BY DEF OpenTmp, Unused, TypeOK, Safe, Apart
<1>2. \A j \in Instances : at'[j] = IF j = i THEN "opened" ELSE at[j]
  BY DEF OpenTmp, TypeOK
<1>3. \A j \in Instances : fd'[j] = IF j = i THEN tmp' ELSE fd[j]
  BY DEF OpenTmp, TypeOK
<1>4. new \in [Inodes -> Map \cup {Empty, Torn}] /\ Contents(new)
  BY <1>1 DEF TypeOK, OpenTmp
<1>5. OnFile' = OnFile
  <2>1. file # NoInode => content'[file] = new[file] /\ new[file] = content[file]
    BY <1>1, <1>4, ContentsNamed DEF TypeOK
  <2> QED
    BY <1>1, <2>1, OnFileSame
<1>6. TypeOK'
  <2>1. content' \in [Inodes -> Map \cup {Empty, Torn}]
    BY <1>4, ContentsType
  <2>2. /\ file' \in Inodes \cup {NoInode} /\ tmp' \in Inodes \cup {NoInode}
        /\ shared' \subseteq Inodes
        /\ at' \in [Instances -> Stages]
        /\ mem' \in [Instances -> Map]
        /\ fd' \in [Instances -> Inodes \cup {NoInode}]
    BY <1>1 DEF OpenTmp, TypeOK, Stages
  <2>3. /\ touched' \in [Instances -> SUBSET Peers]
        /\ owed' \in Map /\ outdated' \subseteq Instances
        /\ overlap' \in BOOLEAN /\ clobbered' \in BOOLEAN
    BY DEF OpenTmp, TypeOK
  <2> QED
    BY <2>1, <2>2, <2>3 DEF TypeOK
<1>7. Apart' /\ Descriptors'
  BY <1>1, <1>2, <1>3 DEF Safe, Apart, Descriptors
<1>8. ~overlap' => ~overlap /\ \A j \in Instances : ~Saver(j)
  BY DEF OpenTmp, Saver
<1>9. Exclusive'
  <2>1. ~overlap' => \A j \in Instances : fd[j] = NoInode
    BY <1>8 DEF Safe, Descriptors, Saver
  <2>2. ~overlap' => shared' = {}
    BY <1>1, <1>8, <2>1, NoInodeAssumption DEF OpenTmp, Open, Safe, Exclusive
  <2>3. ~overlap' => \A j \in Instances : Saver(j)' => j = i
    BY <1>2, <1>8 DEF Saver
  <2> QED
    BY <2>2, <2>3 DEF Exclusive
<1>10. Saving'
  BY <1>1, <1>2, <1>3, <1>8 DEF Saving, Saver
<1>11. IntactUnlessOverlap' /\ DurableUnlessOutdated'
  BY <1>5, <1>8 DEF Safe, IntactUnlessOverlap, FileIntact, DurableUnlessOutdated,
                    Durable, OpenTmp
<1>12. Fresh'
  <2>1. OpenTmp(i) => /\ mem' = mem /\ touched' = touched /\ owed' = owed
                      /\ outdated' = outdated /\ clobbered' = clobbered
    BY DEF OpenTmp
  <2>2. \A j \in Instances : at'[j] # "down" => at[j] # "down"
    BY <1>2 DEF OpenTmp
  <2> QED
    BY <1>8, <2>1, <2>2 DEF Fresh
<1> QED
  BY <1>6, <1>7, <1>9, <1>10, <1>11, <1>12 DEF Safe

\* The three actions that close a file, when no saves have overlapped: the
\* instance ends at a stage where it has nothing open.
LEMMA CloseSafe ==
    ASSUME TypeOK, Safe, NEW i \in Instances, NEW what, NEW stage \in Stages \ {"opened"},
           Close(i, what), at' = [at EXCEPT ![i] = stage], overlap' = overlap,
           \A j \in Instances \ {i} : mem'[j] = mem[j],
           stage = "written" =>
               at[i] = "opened" /\ (what = mem'[i] \/ fd[i] \in shared)
    PROVE  Safe' /\ (~overlap => OnFile' = OnFile)
PROOF
<1>1. \A j \in Instances : at'[j] = IF j = i THEN stage ELSE at[j]
  BY DEF TypeOK
<1>2. \A j \in Instances : fd'[j] = IF j = i THEN NoInode ELSE fd[j]
  BY DEF Close, TypeOK
<1>3. file' = file /\ tmp' = tmp /\ shared' \subseteq shared
  BY DEF Close
<1>4. Apart' /\ Descriptors'
  BY <1>1, <1>2, <1>3 DEF Safe, Apart, Descriptors
<1>5. Exclusive'
  BY <1>1, <1>3 DEF Safe, Exclusive, Saver
<1>6. ASSUME ~overlap
      PROVE  fd[i] # NoInode => fd[i] = tmp /\ tmp \in Inodes /\ fd[i] # file
  BY <1>6, NoInodeAssumption DEF Safe, Apart, Descriptors, Saving, Saver
<1>7. ~overlap => OnFile' = OnFile
  BY <1>6, CloseElsewhere
<1>8. IntactUnlessOverlap'
  BY <1>7 DEF Safe, IntactUnlessOverlap, FileIntact
<1>9. Saving'
  <2> SUFFICES ASSUME ~overlap, NEW j \in Instances, Saver(j)'
               PROVE  /\ tmp \in Inodes
                      /\ at'[j] = "opened" => fd'[j] = tmp
                      /\ at'[j] = "written" => content'[tmp] = mem'[j]
    BY <1>3 DEF Saving, Saver
  <2>1. CASE j = i
    <3>1. stage = "written" /\ at'[i] = "written"
      BY <1>1, <2>1 DEF Saver
    <3>2. at[i] = "opened" /\ what = mem'[i]
      BY <3>1 DEF Safe, Exclusive
    <3>3. fd[i] = tmp /\ tmp \in Inodes
      BY <3>2 DEF Safe, Saving, Saver
    <3>4. content'[tmp] = what
      BY <1>6, <3>3, CloseElsewhere, NoInodeAssumption
    <3> QED
      BY <2>1, <3>1, <3>2, <3>3, <3>4
  <2>2. CASE j # i
    <3>1. Saver(j) /\ at'[j] = at[j] /\ fd'[j] = fd[j] /\ mem'[j] = mem[j]
      BY <1>1, <1>2, <2>2 DEF Saver
    <3>2. at[i] # "opened"
      BY <2>2, <3>1 DEF Safe, Exclusive, Saver
    <3>3. fd[i] = NoInode
      BY <3>2 DEF Safe, Descriptors
    <3>4. tmp \in Inodes
      BY <3>1 DEF Safe, Saving
    <3>5. content'[tmp] = content[tmp]
      BY <1>6, <3>3, <3>4, CloseElsewhere, NoInodeAssumption
    <3> QED
      BY <3>1, <3>4, <3>5 DEF Safe, Saving
  <2> QED
    BY <2>1, <2>2
<1> QED
  BY <1>4, <1>5, <1>7, <1>8, <1>9 DEF Safe

LEMMA WriteTmpInv ==
    ASSUME IInv, NEW i \in Instances, WriteTmp(i)
    PROVE  IInv'
PROOF
<1> USE DEF IInv
<1>1. PICK what \in Map \cup {Empty, Torn} :
          /\ Close(i, what)
          /\ what = mem[i] \/ fd[i] \in shared
  BY DEF WriteTmp, TypeOK
<1>2. /\ at[i] = "opened" /\ at' = [at EXCEPT ![i] = "written"]
      /\ mem' = mem /\ touched' = touched /\ owed' = owed /\ outdated' = outdated
      /\ overlap' = overlap /\ clobbered' = clobbered
  BY DEF WriteTmp, ghosts
<1>3. TypeOK'
  BY <1>1, <1>2, CloseType DEF TypeOK, Stages
<1>4. Safe' /\ (~overlap => OnFile' = OnFile)
  <2>1. "written" \in Stages \ {"opened"}
    BY DEF Stages
  <2>2. at[i] = "opened" /\ (what = mem'[i] \/ fd[i] \in shared)
    BY <1>1, <1>2
  <2>3. \A j \in Instances \ {i} : mem'[j] = mem[j]
    BY <1>2
  <2> QED
    BY <1>1, <1>2, <2>1, <2>2, <2>3, CloseSafe
<1>5. DurableUnlessOutdated'
  BY <1>2, <1>4 DEF DurableUnlessOutdated, Durable
<1>6. Fresh'
  BY <1>2 DEF Fresh, TypeOK
<1> QED
  BY <1>3, <1>4, <1>5, <1>6

LEMMA SaveFailsInv ==
    ASSUME IInv, NEW i \in Instances, SaveFails(i)
    PROVE  IInv'
PROOF
<1> USE DEF IInv
<1>1. /\ at[i] # "down" /\ at' = [at EXCEPT ![i] = "idle"] /\ Close(i, Torn)
      /\ mem' = mem /\ touched' = touched /\ owed' = owed /\ outdated' = outdated
      /\ overlap' = overlap /\ clobbered' = clobbered
  BY DEF SaveFails, ghosts
<1>2. TypeOK'
  BY <1>1, CloseType DEF TypeOK, Stages
<1>3. Safe' /\ (~overlap => OnFile' = OnFile)
  BY <1>1, CloseSafe DEF Stages
<1>4. DurableUnlessOutdated'
  BY <1>1, <1>3 DEF DurableUnlessOutdated, Durable
<1>5. Fresh'
  BY <1>1 DEF Fresh, TypeOK
<1> QED
  BY <1>2, <1>3, <1>4, <1>5

LEMMA StopInv ==
    ASSUME IInv, NEW i \in Instances, Stop(i)
    PROVE  IInv'
PROOF
<1> USE DEF IInv
<1>1. /\ at' = [at EXCEPT ![i] = "down"] /\ Close(i, Torn)
      /\ mem' = [mem EXCEPT ![i] = Nobody] /\ touched' = [touched EXCEPT ![i] = {}]
      /\ owed' = owed /\ outdated' = outdated \ {i}
      /\ overlap' = overlap /\ clobbered' = clobbered
  BY DEF Stop
<1>2. TypeOK'
  BY <1>1, CloseType, NobodyIsMap DEF TypeOK, Stages
<1>3. \A j \in Instances \ {i} : mem'[j] = mem[j] /\ touched'[j] = touched[j]
  BY <1>1 DEF TypeOK
<1>4. Safe' /\ (~overlap => OnFile' = OnFile)
  BY <1>1, <1>3, CloseSafe DEF Stages
<1>5. DurableUnlessOutdated'
  BY <1>1, <1>4 DEF DurableUnlessOutdated, Durable
<1>6. Fresh'
  <2> SUFFICES ASSUME ~overlap, ~clobbered, NEW j \in Instances, j \notin outdated',
                      at'[j] # "down", NEW p \in Peers, p \notin touched'[j]
               PROVE  mem'[j][p] = owed[p]
    BY <1>1 DEF Fresh
  <2>1. j # i /\ at[j] # "down" /\ j \notin outdated
    BY <1>1 DEF TypeOK
  <2> QED
    BY <1>3, <2>1 DEF Fresh
<1> QED
  BY <1>2, <1>4, <1>5, <1>6

\* os.replace publishes the map of the instance that saves.
LEMMA ReplacePublishes ==
    ASSUME IInv, NEW i \in Instances, Replace(i), ~overlap
    PROVE  OnFile' = mem[i]
PROOF
<1>1. /\ at[i] = "written" /\ tmp \in Inodes /\ tmp # NoInode
      /\ file' = tmp /\ Contents(content)
  BY DEF Replace, IInv, TypeOK
<1>2. content'[tmp] = content[tmp]
  BY <1>1, ContentsNamed
<1> QED
  BY <1>1, <1>2, NoInodeAssumption DEF OnFile, IInv, Safe, Saving

LEMMA ReplaceInv ==
    ASSUME IInv, NEW i \in Instances, Replace(i)
    PROVE  IInv'
PROOF
<1> USE DEF IInv
<1>1. /\ at[i] = "written" /\ tmp \in Inodes /\ tmp # NoInode
      /\ file' = tmp /\ tmp' = NoInode /\ Contents(content)
      /\ mem' = mem /\ fd' = fd /\ overlap' = overlap /\ shared' \subseteq shared
  BY DEF Replace, TypeOK
<1>2. \A j \in Instances : at'[j] = IF j = i THEN "idle" ELSE at[j]
  BY DEF Replace, TypeOK
<1>3. TypeOK'
  <2>1. content' \in [Inodes -> Map \cup {Empty, Torn}]
    BY <1>1, ContentsType DEF TypeOK
  <2>2. owed' \in Map
    BY DEF Replace, TypeOK, Map
  <2>3. /\ at' \in [Instances -> Stages]
        /\ touched' \in [Instances -> SUBSET Peers]
        /\ outdated' \subseteq Instances /\ clobbered' \in BOOLEAN
    BY DEF Replace, TypeOK, Stages
  <2> QED
    BY <1>1, <2>1, <2>2, <2>3 DEF TypeOK
<1>4. ~overlap => OnFile' = mem[i]
  BY ReplacePublishes
<1>5. IntactUnlessOverlap'
  BY <1>1, <1>4 DEF IntactUnlessOverlap, FileIntact, TypeOK
<1>6. Apart' /\ Descriptors' /\ Exclusive'
  BY <1>1, <1>2 DEF Safe, Apart, Descriptors, Exclusive, Saver
<1>7. Saving'
  <2> SUFFICES ASSUME ~overlap, NEW j \in Instances PROVE ~Saver(j)'
    BY <1>1 DEF Saving, Saver
  <2> QED
    BY <1>1, <1>2 DEF Safe, Exclusive, Saver
<1>8. ASSUME ~overlap', ~clobbered' PROVE owed' = mem[i]
  <2>1. ~overlap /\ ~clobbered /\ i \notin outdated
    BY <1>8 DEF Replace
  <2>2. \A p \in Peers \ touched[i] : mem[i][p] = owed[p]
    BY <1>1, <2>1 DEF Fresh
  <2>3. owed' = [p \in Peers |-> IF p \in touched[i] THEN mem[i][p] ELSE owed[p]]
    BY DEF Replace
  <2>4. mem[i] = [p \in Peers |-> mem[i][p]]
    BY DEF TypeOK, Map
  <2>5. owed' = [p \in Peers |-> mem[i][p]]
    BY <2>2, <2>3
  <2> QED
    BY <2>4, <2>5
<1>9. DurableUnlessOutdated'
  BY <1>1, <1>4, <1>8 DEF DurableUnlessOutdated, Durable
<1>10. Fresh'
  <2> SUFFICES ASSUME ~overlap', ~clobbered', NEW j \in Instances, j \notin outdated',
                      at'[j] # "down", NEW p \in Peers
               PROVE  mem'[j][p] = owed'[p]
    BY DEF Fresh
  <2>1. j = i
    BY <1>2 DEF Replace
  <2> QED
    BY <1>1, <1>8, <2>1
<1> QED
  BY <1>3, <1>5, <1>6, <1>7, <1>9, <1>10 DEF Safe

-----------------------------------------------------------------------------
LEMMA StutterInv == IInv /\ UNCHANGED vars => IInv'
PROOF
  BY DEF IInv, vars, store, ghosts, TypeOK, Safe, Apart, Descriptors, Exclusive,
         Saving, Saver, IntactUnlessOverlap, FileIntact, OnFile, Fresh,
         DurableUnlessOutdated, Durable

\* Every step preserves the invariant.
LEMMA NextInv ==
    ASSUME IInv, [Next]_vars
    PROVE  IInv'
PROOF
<1>1. CASE UNCHANGED vars
  BY <1>1, StutterInv
<1>2. CASE Next
  <2> PICK i \in Instances :
        \/ Start(i) \/ Stop(i)
        \/ \E p \in Peers, rec \in Records \cup {NoRecord} : Mutate(i, p, rec)
        \/ OpenTmp(i) \/ WriteTmp(i) \/ Replace(i) \/ SaveFails(i)
    BY <1>2 DEF Next
  <2>1. CASE \E p \in Peers, rec \in Records \cup {NoRecord} : Mutate(i, p, rec)
    BY <2>1, MutateInv
  <2>2. CASE Start(i)
    BY <2>2, StartInv
  <2>3. CASE Stop(i)
    BY <2>3, StopInv
  <2>4. CASE OpenTmp(i)
    BY <2>4, OpenTmpInv
  <2>5. CASE WriteTmp(i)
    BY <2>5, WriteTmpInv
  <2>6. CASE Replace(i)
    BY <2>6, ReplaceInv
  <2>7. CASE SaveFails(i)
    BY <2>7, SaveFailsInv
  <2> QED
    BY <2>1, <2>2, <2>3, <2>4, <2>5, <2>6, <2>7
<1> QED
  BY <1>1, <1>2

\* The inductive invariant holds in every reachable state.
THEOREM Invariance == Spec => []IInv
PROOF
  BY InitInv, NextInv, PTL DEF Spec

\* The store keeps its shape (Directory._load, Directory.save).
THEOREM TypeCorrect == Spec => []TypeOK
PROOF
<1>1. IInv => TypeOK
  BY DEF IInv
<1> QED
  BY <1>1, Invariance, PTL

\* Whatever crashes and fails, and whenever, friends.json is one whole
\* document, unless two saves overlapped (Directory.save).
THEOREM AtomicWrites == Spec => []IntactUnlessOverlap
PROOF
<1>1. IInv => IntactUnlessOverlap
  BY DEF IInv, Safe
<1> QED
  BY <1>1, Invariance, PTL

\* ... and it holds every mutation that returned, unless besides an instance
\* saved that had loaded the file before another one saved (Directory.save).
THEOREM NothingLost == Spec => []DurableUnlessOutdated
PROOF
<1>1. IInv => DurableUnlessOutdated
  BY DEF IInv
<1> QED
  BY <1>1, Invariance, PTL

\* With a single instance there is nothing to overlap with and nothing to be
\* outdated against.
Alone == ~overlap /\ ~clobbered /\ outdated = {}

LEMMA AloneStep ==
    ASSUME \A i, j \in Instances : i = j, Alone, [Next]_vars
    PROVE  Alone'
PROOF
<1>1. CASE UNCHANGED vars
  BY <1>1 DEF Alone, vars, ghosts
<1>2. CASE Next
  <2> PICK i \in Instances :
        \/ Start(i) \/ Stop(i)
        \/ \E p \in Peers, rec \in Records \cup {NoRecord} : Mutate(i, p, rec)
        \/ OpenTmp(i) \/ WriteTmp(i) \/ Replace(i) \/ SaveFails(i)
    BY <1>2 DEF Next
  <2>1. CASE OpenTmp(i)
    BY <2>1 DEF OpenTmp, Alone
  <2>2. CASE Replace(i)
    BY <2>2 DEF Replace, Alone
  <2>3. CASE Start(i) \/ Stop(i)
    BY <2>3 DEF Start, Stop, Alone
  <2>4. CASE WriteTmp(i) \/ SaveFails(i)
    BY <2>4 DEF WriteTmp, SaveFails, Alone, ghosts
  <2>5. CASE \E p \in Peers, rec \in Records \cup {NoRecord} : Mutate(i, p, rec)
    BY <2>5 DEF Mutate, Alone, ghosts
  <2> QED
    BY <2>1, <2>2, <2>3, <2>4, <2>5
<1> QED
  BY <1>1, <1>2

\* An agent that uses one Directory object never finds friends.json torn, and
\* every mutation that returned is on it, across crashes, restarts and failed
\* writes (Directory.save, Directory._load).
THEOREM SoleInstance ==
    ASSUME \A i, j \in Instances : i = j
    PROVE  Spec => [](FileIntact /\ Durable)
PROOF
<1>1. Init => Alone
  BY DEF Init, Alone
<1>2. Alone /\ [Next]_vars => Alone'
  BY AloneStep
<1>3. IInv /\ Alone => FileIntact /\ Durable
  BY DEF IInv, Safe, Alone, IntactUnlessOverlap, DurableUnlessOutdated
<1> QED
  BY <1>1, <1>2, <1>3, Invariance, PTL DEF Spec

-----------------------------------------------------------------------------
(* The refinement of SerialMap.                                            *)

\* The values of the function that SerialMap sees.
LEMMA ViewValues ==
    /\ \A j \in Instances : [k \in Instances |-> ViewOf(k)][j] = ViewOf(j)
    /\ \A j \in Instances : [k \in Instances |-> ViewOf(k)]'[j] = ViewOf(j)'
PROOF
  OBVIOUS

\* A step that neither saves nor changes what anybody would save.
LEMMA SerialStutter ==
    ASSUME OnFile' = OnFile, \A j \in Instances : ViewOf(j)' = ViewOf(j)
    PROVE  UNCHANGED Serial!serialVars
PROOF
  BY DEF Serial!serialVars

\* A step of i leaves the others their view.
LEMMA OthersView ==
    ASSUME TypeOK, NEW i \in Instances, NEW stage, NEW m,
           at' = [at EXCEPT ![i] = stage], mem' = [mem EXCEPT ![i] = m],
           outdated' = outdated \/ outdated' = outdated \ {i}
    PROVE  \A j \in Instances \ {i} : ViewOf(j)' = ViewOf(j)
PROOF
  BY DEF TypeOK, ViewOf

LEMMA SerialStep ==
    ASSUME IInv, IInv', NEW i \in Instances, ~overlap', ~clobbered',
           \/ Start(i) \/ Stop(i)
           \/ \E p \in Peers, rec \in Records \cup {NoRecord} : Mutate(i, p, rec)
           \/ OpenTmp(i) \/ WriteTmp(i) \/ Replace(i) \/ SaveFails(i)
    PROVE  [Serial!Next]_Serial!serialVars
PROOF
<1> USE ViewValues
<1>1. ~overlap /\ ~clobbered /\ OnFile = owed /\ OnFile' = owed'
  <2>1. ~overlap /\ ~clobbered
    <3>1. CASE Start(i) \/ Stop(i) \/ WriteTmp(i) \/ SaveFails(i)
      BY <3>1 DEF Start, Stop, WriteTmp, SaveFails, ghosts
    <3>2. ASSUME NEW p \in Peers, NEW rec \in Records \cup {NoRecord}, Mutate(i, p, rec)
          PROVE  ~overlap /\ ~clobbered
      BY <3>2 DEF Mutate, ghosts
    <3>3. CASE OpenTmp(i)
      BY <3>3 DEF OpenTmp
    <3>4. CASE Replace(i)
      BY <3>4 DEF Replace
    <3> QED
      BY <3>1, <3>2, <3>3, <3>4
  <2>2. DurableUnlessOutdated /\ DurableUnlessOutdated'
    BY DEF IInv
  <2> QED
    BY <2>1, <2>2 DEF DurableUnlessOutdated, Durable
<1>2. Empty \notin Map /\ mem \in [Instances -> Map] /\ OnFile \in Map
  BY <1>1, ContentAssumption DEF IInv, TypeOK
<1>3. ASSUME Start(i) PROVE Serial!Begin(i)
  <2>1. /\ OnFile' = OnFile /\ ViewOf(i) = Empty /\ ViewOf(i)' = OnFile
        /\ \A j \in Instances \ {i} : ViewOf(j)' = ViewOf(j)
    BY <1>1, <1>3, OthersView DEF Start, IInv, TypeOK, ViewOf
  <2> QED
    BY <2>1 DEF Serial!Begin
<1>4. ASSUME Stop(i) PROVE Serial!Abandon(i)
  <2>1. /\ OnFile' = OnFile /\ ViewOf(i)' = Empty
        /\ \A j \in Instances \ {i} : ViewOf(j)' = ViewOf(j)
    BY <1>1, <1>4, OthersView DEF Stop, IInv, TypeOK, ViewOf
  <2> QED
    BY <2>1 DEF Serial!Abandon
<1>5. ASSUME NEW p \in Peers, NEW rec \in Records \cup {NoRecord}, Mutate(i, p, rec)
      PROVE  [Serial!Next]_Serial!serialVars
  <2>1. /\ OnFile' = OnFile
        /\ \A j \in Instances \ {i} : ViewOf(j)' = ViewOf(j)
    BY <1>1, <1>5 DEF Mutate, ghosts, IInv, TypeOK, ViewOf
  <2>2. CASE i \in outdated
    <3>1. ViewOf(i)' = ViewOf(i)
      BY <1>5, <2>2 DEF Mutate, ghosts, ViewOf
    <3> QED
      BY <2>1, <3>1, SerialStutter
  <2>3. CASE i \notin outdated
    <3>1. ViewOf(i) = mem[i] /\ ViewOf(i)' = [mem[i] EXCEPT ![p] = rec]
      BY <1>2, <1>5, <2>3 DEF Mutate, ghosts, IInv, TypeOK, ViewOf
    <3>2. ViewOf(i) # Empty /\ rec \in Effects(ViewOf(i)[p])
      BY <1>2, <1>5, <3>1 DEF Mutate
    <3>3. Serial!Change(i, p, rec)
      BY <2>1, <3>1, <3>2 DEF Serial!Change
    <3> QED
      BY <3>3 DEF Serial!Next
  <2> QED
    BY <2>2, <2>3
<1>6. ASSUME OpenTmp(i) \/ WriteTmp(i) \/ SaveFails(i)
      PROVE  UNCHANGED Serial!serialVars
  <2>1. /\ OnFile' = OnFile /\ mem' = mem /\ outdated' = outdated
        /\ \A j \in Instances : at'[j] = "down" <=> at[j] = "down"
    BY <1>1, <1>6 DEF OpenTmp, WriteTmp, SaveFails, ghosts, IInv, TypeOK
  <2>2. \A j \in Instances : ViewOf(j)' = ViewOf(j)
    BY <2>1 DEF ViewOf
  <2> QED
    BY <2>1, <2>2, SerialStutter
<1>7. ASSUME Replace(i) PROVE Serial!Commit(i)
  <2>1. /\ i \notin outdated /\ mem' = mem
        /\ at[i] = "written" /\ at' = [at EXCEPT ![i] = "idle"]
        /\ outdated' = {j \in Instances \ {i} : at[j] # "down"}
    BY <1>7 DEF Replace
  <2>2. ViewOf(i) = mem[i] /\ ViewOf(i)' = mem[i]
    BY <2>1 DEF IInv, TypeOK, ViewOf
  <2>3. \A j \in Instances \ {i} : ViewOf(j)' = Empty
    BY <2>1 DEF IInv, TypeOK, ViewOf
  <2>4. OnFile' = mem[i]
    BY <1>1, <1>7, ReplacePublishes
  <2> QED
    BY <1>2, <2>2, <2>3, <2>4 DEF Serial!Commit
<1> QED
  BY <1>3, <1>4, <1>5, <1>6, <1>7 DEF Serial!Next

LEMMA SerialInit == Init => Serial!Init
PROOF
  BY DEF Init, Serial!Init, OnFile, ViewOf

\* Until saves overlap or an outdated instance saves, friends.json goes from one
\* saved map to the next, each with the changes of one instance to the one before,
\* and nothing else that happens, crashes and failed writes among it, touches it.
THEOREM Serializable == Spec => ImplementsSerialMap
PROOF
<1>1. IInv /\ IInv' /\ [Next]_vars =>
          [overlap' \/ clobbered' \/ [Serial!Next]_Serial!serialVars]_vars
  BY SerialStep DEF Next
<1> QED
  BY <1>1, SerialInit, Invariance, PTL DEF Spec, ImplementsSerialMap

\* With one Directory object friends.json implements SerialMap.
THEOREM SoleRefinement ==
    ASSUME \A i, j \in Instances : i = j
    PROVE  Spec => Serial!Spec
PROOF
<1>1. Init => Alone
  BY DEF Init, Alone
<1>2. Alone /\ [Next]_vars => Alone'
  BY AloneStep
<1>3. Alone' => ~overlap' /\ ~clobbered'
  BY DEF Alone
<1>4. UNCHANGED vars => UNCHANGED Serial!serialVars
  BY SerialStutter DEF vars, store, ghosts, OnFile, ViewOf
<1>5. Alone' /\ [overlap' \/ clobbered' \/ [Serial!Next]_Serial!serialVars]_vars
         => [Serial!Next]_Serial!serialVars
  BY <1>3, <1>4
<1> QED
  BY <1>1, <1>2, <1>5, Serializable, PTL DEF Spec, ImplementsSerialMap, Serial!Spec

-----------------------------------------------------------------------------
(* audit.log: the invariant.                                               *)

Handles == \A w \in Writers : step[w] = "write" <=> handle[w] # NoFile

\* A writer in its loop, since whose check no other writer has renamed a file.
Rotating(w) == step[w] \in {"look", "move"} /\ w \notin stale

\* Only full files are renamed, and what a rotation moves to is an empty name,
\* but for the oldest.
Rotated ==
    ~raced =>
        /\ \A n \in Names : n # 0 /\ holds[n] # NoFile => Len(entries[holds[n]]) >= MaxSize
        /\ \A w \in Writers : Rotating(w) =>
            /\ Full
            /\ name[w] < Keep => holds[name[w]] = NoFile

\* A file has consecutive entries; audit.log, if it has any, the last one.
Consecutive ==
    ~raced =>
        /\ \A f \in Files : \A i \in 1 .. Len(entries[f]) :
            entries[f][i] = entries[f][1] + i - 1
        /\ Log # NoFile /\ entries[Log] # <<>> => entries[Log][Len(entries[Log])] = written

\* The higher the number of a name, the older its entries.
Ordered ==
    ~raced => \A m, n \in Names : m < n =>
        \A e \in EntriesOf(m), d \in EntriesOf(n) : d < e

\* Nothing is missing after the oldest entry that is kept.
Unbroken == ~raced => \A e \in Kept : e .. written \subseteq Kept

Newest == ~raced => (written - Certain + 1 .. written) \cap 1 .. written \subseteq Kept

\* The writers that are to write without another look at the size.
Pending == {w \in Writers : step[w] \in {"open", "write"}}

Room ==
    ~raced =>
        /\ \A f \in Files : Len(entries[f]) < MaxSize + Cardinality(Writers)
        /\ Log # NoFile =>
            Len(entries[Log]) + Cardinality(Pending) < MaxSize + Cardinality(Writers)

-----------------------------------------------------------------------------
(* audit.log: what the names and the writers hold.                         *)

LEMMA NamesOfLog ==
    /\ 0 \in Names /\ NoFile \notin Files /\ Keep \in 1 .. Keep
    /\ Names \subseteq Nat
    /\ \A n \in 1 .. Keep : n \in Names /\ n - 1 \in Names /\ n - 1 # n /\ n # 0
BY AuditAssumption DEF Names, Files, NoFile

LEMMA SequencesGrow ==
    ASSUME NEW n \in Nat, NEW s \in Seq(1 .. n)
    PROVE  s \in Seq(1 .. n + 1) /\ Append(s, n + 1) \in Seq(1 .. n + 1)
<1>1. s \in Seq(1 .. n + 1)
  <2>1. \A i \in 1 .. Len(s) : s[i] \in 1 .. n + 1
    OBVIOUS
  <2> QED
    BY <2>1
<1> QED
  BY <1>1

LEMMA RenamedType ==
    ASSUME AuditTypeOK, NEW m \in Names, NEW n \in Names, m # n
    PROVE  LET h == Renamed(m, n) IN
           /\ h \in [Names -> Files \cup {NoFile}]
           /\ h = [k \in Names |-> IF k = n THEN holds[m] ELSE IF k = m THEN NoFile ELSE holds[k]]
           /\ \A i, j \in Names : h[i] = h[j] /\ h[i] # NoFile => i = j
<1>1. holds \in [Names -> Files \cup {NoFile}]
  BY DEF AuditTypeOK
<1>2. \A i, j \in Names : holds[i] = holds[j] /\ holds[i] # NoFile => i = j
  BY DEF AuditTypeOK
<1>3. Renamed(m, n) = [k \in Names |-> IF k = n THEN holds[m] ELSE IF k = m THEN NoFile ELSE holds[k]]
  BY <1>1 DEF Renamed
<1> QED
  BY <1>1, <1>2, <1>3

LEMMA BlankFound ==
    ASSUME \E f \in Files : Blank(f)
    PROVE  NewFile \in Files /\ Blank(NewFile)
BY DEF NewFile

\* The name of a rotating writer, after it has gone on to the next.
LEMMA NextNameType ==
    ASSUME AuditTypeOK, NEW w \in Writers, NextName(w)
    PROVE  /\ name' \in [Writers -> 1 .. Keep]
           /\ step' \in [Writers -> {"idle", "look", "move", "open", "write"}]
           /\ step'[w] # "write"
           /\ \A u \in Writers \ {w} : step'[u] = step[u]
<1>1. name \in [Writers -> 1 .. Keep] /\ name[w] \in 1 .. Keep
  BY DEF AuditTypeOK
<1>2. step \in [Writers -> {"idle", "look", "move", "open", "write"}]
  BY DEF AuditTypeOK
<1>3. (IF name[w] = 1 THEN Keep ELSE name[w] - 1) \in 1 .. Keep
  BY <1>1, NamesOfLog, AuditAssumption
<1> QED
  BY <1>1, <1>2, <1>3 DEF NextName

Disk == AuditTypeOK /\ Handles

LEMMA DiskInit == AuditInit => Disk
<1> SUFFICES ASSUME AuditInit PROVE Disk
  OBVIOUS
<1>1. \A f \in Files : entries[f] \in Seq(1 .. written)
  BY DEF AuditInit
<1>2. Keep \in 1 .. Keep /\ 0 \in 0 .. MaxEntries
  BY NamesOfLog, AuditAssumption
<1> QED
  BY <1>1, <1>2 DEF AuditInit, Disk, AuditTypeOK, Handles

LEMMA DiskCheck == ASSUME Disk, NEW w \in Writers, Check(w) PROVE Disk'
<1>1. Keep \in 1 .. Keep
  BY NamesOfLog
<1> QED
  BY <1>1 DEF Disk, AuditTypeOK, Handles, Check, disk

LEMMA DiskLook == ASSUME Disk, NEW w \in Writers, Look(w) PROVE Disk'
<1>0. AuditTypeOK /\ Handles
  BY DEF Disk
<1>1. CASE holds[name[w] - 1] = NoFile
  <2>1. NextName(w) /\ UNCHANGED <<disk, handle, written, stale, raced>>
    BY <1>1 DEF Look
  <2> QED
    BY <1>0, <2>1, NextNameType DEF Disk, AuditTypeOK, Handles, disk, Look
<1>2. CASE holds[name[w] - 1] # NoFile
  BY <1>0, <1>2 DEF Disk, AuditTypeOK, Handles, disk, Look
<1> QED
  BY <1>1, <1>2

LEMMA DiskMove == ASSUME Disk, NEW w \in Writers, Move(w) PROVE Disk'
<1>0. AuditTypeOK /\ Handles
  BY DEF Disk
<1>1. name[w] \in Names /\ name[w] - 1 \in Names /\ name[w] - 1 # name[w]
  BY <1>0, NamesOfLog DEF AuditTypeOK
<1>2. NextName(w) /\ UNCHANGED <<entries, handle, written>> /\ step[w] = "move"
      /\ holds' = Renamed(name[w] - 1, name[w])
  BY DEF Move
<1>3. stale' \subseteq Writers /\ raced' \in BOOLEAN
  BY <1>0 DEF Move, AuditTypeOK
<1>4. /\ holds' \in [Names -> Files \cup {NoFile}]
      /\ \A i, j \in Names : holds'[i] = holds'[j] /\ holds'[i] # NoFile => i = j
  BY <1>0, <1>1, <1>2, RenamedType
<1>5. AuditTypeOK'
  BY <1>0, <1>2, <1>3, <1>4, NextNameType DEF AuditTypeOK
<1>6. Handles'
  BY <1>0, <1>2, NextNameType DEF Handles
<1> QED
  BY <1>5, <1>6 DEF Disk

LEMMA DiskMoveFails == ASSUME Disk, NEW w \in Writers, MoveFails(w) PROVE Disk'
BY DEF Disk, AuditTypeOK, Handles, MoveFails, disk

\* open gives the writer the file that is called audit.log from then on.
LEMMA OpenLogHolds ==
    ASSUME AuditTypeOK, NEW w \in Writers, OpenLog(w)
    PROVE  \E f \in Files :
        /\ holds' = [holds EXCEPT ![0] = f] /\ handle' = [handle EXCEPT ![w] = f]
        /\ IF Log = NoFile THEN Blank(f) ELSE f = Log
<1>1. Log # NoFile => Log \in Files
  BY NamesOfLog DEF AuditTypeOK, Log
<1> QED
  BY <1>1, BlankFound DEF OpenLog

LEMMA DiskOpenLog == ASSUME Disk, NEW w \in Writers, OpenLog(w) PROVE Disk'
<1>0. AuditTypeOK /\ Handles
  BY DEF Disk
<1>1. PICK f \in Files :
        /\ holds' = [holds EXCEPT ![0] = f] /\ handle' = [handle EXCEPT ![w] = f]
        /\ IF Log = NoFile THEN Blank(f) ELSE f = Log
  BY <1>0, OpenLogHolds
<1>2. holds' \in [Names -> Files \cup {NoFile}]
  BY <1>0, <1>1, NamesOfLog DEF AuditTypeOK
<1>3. \A m, n \in Names : holds'[m] = holds'[n] /\ holds'[m] # NoFile => m = n
  <2>1. \A n \in Names \ {0} : holds[n] # f
    <3>1. CASE Log = NoFile
      BY <1>1, <3>1 DEF Blank
    <3>2. CASE Log # NoFile
      BY <1>0, <1>1, <3>2, NamesOfLog DEF AuditTypeOK, Log
    <3> QED
      BY <3>1, <3>2
  <2> QED
    BY <1>0, <1>1, <2>1, NamesOfLog DEF AuditTypeOK
<1>4. handle' \in [Writers -> Files \cup {NoFile}] /\ handle'[w] # NoFile
  BY <1>0, <1>1, NamesOfLog DEF AuditTypeOK
<1>5. AuditTypeOK'
  BY <1>0, <1>2, <1>3, <1>4 DEF AuditTypeOK, OpenLog
<1>6. Handles'
  BY <1>0, <1>1, <1>4 DEF AuditTypeOK, Handles, OpenLog
<1> QED
  BY <1>5, <1>6 DEF Disk

LEMMA DiskWrite == ASSUME Disk, NEW w \in Writers, Write(w) PROVE Disk'
<1>0. AuditTypeOK /\ Handles
  BY DEF Disk
<1>1. handle[w] \in Files /\ written \in Nat /\ written' = written + 1 /\ written' \in 0 .. MaxEntries
  BY <1>0, AuditAssumption DEF AuditTypeOK, Handles, Write
<1>2. entries' \in [Files -> Seq(1 .. written')]
  <2>1. \A f \in Files : entries[f] \in Seq(1 .. written + 1)
                          /\ Append(entries[f], written + 1) \in Seq(1 .. written + 1)
    BY <1>0, <1>1, SequencesGrow DEF AuditTypeOK
  <2> QED
    BY <1>0, <1>1, <2>1 DEF AuditTypeOK, Write
<1>3. AuditTypeOK'
  BY <1>0, <1>1, <1>2 DEF AuditTypeOK, Write
<1>4. Handles'
  BY <1>0 DEF AuditTypeOK, Handles, Write
<1> QED
  BY <1>3, <1>4 DEF Disk

LEMMA DiskFail == ASSUME Disk, NEW w \in Writers, Fail(w) PROVE Disk'
BY DEF Disk, AuditTypeOK, Handles, Fail, disk

LEMMA DiskNext == Disk /\ [AuditNext]_auditVars => Disk'
<1> SUFFICES ASSUME Disk, [AuditNext]_auditVars PROVE Disk'
  OBVIOUS
<1>1. CASE UNCHANGED auditVars
  BY <1>1 DEF Disk, AuditTypeOK, Handles, auditVars, disk, writers
<1>2. ASSUME NEW w \in Writers, Event(w) PROVE Disk'
  BY <1>2, DiskCheck, DiskLook, DiskMove, DiskMoveFails, DiskOpenLog, DiskWrite, DiskFail DEF Event
<1> QED
  BY <1>1, <1>2 DEF AuditNext

\* The names always hold different files, and the entries are numbered in the
\* order in which they were written (the type invariant).
THEOREM AuditTypeCorrect == AuditSpec => []AuditTypeOK
<1>1. Disk => AuditTypeOK
  BY DEF Disk
<1> QED
  BY <1>1, DiskInit, DiskNext, PTL DEF AuditSpec

-----------------------------------------------------------------------------
(* audit.log: what a step does to the entries that a name stands for.      *)

LEMMA KeptIs ==
    /\ \A e : e \in Kept <=> \E n \in Names : e \in EntriesOf(n)
    /\ \A e : e \in Kept' <=> \E n \in Names : e \in EntriesOf(n)'
BY DEF Kept

LEMMA CertainIs == Certain = IF Keep = 1 THEN MaxSize ELSE MaxSize + MaxSize
BY AuditAssumption DEF Certain

LEMMA ElementOf == ASSUME NEW S, NEW s \in Seq(S), NEW i \in 1 .. Len(s) PROVE s[i] \in S
OBVIOUS

LEMMA EntriesFacts ==
    ASSUME AuditTypeOK, NEW n \in Names
    PROVE  /\ EntriesOf(n) \subseteq 1 .. written
           /\ holds[n] # NoFile => /\ holds[n] \in Files
                                   /\ entries[holds[n]] \in Seq(1 .. written)
           /\ \A e : e \in EntriesOf(n) <=>
                /\ holds[n] # NoFile
                /\ \E i \in 1 .. Len(entries[holds[n]]) : e = entries[holds[n]][i]
<1>1. holds[n] # NoFile => holds[n] \in Files /\ entries[holds[n]] \in Seq(1 .. written)
  BY DEF AuditTypeOK
<1>2. \A e : e \in EntriesOf(n) <=>
        /\ holds[n] # NoFile
        /\ \E i \in 1 .. Len(entries[holds[n]]) : e = entries[holds[n]][i]
  BY DEF EntriesOf
<1>3. ASSUME NEW e \in EntriesOf(n) PROVE e \in 1 .. written
  <2>1. PICK i \in 1 .. Len(entries[holds[n]]) : e = entries[holds[n]][i]
    BY <1>2
  <2>2. entries[holds[n]] \in Seq(1 .. written)
    BY <1>1, <1>2
  <2> QED
    BY <2>1, <2>2, ElementOf
<1> QED
  BY <1>1, <1>2, <1>3

LEMMA MoveEntries ==
    ASSUME AuditTypeOK, NEW w \in Writers, Move(w)
    PROVE  \A n \in Names : EntriesOf(n)' =
               IF n = name[w] THEN EntriesOf(name[w] - 1)
               ELSE IF n = name[w] - 1 THEN {} ELSE EntriesOf(n)
<1>1. name[w] \in Names /\ name[w] - 1 \in Names /\ name[w] - 1 # name[w]
  BY NamesOfLog DEF AuditTypeOK
<1>2. holds' = [k \in Names |-> IF k = name[w] THEN holds[name[w] - 1]
                                ELSE IF k = name[w] - 1 THEN NoFile ELSE holds[k]]
  BY <1>1, RenamedType DEF Move
<1>3. entries' = entries
  BY DEF Move
<1> QED
  BY <1>1, <1>2, <1>3 DEF EntriesOf

LEMMA OpenLogEntries ==
    ASSUME AuditTypeOK, NEW w \in Writers, OpenLog(w)
    PROVE  \A n \in Names : EntriesOf(n)' = EntriesOf(n)
<1>1. PICK f \in Files :
        /\ holds' = [holds EXCEPT ![0] = f]
        /\ IF Log = NoFile THEN Blank(f) ELSE f = Log
  BY OpenLogHolds
<1>2. entries' = entries
  BY DEF OpenLog
<1>3. \A n \in Names : holds'[n] = IF n = 0 THEN f ELSE holds[n]
  BY <1>1 DEF AuditTypeOK
<1>4. CASE Log = NoFile
  <2>1. entries[f] = <<>> /\ holds[0] = NoFile
    BY <1>1, <1>4 DEF Blank, Log
  <2>2. {entries[f][i] : i \in 1 .. Len(entries[f])} = {}
    BY <2>1
  <2> QED
    BY <1>2, <1>3, <2>1, <2>2 DEF EntriesOf
<1>5. CASE Log # NoFile
  <2>1. \A n \in Names : holds'[n] = holds[n]
    BY <1>1, <1>3, <1>5 DEF Log
  <2> QED
    BY <1>2, <2>1 DEF EntriesOf
<1> QED
  BY <1>4, <1>5

\* A writer that appends to what is audit.log still.
LEMMA WriteLog ==
    ASSUME Disk, NEW w \in Writers, Write(w), ~raced'
    PROVE  /\ ~raced /\ Log \in Files /\ Log' = Log /\ holds' = holds /\ handle[w] = Log
           /\ entries[Log] \in Seq(1 .. written)
           /\ entries' = [entries EXCEPT ![Log] = Append(entries[Log], written + 1)]
           /\ \A f \in Files \ {Log} : entries'[f] = entries[f]
           /\ Len(entries'[Log]) = Len(entries[Log]) + 1
           /\ \A i \in 1 .. Len(entries[Log]) : entries'[Log][i] = entries[Log][i]
           /\ entries'[Log][Len(entries[Log]) + 1] = written + 1
           /\ written \in Nat /\ written' = written + 1
<1>0. AuditTypeOK /\ Handles
  BY DEF Disk
<1>1. ~raced /\ handle[w] = Log /\ handle[w] \in Files /\ holds' = holds /\ Log' = Log
  BY <1>0 DEF AuditTypeOK, Handles, Write, Log
<1>2. entries[Log] \in Seq(1 .. written) /\ entries \in [Files -> Seq(1 .. written)]
  BY <1>0, <1>1 DEF AuditTypeOK
<1>3. entries' = [entries EXCEPT ![Log] = Append(entries[Log], written + 1)]
  BY <1>1 DEF Write
<1>4. entries'[Log] = Append(entries[Log], written + 1)
  BY <1>1, <1>2, <1>3
<1>5. written \in Nat /\ written' = written + 1
  BY <1>0, AuditAssumption DEF AuditTypeOK, Write
<1> QED
  BY <1>1, <1>2, <1>3, <1>4, <1>5

LEMMA WriteEntries ==
    ASSUME Disk, NEW w \in Writers, Write(w), ~raced'
    PROVE  \A n \in Names : EntriesOf(n)' =
               IF n = 0 THEN EntriesOf(n) \cup {written + 1} ELSE EntriesOf(n)
<1> DEFINE s == entries[Log]
<1>0. AuditTypeOK
  BY DEF Disk
<1>1. /\ Log \in Files /\ holds' = holds /\ s \in Seq(1 .. written)
      /\ \A f \in Files \ {Log} : entries'[f] = entries[f]
      /\ Len(entries'[Log]) = Len(s) + 1
      /\ \A i \in 1 .. Len(s) : entries'[Log][i] = s[i]
      /\ entries'[Log][Len(s) + 1] = written + 1
  BY WriteLog
<1>2. holds[0] = Log /\ Log # NoFile
  BY <1>1, NamesOfLog DEF Log
<1>3. \A n \in Names \ {0} : EntriesOf(n)' = EntriesOf(n)
  <2>1. \A n \in Names \ {0} : holds[n] # NoFile => holds[n] \in Files \ {Log}
    BY <1>0, <1>2, NamesOfLog DEF AuditTypeOK
  <2> QED
    <3> SUFFICES ASSUME NEW n \in Names \ {0} PROVE EntriesOf(n)' = EntriesOf(n)
      OBVIOUS
    <3>1. holds'[n] = holds[n] /\ (holds[n] # NoFile => entries'[holds[n]] = entries[holds[n]])
      BY <1>1, <2>1
    <3> QED
      BY <3>1 DEF EntriesOf
<1>4. EntriesOf(0)' = EntriesOf(0) \cup {written + 1}
  <2>1. EntriesOf(0) = {s[i] : i \in 1 .. Len(s)}
    BY <1>2 DEF EntriesOf
  <2>2. EntriesOf(0)' = {entries'[Log][i] : i \in 1 .. Len(s) + 1}
    BY <1>1, <1>2 DEF EntriesOf
  <2>3. 1 .. Len(s) + 1 = (1 .. Len(s)) \cup {Len(s) + 1}
    BY <1>1
  <2> QED
    BY <1>1, <2>1, <2>2, <2>3
<1> QED
  BY <1>3, <1>4

-----------------------------------------------------------------------------
(* audit.log: the order of the entries.                                    *)

LEMMA OrderedMove ==
    ASSUME AuditTypeOK, Ordered, NEW w \in Writers, Move(w) PROVE Ordered'
<1>1. name[w] \in Names /\ name[w] - 1 \in Names /\ Names \subseteq Nat
  BY NamesOfLog DEF AuditTypeOK
<1>2. ~raced' => ~raced
  BY DEF Move
<1> QED
  BY <1>1, <1>2, MoveEntries DEF Ordered

LEMMA OrderedOpenLog ==
    ASSUME AuditTypeOK, Ordered, NEW w \in Writers, OpenLog(w) PROVE Ordered'
<1>1. raced' = raced
  BY DEF OpenLog
<1> QED
  BY <1>1, OpenLogEntries DEF Ordered

LEMMA OrderedWrite ==
    ASSUME Disk, Ordered, NEW w \in Writers, Write(w) PROVE Ordered'
<1> SUFFICES ASSUME ~raced' PROVE Ordered'
  BY DEF Ordered
<1>0. AuditTypeOK /\ ~raced
  BY WriteLog DEF Disk
<1>1. written \in Nat /\ Names \subseteq Nat
  BY WriteLog, NamesOfLog
<1>2. \A n \in Names : EntriesOf(n) \subseteq 1 .. written
  BY <1>0, EntriesFacts
<1> QED
  BY <1>0, <1>1, <1>2, WriteEntries DEF Ordered

-----------------------------------------------------------------------------
(* audit.log: the entries that are kept.                                   *)

\* The file that is dropped has the oldest entries.
LEMMA KeptMove ==
    ASSUME AuditTypeOK, Rotated, Ordered, NEW w \in Writers, Move(w), ~raced'
    PROVE  /\ \A e : e \in Kept' <=> \E n \in Names : n # name[w] /\ e \in EntriesOf(n)
           /\ name[w] < Keep => Kept' = Kept
           /\ \A e \in Kept', d \in Kept \ Kept' : d < e
<1>1. /\ name[w] \in Names /\ name[w] - 1 \in Names /\ Names \subseteq Nat
      /\ name[w] - 1 # name[w] /\ name[w] \in 1 .. Keep
  BY NamesOfLog DEF AuditTypeOK
<1>2. ~raced /\ step[w] = "move" /\ w \notin stale
  BY DEF Move, AuditTypeOK
<1>3. \A e : e \in Kept' <=> \E n \in Names : n # name[w] /\ e \in EntriesOf(n)
  <2>1. ASSUME NEW e \in Kept' PROVE \E n \in Names : n # name[w] /\ e \in EntriesOf(n)
    BY <1>1, <2>1, KeptIs, MoveEntries
  <2>2. ASSUME NEW n \in Names, n # name[w], NEW e \in EntriesOf(n) PROVE e \in Kept'
    <3>1. CASE n = name[w] - 1
      BY <1>1, <3>1, KeptIs, MoveEntries
    <3>2. CASE n # name[w] - 1
      BY <2>2, <3>2, KeptIs, MoveEntries
    <3> QED
      BY <3>1, <3>2
  <2> QED
    BY <2>1, <2>2
<1>4. ASSUME name[w] < Keep PROVE EntriesOf(name[w]) = {}
  <2>1. holds[name[w]] = NoFile
    BY <1>2, <1>4 DEF Rotated, Rotating
  <2> QED
    BY <2>1 DEF EntriesOf
<1>5. name[w] < Keep => Kept' = Kept
  <2>1. ASSUME name[w] < Keep, NEW e PROVE e \in Kept' <=> e \in Kept
    BY <1>3, <1>4, <2>1, KeptIs
  <2> QED
    BY <2>1
<1>6. ASSUME NEW e \in Kept', NEW d \in Kept \ Kept' PROVE d < e
  <2>1. PICK n \in Names : n # name[w] /\ e \in EntriesOf(n)
    BY <1>3
  <2>2. d \in EntriesOf(name[w])
    BY <1>3, KeptIs
  <2>3. name[w] = Keep
    BY <1>1, <1>4, <2>2, AuditAssumption
  <2>4. n < name[w]
    BY <2>1, <2>3, AuditAssumption DEF Names
  <2> QED
    BY <1>1, <1>2, <2>1, <2>2, <2>4 DEF Ordered
<1> QED
  BY <1>3, <1>5, <1>6

LEMMA UnbrokenMove ==
    ASSUME AuditTypeOK, Rotated, Ordered, Unbroken, NEW w \in Writers, Move(w)
    PROVE  Unbroken'
<1> SUFFICES ASSUME ~raced', NEW e \in Kept', NEW d \in e .. written
             PROVE  d \in Kept'
  BY DEF Unbroken, Move
<1>1. ~raced /\ written \in Nat
  BY AuditAssumption DEF Move, AuditTypeOK
<1>2. e \in Kept
  BY KeptMove, KeptIs
<1>3. d \in Kept
  BY <1>1, <1>2 DEF Unbroken
<1>4. e \in 1 .. written
  BY <1>2, KeptIs, EntriesFacts
<1> QED
  BY <1>1, <1>3, <1>4, KeptMove

\* How old the oldest entry of a full file is.
LEMMA Oldest ==
    ASSUME AuditTypeOK, Consecutive, ~raced, NEW n \in Names, holds[n] # NoFile,
           Len(entries[holds[n]]) >= MaxSize
    PROVE  \E d, e \in EntriesOf(n) : d <= e - MaxSize + 1 /\ (n = 0 => e = written)
<1> DEFINE s == entries[holds[n]]
           l == Len(s)
<1>1. holds[n] \in Files /\ s \in Seq(1 .. written) /\ l \in Nat /\ l >= 1
  BY EntriesFacts, AuditAssumption
<1>2. s[l] = s[1] + l - 1
  BY <1>1 DEF Consecutive
<1>3. n = 0 => s[l] = written
  BY <1>1 DEF Consecutive, Log
<1>4. s[1] \in EntriesOf(n) /\ s[l] \in EntriesOf(n)
  BY <1>1, EntriesFacts
<1>5. s[1] \in 1 .. written
  BY <1>4, EntriesFacts
<1>6. s[1] <= s[l] - MaxSize + 1
  BY <1>1, <1>2, <1>5, AuditAssumption
<1> QED
  BY <1>3, <1>4, <1>6

LEMMA NewestMove ==
    ASSUME AuditTypeOK, Rotated, Consecutive, Ordered, Unbroken, Newest,
           NEW w \in Writers, Move(w)
    PROVE  Newest'
<1> SUFFICES ASSUME ~raced'
             PROVE  (written - Certain + 1 .. written) \cap 1 .. written \subseteq Kept'
  BY DEF Newest, Move, Certain
<1>0. written \in Nat /\ written' = written
  BY AuditAssumption DEF AuditTypeOK, Move
<1>1. ~raced /\ step[w] = "move" /\ w \notin stale
  BY DEF Move, AuditTypeOK
<1>2. name[w] \in 1 .. Keep /\ name[w] - 1 \in Names /\ 0 \in Names /\ Keep \in Names
  BY NamesOfLog DEF AuditTypeOK
<1>3. CASE name[w] < Keep
  BY <1>1, <1>3, KeptMove DEF Newest
<1>4. CASE name[w] = Keep
  <2>1. Full
    BY <1>1 DEF Rotated, Rotating
  <2>2. PICK d, e \in EntriesOf(0) : d <= e - MaxSize + 1 /\ e = written
    BY <1>1, <1>2, <2>1, Oldest DEF Full, Log
  <2>3. d \in 1 .. written
    BY <1>2, EntriesFacts
  <2>4. d \in Kept'
    BY <1>2, <2>2, KeptMove
  <2>5. \E c \in Kept' : c \in 1 .. written /\ c <= written - Certain + 1
    <3>1. CASE Keep = 1
      BY <1>0, <2>2, <2>3, <2>4, <3>1, CertainIs
    <3>2. CASE Keep # 1
      <4>1. 0 < Keep - 1 /\ Keep - 1 # Keep /\ Keep - 1 \in Names
        BY <1>2, <1>4, <3>2
      <4>2. holds[Keep - 1] # NoFile /\ Len(entries[holds[Keep - 1]]) >= MaxSize
        BY <1>1, <1>4, <4>1 DEF Rotated, Move
      <4>3. PICK a, b \in EntriesOf(Keep - 1) : a <= b - MaxSize + 1
        BY <1>1, <4>1, <4>2, Oldest
      <4>4. b < d
        BY <1>1, <1>2, <2>2, <4>1, <4>3 DEF Ordered
      <4>5. a \in 1 .. written /\ b \in 1 .. written
        BY <4>1, <4>3, EntriesFacts
      <4>6. a \in Kept'
        BY <1>4, <4>1, <4>3, KeptMove
      <4>7. a <= written - Certain + 1
        BY <1>0, <2>2, <2>3, <3>2, <4>3, <4>4, <4>5, CertainIs, AuditAssumption
      <4> QED
        BY <4>5, <4>6, <4>7
    <3> QED
      BY <3>1, <3>2
  <2>6. Certain \in Nat
    BY CertainIs, AuditAssumption
  <2>7. \A x \in Kept' : x .. written \subseteq Kept'
    BY <1>0, UnbrokenMove DEF Unbroken
  <2> QED
    BY <1>0, <2>5, <2>6, <2>7
<1> QED
  BY <1>2, <1>3, <1>4, AuditAssumption

LEMMA KeptOpenLog ==
    ASSUME AuditTypeOK, Unbroken, Newest, NEW w \in Writers, OpenLog(w)
    PROVE  Unbroken' /\ Newest'
<1>1. \A e : e \in Kept' <=> e \in Kept
  BY OpenLogEntries, KeptIs
<1>2. Kept' = Kept /\ written' = written /\ raced' = raced
  BY <1>1 DEF OpenLog
<1> QED
  BY <1>2 DEF Unbroken, Newest, Certain

LEMMA KeptWrite ==
    ASSUME Disk, Unbroken, Newest, NEW w \in Writers, Write(w)
    PROVE  Unbroken' /\ Newest'
<1> SUFFICES ASSUME ~raced' PROVE Unbroken' /\ Newest'
  BY DEF Unbroken, Newest
<1>1. AuditTypeOK /\ ~raced /\ written \in Nat /\ written' = written + 1
  BY WriteLog DEF Disk
<1>2. \A e : e \in Kept' <=> e \in Kept \/ e = written + 1
  <2>1. ASSUME NEW e \in Kept' PROVE e \in Kept \/ e = written + 1
    BY <2>1, WriteEntries, KeptIs
  <2>2. written + 1 \in Kept'
    BY NamesOfLog, WriteEntries, KeptIs
  <2>3. ASSUME NEW e \in Kept PROVE e \in Kept'
    BY <2>3, WriteEntries, KeptIs
  <2> QED
    BY <2>1, <2>2, <2>3
<1>3. \A e \in Kept : e \in 1 .. written
  BY <1>1, KeptIs, EntriesFacts
<1>4. Unbroken'
  BY <1>1, <1>2, <1>3 DEF Unbroken
<1>5. Newest'
  <2>1. Certain \in Nat /\ Certain' = Certain
    BY CertainIs, AuditAssumption DEF Certain
  <2> QED
    BY <1>1, <1>2, <2>1 DEF Newest
<1> QED
  BY <1>4, <1>5

-----------------------------------------------------------------------------
(* audit.log: rotations.                                                   *)

LEMMA RotatedSame ==
    ASSUME Rotated, UNCHANGED disk, raced' = raced, NEW w \in Writers,
           step'[w] \notin {"look", "move"},
           \A u \in Writers \ {w} : /\ step'[u] = step[u] /\ name'[u] = name[u]
                                    /\ u \in stale' <=> u \in stale
    PROVE  Rotated'
BY DEF Rotated, Rotating, Full, Log, disk

LEMMA RotatedCheck ==
    ASSUME AuditTypeOK, Rotated, NEW w \in Writers, Check(w) PROVE Rotated'
<1>1. name'[w] = Keep /\ (step'[w] = IF Full THEN "look" ELSE "open")
  BY DEF Check, AuditTypeOK
<1>2. \A u \in Writers \ {w} : /\ step'[u] = step[u] /\ name'[u] = name[u]
                               /\ u \in stale' <=> u \in stale
  BY DEF Check, AuditTypeOK
<1>3. holds' = holds /\ entries' = entries /\ raced' = raced /\ Full' = Full
  BY DEF Check, disk, Full, Log
<1> QED
  BY <1>1, <1>2, <1>3, AuditAssumption DEF Rotated, Rotating

LEMMA RotatedLook ==
    ASSUME AuditTypeOK, Rotated, NEW w \in Writers, Look(w) PROVE Rotated'
<1>1. holds' = holds /\ entries' = entries /\ raced' = raced /\ stale' = stale /\ Full' = Full
  BY DEF Look, disk, Full, Log
<1>2. \A u \in Writers \ {w} : step'[u] = step[u] /\ name'[u] = name[u]
  BY DEF Look, NextName, AuditTypeOK
<1>3. step'[w] \in {"look", "move"} =>
        /\ step[w] = "look"
        /\ name'[w] = name[w] \/ holds[name'[w]] = NoFile
  BY DEF Look, NextName, AuditTypeOK
<1> QED
  BY <1>1, <1>2, <1>3 DEF Rotated, Rotating

LEMMA RotatedMove ==
    ASSUME AuditTypeOK, Rotated, NEW w \in Writers, Move(w) PROVE Rotated'
<1> SUFFICES ASSUME ~raced' PROVE Rotated'
  BY DEF Rotated
<1>1. ~raced /\ step[w] = "move" /\ w \notin stale
  BY DEF Move, AuditTypeOK
<1>2. /\ name[w] \in 1 .. Keep /\ name[w] \in Names /\ name[w] - 1 \in Names
      /\ name[w] - 1 # name[w] /\ 0 \in Names
  BY NamesOfLog DEF AuditTypeOK
<1>3. \A k \in Names : holds'[k] = IF k = name[w] THEN holds[name[w] - 1]
                                   ELSE IF k = name[w] - 1 THEN NoFile ELSE holds[k]
  BY <1>2, RenamedType DEF Move
<1>4. entries' = entries
  BY DEF Move
<1>5. Full
  BY <1>1 DEF Rotated, Rotating
<1>6. ASSUME NEW n \in Names, n # 0, holds'[n] # NoFile
      PROVE  Len(entries'[holds'[n]]) >= MaxSize
  <2>1. CASE n = name[w] /\ name[w] = 1
    BY <1>2, <1>3, <1>4, <1>5, <2>1 DEF Full, Log
  <2>2. CASE n = name[w] /\ name[w] # 1
    <3>1. name[w] - 1 # 0 /\ holds'[n] = holds[name[w] - 1]
      BY <1>2, <1>3, <2>2
    <3> QED
      BY <1>1, <1>2, <1>4, <1>6, <3>1 DEF Rotated
  <2>3. CASE n # name[w]
    BY <1>1, <1>3, <1>4, <1>6, <2>3 DEF Rotated
  <2> QED
    BY <2>1, <2>2, <2>3
<1>7. ASSUME NEW u \in Writers, Rotating(u)'
      PROVE  Full' /\ (name'[u] < Keep => holds'[name'[u]] = NoFile)
  <2>1. u = w
    BY <1>7 DEF Rotating, Move, NextName, AuditTypeOK
  <2>2. step'[w] # "open"
    BY <1>7, <2>1 DEF Rotating
  <2>3. name[w] # 1 /\ name'[w] = name[w] - 1
    BY <2>2 DEF Move, NextName, AuditTypeOK
  <2>4. holds'[0] = holds[0]
    BY <1>2, <1>3, <2>3
  <2>5. Full'
    BY <1>4, <1>5, <2>4 DEF Full, Log
  <2>6. holds'[name'[w]] = NoFile
    BY <1>2, <1>3, <2>3
  <2> QED
    BY <2>1, <2>5, <2>6
<1> QED
  BY <1>6, <1>7 DEF Rotated

LEMMA RotatedOpenLog ==
    ASSUME AuditTypeOK, Rotated, NEW w \in Writers, OpenLog(w) PROVE Rotated'
<1> SUFFICES ASSUME ~raced' PROVE Rotated'
  BY DEF Rotated
<1>1. PICK f \in Files :
        /\ holds' = [holds EXCEPT ![0] = f]
        /\ IF Log = NoFile THEN Blank(f) ELSE f = Log
  BY OpenLogHolds
<1>2. 0 \in Names /\ \A u \in Writers : name[u] \in Names /\ name[u] # 0
  BY NamesOfLog DEF AuditTypeOK
<1>3. \A n \in Names : holds'[n] = IF n = 0 THEN f ELSE holds[n]
  BY <1>1 DEF AuditTypeOK
<1>4. /\ entries' = entries /\ name' = name /\ stale' = stale /\ ~raced
      /\ step'[w] = "write" /\ \A u \in Writers \ {w} : step'[u] = step[u]
  BY DEF OpenLog, AuditTypeOK
<1>5. Full => Full'
  BY <1>1, <1>2, <1>3, <1>4 DEF Full, Log
<1>6. \A u \in Writers : Rotating(u)' => Rotating(u)
  BY <1>4 DEF Rotating
<1>7. \A u \in Writers : holds'[name[u]] = holds[name[u]]
  BY <1>2, <1>3
<1>8. \A n \in Names : n # 0 => holds'[n] = holds[n]
  BY <1>3
<1> QED
  BY <1>4, <1>5, <1>6, <1>7, <1>8 DEF Rotated

LEMMA RotatedWrite ==
    ASSUME Disk, Rotated, NEW w \in Writers, Write(w) PROVE Rotated'
<1> SUFFICES ASSUME ~raced' PROVE Rotated'
  BY DEF Rotated
<1>1. /\ ~raced /\ holds' = holds /\ Log' = Log /\ Log \in Files
      /\ \A f \in Files \ {Log} : entries'[f] = entries[f]
      /\ Len(entries'[Log]) = Len(entries[Log]) + 1
      /\ entries[Log] \in Seq(1 .. written)
  BY WriteLog
<1>2. /\ name' = name /\ stale' = stale
      /\ step'[w] = "idle" /\ \A u \in Writers \ {w} : step'[u] = step[u]
  BY DEF Disk, Write, AuditTypeOK
<1>3. Len(entries[Log]) \in Nat
  BY <1>1
<1>4. Full => Full'
  BY <1>1, <1>3, AuditAssumption DEF Full
<1>5. ASSUME NEW n \in Names, n # 0, holds[n] # NoFile
      PROVE  Len(entries'[holds[n]]) >= MaxSize
  <2>1. holds[n] \in Files /\ Len(entries[holds[n]]) >= MaxSize
    BY <1>1, <1>5 DEF Disk, AuditTypeOK, Rotated
  <2>2. CASE holds[n] = Log
    BY <1>1, <1>3, <2>1, <2>2, AuditAssumption
  <2>3. CASE holds[n] # Log
    BY <1>1, <2>1, <2>3
  <2> QED
    BY <2>2, <2>3
<1>6. \A u \in Writers : Rotating(u)' => Rotating(u)
  BY <1>2 DEF Rotating
<1> QED
  BY <1>1, <1>2, <1>4, <1>5, <1>6 DEF Rotated

-----------------------------------------------------------------------------
(* audit.log: consecutive numbers.                                         *)

LEMMA ConsecutiveMove ==
    ASSUME AuditTypeOK, Consecutive, NEW w \in Writers, Move(w) PROVE Consecutive'
<1>1. name[w] \in 1 .. Keep /\ name[w] \in Names /\ name[w] - 1 \in Names
      /\ name[w] - 1 # name[w] /\ 0 \in Names /\ name[w] # 0
  BY NamesOfLog DEF AuditTypeOK
<1>2. holds'[0] = holds[0] \/ holds'[0] = NoFile
  BY <1>1, RenamedType DEF Move
<1>3. entries' = entries /\ written' = written /\ (~raced' => ~raced)
  BY DEF Move
<1> QED
  BY <1>2, <1>3 DEF Consecutive, Log

LEMMA ConsecutiveOpenLog ==
    ASSUME AuditTypeOK, Consecutive, NEW w \in Writers, OpenLog(w) PROVE Consecutive'
<1>1. PICK f \in Files :
        /\ holds' = [holds EXCEPT ![0] = f]
        /\ IF Log = NoFile THEN Blank(f) ELSE f = Log
  BY OpenLogHolds
<1>2. holds'[0] = f
  BY <1>1, NamesOfLog DEF AuditTypeOK
<1>3. entries[f] = <<>> \/ f = holds[0]
  BY <1>1 DEF Blank, Log
<1>4. entries' = entries /\ written' = written /\ raced' = raced
  BY DEF OpenLog
<1> QED
  BY <1>2, <1>3, <1>4 DEF Consecutive, Log

LEMMA ConsecutiveWrite ==
    ASSUME Disk, Consecutive, NEW w \in Writers, Write(w) PROVE Consecutive'
<1> SUFFICES ASSUME ~raced' PROVE Consecutive'
  BY DEF Consecutive
<1> DEFINE s == entries[Log]
           t == entries'[Log]
<1>1. /\ ~raced /\ Log' = Log /\ Log \in Files
      /\ \A f \in Files \ {Log} : entries'[f] = entries[f]
      /\ s \in Seq(1 .. written) /\ Len(t) = Len(s) + 1
      /\ \A i \in 1 .. Len(s) : t[i] = s[i]
      /\ t[Len(s) + 1] = written + 1
      /\ written \in Nat /\ written' = written + 1
  BY WriteLog
<1>2. Len(s) \in Nat /\ (s # <<>> => Len(s) >= 1)
  BY <1>1
<1>3. \A i \in 1 .. Len(s) : s[i] = s[1] + i - 1
  BY <1>1 DEF Consecutive
<1>4. s # <<>> => s[Len(s)] = written
  BY <1>1, NamesOfLog DEF Consecutive
<1> HIDE DEF s, t
<1>5. ASSUME s # <<>> PROVE s[1] \in Nat /\ t[1] = s[1] /\ written = s[1] + Len(s) - 1
  <2>1. 1 \in 1 .. Len(s) /\ Len(s) \in 1 .. Len(s)
    BY <1>2, <1>5
  <2>2. s[1] \in 1 .. written
    BY <1>1, <2>1, ElementOf
  <2> QED
    BY <1>1, <1>2, <1>3, <1>4, <1>5, <2>1, <2>2
<1>6. ASSUME NEW i \in 1 .. Len(t) PROVE t[i] = t[1] + i - 1
  <2>1. CASE i \in 1 .. Len(s)
    <3>1. s # <<>>
      BY <2>1
    <3> QED
      BY <1>1, <1>3, <1>5, <2>1, <3>1
  <2>2. CASE i = Len(s) + 1 /\ s # <<>>
    BY <1>1, <1>2, <1>5, <2>2
  <2>3. CASE i = Len(s) + 1 /\ s = <<>>
    <3>1. Len(s) = 0 /\ i = 1
      BY <2>3
    <3> QED
      BY <1>1, <2>3, <3>1
  <2> QED
    BY <1>1, <1>2, <1>6, <2>1, <2>2, <2>3
<1>7. t[Len(t)] = written'
  BY <1>1
<1>8. \A f \in Files : \A i \in 1 .. Len(entries'[f]) : entries'[f][i] = entries'[f][1] + i - 1
  <2>1. ASSUME NEW f \in Files PROVE \A i \in 1 .. Len(entries'[f]) : entries'[f][i] = entries'[f][1] + i - 1
    <3>1. CASE f = Log
      BY <1>6, <3>1 DEF t
    <3>2. CASE f # Log
      BY <1>1, <3>2 DEF Consecutive
    <3> QED
      BY <3>1, <3>2
  <2> QED
    BY <2>1
<1> QED
  BY <1>1, <1>7, <1>8 DEF Consecutive, t

-----------------------------------------------------------------------------
(* audit.log: the size of the files.                                       *)

LEMMA PendingIs ==
    /\ IsFiniteSet(Pending) /\ Cardinality(Pending) \in Nat
    /\ Cardinality(Pending') \in Nat /\ Cardinality(Pending') <= Cardinality(Writers)
    /\ Pending' \subseteq Pending => Cardinality(Pending') <= Cardinality(Pending)
    /\ Cardinality(Writers) \in Nat
<1>1. IsFiniteSet(Writers) /\ Pending \subseteq Writers /\ Pending' \subseteq Writers
  BY AuditAssumption DEF Pending
<1> QED
  BY <1>1, FS_Subset, FS_CardinalityType

\* Nobody is about to write who was not, or there is no file to write to yet.
LEMMA RoomSame ==
    ASSUME AuditTypeOK, Room, entries' = entries, ~raced' => ~raced,
           \/ holds'[0] = NoFile
           \/ holds'[0] = holds[0] /\ Pending' \subseteq Pending
    PROVE  Room'
<1> SUFFICES ASSUME ~raced' PROVE Room'
  BY DEF Room
<1>1. \A f \in Files : Len(entries'[f]) < MaxSize + Cardinality(Writers)
  BY DEF Room
<1>2. ASSUME holds'[0] # NoFile
      PROVE  Len(entries'[holds'[0]]) + Cardinality(Pending') < MaxSize + Cardinality(Writers)
  <2>1. holds'[0] = holds[0] /\ Pending' \subseteq Pending
    BY <1>2
  <2>2. Len(entries[holds[0]]) + Cardinality(Pending) < MaxSize + Cardinality(Writers)
    BY <1>2, <2>1 DEF Room, Log
  <2>3. Len(entries[holds[0]]) \in Nat
    BY <1>2, <2>1, NamesOfLog, EntriesFacts
  <2> QED
    BY <2>1, <2>2, <2>3, PendingIs, AuditAssumption
<1> QED
  BY <1>1, <1>2 DEF Room, Log

LEMMA RoomCheck == ASSUME AuditTypeOK, Room, NEW w \in Writers, Check(w) PROVE Room'
<1>1. holds' = holds /\ entries' = entries /\ raced' = raced
  BY DEF Check, disk
<1>2. CASE Full
  <2>1. Pending' \subseteq Pending
    BY <1>2 DEF Pending, Check, AuditTypeOK
  <2> QED
    BY <1>1, <2>1, RoomSame
<1>3. CASE ~Full
  <2>1. ASSUME Log # NoFile
        PROVE  Len(entries[Log]) + Cardinality(Pending') < MaxSize + Cardinality(Writers)
    <3>1. Len(entries[Log]) \in Nat /\ Len(entries[Log]) < MaxSize
      BY <1>3, <2>1, NamesOfLog, EntriesFacts, AuditAssumption DEF Full, Log
    <3> QED
      BY <3>1, PendingIs, AuditAssumption
  <2> QED
    BY <1>1, <2>1 DEF Room, Log
<1> QED
  BY <1>2, <1>3

LEMMA RoomLook == ASSUME AuditTypeOK, Room, NEW w \in Writers, Look(w) PROVE Room'
<1>1. holds' = holds /\ entries' = entries /\ raced' = raced
  BY DEF Look, disk
<1>2. holds[0] = NoFile \/ Pending' \subseteq Pending
  <2>1. CASE holds[name[w] - 1] = NoFile /\ name[w] = 1
    BY <2>1
  <2>2. CASE ~ (holds[name[w] - 1] = NoFile /\ name[w] = 1)
    BY <2>2 DEF Pending, Look, NextName, AuditTypeOK
  <2> QED
    BY <2>1, <2>2
<1> QED
  BY <1>1, <1>2, RoomSame

LEMMA RoomMove == ASSUME AuditTypeOK, Room, NEW w \in Writers, Move(w) PROVE Room'
<1>1. entries' = entries /\ (~raced' => ~raced)
  BY DEF Move
<1>2. /\ name[w] \in 1 .. Keep /\ name[w] \in Names /\ name[w] - 1 \in Names
      /\ name[w] - 1 # name[w] /\ name[w] # 0 /\ 0 \in Names
  BY NamesOfLog DEF AuditTypeOK
<1>3. \A k \in Names : holds'[k] = IF k = name[w] THEN holds[name[w] - 1]
                                   ELSE IF k = name[w] - 1 THEN NoFile ELSE holds[k]
  BY <1>2, RenamedType DEF Move
<1>4. CASE name[w] = 1
  <2>1. holds'[0] = NoFile
    BY <1>2, <1>3, <1>4
  <2> QED
    BY <1>1, <2>1, RoomSame
<1>5. CASE name[w] # 1
  <2>1. holds'[0] = holds[0]
    BY <1>2, <1>3, <1>5
  <2>2. Pending' \subseteq Pending
    BY <1>5 DEF Pending, Move, NextName, AuditTypeOK
  <2> QED
    BY <1>1, <2>1, <2>2, RoomSame
<1> QED
  BY <1>4, <1>5

LEMMA RoomOpenLog == ASSUME AuditTypeOK, Room, NEW w \in Writers, OpenLog(w) PROVE Room'
<1>1. PICK f \in Files :
        /\ holds' = [holds EXCEPT ![0] = f]
        /\ IF Log = NoFile THEN Blank(f) ELSE f = Log
  BY OpenLogHolds
<1>2. holds'[0] = f /\ entries' = entries /\ raced' = raced
  BY <1>1, NamesOfLog DEF OpenLog, AuditTypeOK
<1>3. CASE Log # NoFile
  <2>1. Pending' \subseteq Pending
    BY DEF Pending, OpenLog, AuditTypeOK
  <2> QED
    BY <1>1, <1>2, <1>3, <2>1, RoomSame DEF Log
<1>4. CASE Log = NoFile
  <2>1. Len(entries[f]) = 0
    BY <1>1, <1>4 DEF Blank
  <2>2. Len(entries[f]) + Cardinality(Pending') < MaxSize + Cardinality(Writers)
    BY <2>1, PendingIs, AuditAssumption
  <2> QED
    BY <1>2, <2>2 DEF Room, Log
<1> QED
  BY <1>3, <1>4

LEMMA RoomWrite == ASSUME Disk, Room, NEW w \in Writers, Write(w) PROVE Room'
<1> SUFFICES ASSUME ~raced' PROVE Room'
  BY DEF Room
<1>1. /\ ~raced /\ Log' = Log /\ Log \in Files
      /\ \A f \in Files \ {Log} : entries'[f] = entries[f]
      /\ entries[Log] \in Seq(1 .. written) /\ Len(entries'[Log]) = Len(entries[Log]) + 1
  BY WriteLog
<1>2. w \in Pending /\ Pending' = Pending \ {w}
  BY DEF Pending, Write, Disk, AuditTypeOK
<1>3. Cardinality(Pending') = Cardinality(Pending) - 1
  BY <1>2, PendingIs, FS_RemoveElement
<1>4. Len(entries[Log]) + Cardinality(Pending) < MaxSize + Cardinality(Writers)
  BY <1>1, NamesOfLog DEF Room
<1>5. Len(entries'[Log]) + Cardinality(Pending') < MaxSize + Cardinality(Writers)
  BY <1>1, <1>3, <1>4, PendingIs, AuditAssumption
<1>6. Len(entries'[Log]) \in Nat
  BY <1>1
<1>7. Len(entries'[Log]) < MaxSize + Cardinality(Writers)
  BY <1>5, <1>6, PendingIs, AuditAssumption
<1> QED
  BY <1>1, <1>5, <1>7 DEF Room

LEMMA RoomFail == ASSUME AuditTypeOK, Room, NEW w \in Writers, Fail(w) PROVE Room'
<1>1. Pending' \subseteq Pending
  BY DEF Pending, Fail, AuditTypeOK
<1> QED
  BY <1>1, RoomSame DEF Fail, disk

-----------------------------------------------------------------------------
(* audit.log: the invariant is kept, and its theorems.                     *)

Trail ==
    Rotated /\ Consecutive /\ Ordered /\ Unbroken /\ Newest /\ Room

AuditInv == Disk /\ Trail

LEMMA AuditInvInit == AuditInit => AuditInv
<1> SUFFICES ASSUME AuditInit PROVE AuditInv
  OBVIOUS
<1>1. Disk
  BY DiskInit
<1>2. \A n \in Names : EntriesOf(n) = {} /\ holds[n] = NoFile
  BY DEF AuditInit, EntriesOf
<1>3. \A f \in Files : entries[f] = <<>> /\ Len(entries[f]) = 0
  BY DEF AuditInit
<1>4. Log = NoFile
  BY <1>2, NamesOfLog DEF Log
<1>5. Rotated
  BY <1>2 DEF Rotated, Rotating, AuditInit
<1>6. Consecutive
  BY <1>3, <1>4 DEF Consecutive
<1>7. Ordered
  BY <1>2 DEF Ordered
<1>8. Kept = {}
  BY <1>2, KeptIs
<1>9. Unbroken /\ Newest
  BY <1>8 DEF Unbroken, Newest, AuditInit
<1>10. Room
  BY <1>3, <1>4, PendingIs, AuditAssumption DEF Room
<1> QED
  BY <1>1, <1>5, <1>6, <1>7, <1>9, <1>10 DEF AuditInv, Trail

LEMMA SameDisk ==
    ASSUME Trail, UNCHANGED disk, written' = written, ~raced' => ~raced
    PROVE  Consecutive' /\ Ordered' /\ Unbroken' /\ Newest'
<1>1. holds' = holds /\ entries' = entries
  BY DEF disk
<1>2. Kept' = Kept /\ \A n \in Names : EntriesOf(n)' = EntriesOf(n)
  BY <1>1 DEF Kept, EntriesOf
<1>3. Consecutive'
  BY <1>1 DEF Trail, Consecutive, Log
<1>4. Ordered'
  BY <1>2 DEF Trail, Ordered
<1>5. Unbroken' /\ Newest'
  BY <1>2 DEF Trail, Unbroken, Newest, Certain
<1> QED
  BY <1>3, <1>4, <1>5

LEMMA CheckTrail == ASSUME AuditInv, NEW w \in Writers, Check(w) PROVE Trail'
<1>1. Rotated' /\ Room'
  BY RotatedCheck, RoomCheck DEF AuditInv, Disk, Trail
<1>2. Consecutive' /\ Ordered' /\ Unbroken' /\ Newest'
  BY SameDisk DEF AuditInv, Check
<1> QED
  BY <1>1, <1>2 DEF Trail

LEMMA LookTrail == ASSUME AuditInv, NEW w \in Writers, Look(w) PROVE Trail'
<1>1. Rotated' /\ Room'
  BY RotatedLook, RoomLook DEF AuditInv, Disk, Trail
<1>2. Consecutive' /\ Ordered' /\ Unbroken' /\ Newest'
  BY SameDisk DEF AuditInv, Look
<1> QED
  BY <1>1, <1>2 DEF Trail

LEMMA MoveTrail == ASSUME AuditInv, NEW w \in Writers, Move(w) PROVE Trail'
<1>1. AuditTypeOK /\ Rotated /\ Consecutive /\ Ordered /\ Unbroken /\ Newest /\ Room
  BY DEF AuditInv, Disk, Trail
<1>2. Rotated' /\ Consecutive'
  BY <1>1, RotatedMove, ConsecutiveMove
<1>3. Ordered' /\ Unbroken'
  BY <1>1, OrderedMove, UnbrokenMove
<1>4. Newest' /\ Room'
  BY <1>1, NewestMove, RoomMove
<1> QED
  BY <1>2, <1>3, <1>4 DEF Trail

LEMMA MoveFailsTrail == ASSUME AuditInv, NEW w \in Writers, MoveFails(w) PROVE Trail'
<1>1. raced'
  BY DEF MoveFails
<1> QED
  BY <1>1 DEF Trail, Rotated, Consecutive, Ordered, Unbroken, Newest, Room

LEMMA OpenLogTrail == ASSUME AuditInv, NEW w \in Writers, OpenLog(w) PROVE Trail'
<1>1. AuditTypeOK /\ Rotated /\ Consecutive /\ Ordered /\ Unbroken /\ Newest /\ Room
  BY DEF AuditInv, Disk, Trail
<1>2. Rotated' /\ Consecutive'
  BY <1>1, RotatedOpenLog, ConsecutiveOpenLog
<1>3. Ordered' /\ Room'
  BY <1>1, OrderedOpenLog, RoomOpenLog
<1>4. Unbroken' /\ Newest'
  BY <1>1, KeptOpenLog
<1> QED
  BY <1>2, <1>3, <1>4 DEF Trail

LEMMA WriteTrail == ASSUME AuditInv, NEW w \in Writers, Write(w) PROVE Trail'
<1>1. Disk /\ Rotated /\ Consecutive /\ Ordered /\ Unbroken /\ Newest /\ Room
  BY DEF AuditInv, Trail
<1>2. Rotated' /\ Consecutive'
  BY <1>1, RotatedWrite, ConsecutiveWrite
<1>3. Ordered' /\ Room'
  BY <1>1, OrderedWrite, RoomWrite
<1>4. Unbroken' /\ Newest'
  BY <1>1, KeptWrite
<1> QED
  BY <1>2, <1>3, <1>4 DEF Trail

LEMMA FailTrail == ASSUME AuditInv, NEW w \in Writers, Fail(w) PROVE Trail'
<1>1. Rotated'
  BY RotatedSame DEF AuditInv, Disk, Trail, Fail, AuditTypeOK
<1>2. Consecutive' /\ Ordered' /\ Unbroken' /\ Newest'
  BY SameDisk DEF AuditInv, Fail
<1>3. Room'
  BY RoomFail DEF AuditInv, Disk, Trail
<1> QED
  BY <1>1, <1>2, <1>3 DEF Trail

LEMMA AuditInvNext == AuditInv /\ [AuditNext]_auditVars => AuditInv'
<1> SUFFICES ASSUME AuditInv, [AuditNext]_auditVars PROVE AuditInv'
  OBVIOUS
<1>1. Disk'
  BY DiskNext DEF AuditInv
<1>2. ASSUME UNCHANGED auditVars PROVE Trail'
  <2>1. Trail
    BY DEF AuditInv
  <2>2. Consecutive' /\ Ordered' /\ Unbroken' /\ Newest'
    BY <1>2, <2>1, SameDisk DEF auditVars
  <2>3. Rotated' /\ Room'
    BY <1>2, <2>1 DEF Trail, Rotated, Rotating, Full, Log, Room, Pending,
                      auditVars, disk, writers
  <2> QED
    BY <2>2, <2>3 DEF Trail
<1>3. ASSUME NEW w \in Writers, Event(w) PROVE Trail'
  BY <1>3, CheckTrail, LookTrail, MoveTrail, MoveFailsTrail,
     OpenLogTrail, WriteTrail, FailTrail DEF Event
<1> QED
  BY <1>1, <1>2, <1>3 DEF AuditNext, AuditInv

LEMMA AuditInvariance == AuditSpec => []AuditInv
BY AuditInvInit, AuditInvNext, PTL DEF AuditSpec

\* Unless rotations overlapped, the newest entries are on disk, whatever writers
\* crash or fail in the middle of a rotation, and audit.log has the newest ones.
THEOREM NewestKept == AuditSpec => []NewestKeptUnlessRaced
<1>1. AuditInv => NewestKeptUnlessRaced
  <2> SUFFICES ASSUME AuditInv, ~raced PROVE NewestKeptUnlessRaced
    BY DEF NewestKeptUnlessRaced
  <2>1. (written - Certain + 1 .. written) \cap 1 .. written \subseteq Kept
    BY DEF AuditInv, Trail, Newest
  <2>2. ASSUME NEW e \in Recent, NEW d \in Kept \ Recent PROVE d < e
    <3>1. PICK n \in Names : d \in EntriesOf(n)
      BY KeptIs
    <3>2. 0 < n /\ 0 \in Names
      BY <3>1, NamesOfLog DEF Recent
    <3> QED
      BY <3>1, <3>2 DEF AuditInv, Trail, Ordered, Recent
  <2> QED
    BY <2>1, <2>2 DEF NewestKeptUnlessRaced
<1> QED
  BY <1>1, AuditInvariance, PTL

\* Unless rotations overlapped, no file grows beyond the limit by more than one
\* entry of every writer.
THEOREM LogBounded == AuditSpec => []BoundedUnlessRaced
<1>1. AuditInv => BoundedUnlessRaced
  BY DEF AuditInv, Trail, Room, BoundedUnlessRaced
<1> QED
  BY <1>1, AuditInvariance, PTL

\* A writer on its own finds what it looked at, and writes to audit.log.
Undisturbed ==
    /\ stale = {} /\ ~raced
    /\ \A w \in Writers :
        /\ step[w] = "move" => holds[name[w] - 1] # NoFile
        /\ step[w] = "write" => handle[w] = Log

LEMMA UndisturbedStep ==
    ASSUME \A u, w \in Writers : u = w, AuditTypeOK, Undisturbed, [AuditNext]_auditVars
    PROVE  Undisturbed'
<1>1. ASSUME UNCHANGED auditVars PROVE Undisturbed'
  BY <1>1 DEF Undisturbed, Log, auditVars, disk, writers
<1>2. ASSUME NEW w \in Writers, Event(w) PROVE Undisturbed'
  <2>1. ASSUME Check(w) PROVE Undisturbed'
    BY <2>1 DEF Check, Undisturbed, AuditTypeOK, Log, disk
  <2>2. ASSUME Look(w) PROVE Undisturbed'
    BY <2>2 DEF Look, NextName, Undisturbed, AuditTypeOK, Log, disk
  <2>3. ASSUME Move(w) PROVE Undisturbed'
    BY <2>3 DEF Move, NextName, Undisturbed, AuditTypeOK
  <2>4. ASSUME MoveFails(w) PROVE Undisturbed'
    BY <2>4 DEF MoveFails, Undisturbed
  <2>5. ASSUME OpenLog(w) PROVE Undisturbed'
    <3>1. 0 \in Names
      BY AuditAssumption DEF Names
    <3> QED
      BY <2>5, <3>1 DEF OpenLog, Undisturbed, AuditTypeOK, Log
  <2>6. ASSUME Write(w) PROVE Undisturbed'
    BY <2>6 DEF Write, Undisturbed, AuditTypeOK, Log
  <2>7. ASSUME Fail(w) PROVE Undisturbed'
    BY <2>7 DEF Fail, Undisturbed, AuditTypeOK, Log, disk
  <2> QED
    BY <1>2, <2>1, <2>2, <2>3, <2>4, <2>5, <2>6, <2>7 DEF Event
<1> QED
  BY <1>1, <1>2 DEF AuditNext

\* With a single AuditLog on the file, nothing is raced, so that the newest
\* entries are always there and the files are always bounded.
THEOREM SoleWriter ==
    ASSUME \A u, w \in Writers : u = w
    PROVE  AuditSpec => [](~raced /\ NewestKeptUnlessRaced /\ BoundedUnlessRaced)
<1>1. AuditInit => Undisturbed
  BY DEF AuditInit, Undisturbed
<1>2. AuditTypeOK /\ Undisturbed /\ [AuditNext]_auditVars => Undisturbed'
  BY UndisturbedStep
<1>3. Undisturbed => ~raced
  BY DEF Undisturbed
<1> QED
  BY <1>1, <1>2, <1>3, AuditTypeCorrect, NewestKept, LogBounded, PTL DEF AuditSpec

=============================================================================
