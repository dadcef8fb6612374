----------------------------- MODULE DirectoryStore -----------------------------
(***************************************************************************)
(* The file behind the directory: `Directory._load` and `Directory.save`   *)
(* of haap/directory.py, for any number of Directory instances on one      *)
(* `friends.json`.                                                         *)
(*                                                                         *)
(* Every instance loads the file once, when it is made, keeps its own map  *)
(* and its own RLock, and writes the whole map back after every mutation:  *)
(* it opens `friends.json.tmp`, writes, closes and renames.  The lock      *)
(* orders the mutations of one instance only.  One agent has several:      *)
(* `haap serve` holds one, every `haap friends` command makes its own, and *)
(* HaapRuntime makes one for its server, one for its client and one for    *)
(* every call of the friends tool (`HaapRuntime.directory`).               *)
(*                                                                         *)
(* Files are inodes.  `open(tmp, "w")` truncates the inode that the name   *)
(* `.tmp` stands for, if there is one, and os.replace moves whatever inode *)
(* has that name.  A process may stop or crash between any two steps, and  *)
(* a write may fail (disk full), which leaves the map in memory changed.   *)
(*                                                                         *)
(* The store never looks inside a record: what a mutation does to one is a *)
(* parameter, for which FriendRecords has the operations of `Directory`.   *)
(***************************************************************************)

CONSTANTS
    Peers,          \* the remote agents
    Instances,      \* the Directory objects, each in a process or a thread
    Inodes,         \* the bound on files; one for each name and one for each
                    \* instance that writes are never exhausted
    NoInode,        \* a name that does not exist, a closed file
    Records,        \* the friendship records
    NoRecord,       \* no record of a peer
    Effects(_),     \* Effects(rec): what one mutation can make of rec
    Empty,          \* an inode that was truncated
    Torn            \* an inode with less, or more, than one JSON document

ASSUME NoInodeAssumption == NoInode \notin Inodes

Map == [Peers -> Records \cup {NoRecord}]

ASSUME ContentAssumption == Empty # Torn /\ Empty \notin Map /\ Torn \notin Map

VARIABLES
    file,       \* the inode of friends.json
    tmp,        \* the inode of friends.json.tmp
    content,    \* content[n]: what inode n holds
    shared,     \* inodes that one instance truncated while another wrote
    at,         \* at[i]: where instance i is in a mutation
    mem,        \* mem[i]: Directory._friends of i
    fd          \* fd[i]: the inode i has open for writing

\* Auxiliary: never read by a guard.
VARIABLES
    touched,    \* touched[i]: peers that i changed and has not saved yet
    owed,       \* owed[p]: what the last saved mutation of p left
    outdated,   \* instances that another one has saved since they loaded
    overlap,    \* have two saves ever overlapped?
    clobbered   \* has an outdated instance ever saved?

store == <<file, tmp, content, shared>>
ghosts == <<owed, outdated, overlap, clobbered>>
vars == <<store, at, mem, fd, touched, ghosts>>

Nobody == [p \in Peers |-> NoRecord]

\* "mutated": the map has changed and save() begins; "opened": the temporary
\* file is truncated; "written": it is written and closed.
Stages == {"down", "idle", "mutated", "opened", "written"}

TypeOK ==
    /\ file \in Inodes \cup {NoInode}
    /\ tmp \in Inodes \cup {NoInode}
    /\ content \in [Inodes -> Map \cup {Empty, Torn}]
    /\ shared \subseteq Inodes
    /\ at \in [Instances -> Stages]
    /\ mem \in [Instances -> Map]
    /\ fd \in [Instances -> Inodes \cup {NoInode}]
    /\ touched \in [Instances -> SUBSET Peers]
    /\ owed \in Map
    /\ outdated \subseteq Instances
    /\ overlap \in BOOLEAN /\ clobbered \in BOOLEAN

-----------------------------------------------------------------------------
(* Inodes.                                                                 *)

Open == {fd[i] : i \in Instances}

Unused == Inodes \ ({file, tmp} \cup Open)

\* What friends.json holds, for one who loads it.
OnFile == IF file = NoInode THEN Nobody ELSE content[file]

\* Inodes that lost their last name and descriptor are gone.
Contents(new) ==
    content' = [n \in Inodes |->
                   IF n \in {file', tmp'} \cup {fd'[i] : i \in Instances}
                   THEN new[n] ELSE Empty]

-----------------------------------------------------------------------------
\* Slip: a file that is not JSON is taken as it is.
StartUnchecked(i) ==
    /\ at[i] = "down"
    /\ at' = [at EXCEPT ![i] = "idle"]
    /\ mem' = [mem EXCEPT ![i] = OnFile]
    /\ outdated' = outdated \ {i}
    /\ UNCHANGED <<store, fd, touched, owed, overlap, clobbered>>

\* Slip: a new object does not read the file.
StartEmpty(i) ==
    /\ at[i] = "down"
    /\ at' = [at EXCEPT ![i] = "idle"]
    /\ mem' = [mem EXCEPT ![i] = Nobody]
    /\ outdated' = outdated \ {i}
    /\ UNCHANGED <<store, fd, touched, owed, overlap, clobbered>>

\* Directory(): an absent file is an empty directory, a file that is not JSON
\* raises.
Start(i) ==
    /\ at[i] = "down"
    /\ OnFile \in Map
    /\ at' = [at EXCEPT ![i] = "idle"]
    /\ mem' = [mem EXCEPT ![i] = OnFile]
    /\ outdated' = outdated \ {i}
    /\ UNCHANGED <<store, fd, touched, owed, overlap, clobbered>>

\* A mutation takes the lock and changes the map.
Mutate(i, p, rec) ==
    /\ at[i] = "idle"
    /\ rec \in Effects(mem[i][p])
    /\ at' = [at EXCEPT ![i] = "mutated"]
    /\ mem' = [mem EXCEPT ![i][p] = rec]
    /\ touched' = [touched EXCEPT ![i] = @ \cup {p}]
    /\ UNCHANGED <<store, fd, ghosts>>

\* Slip: friends.json itself is opened.
OpenLive(i) ==
    /\ at[i] = "mutated"
    /\ at' = [at EXCEPT ![i] = "opened"]
    /\ file' \in IF file = NoInode THEN Unused ELSE {file}
    /\ fd' = [fd EXCEPT ![i] = file']
    /\ UNCHANGED <<tmp, shared, mem, touched, ghosts>>
    /\ Contents([content EXCEPT ![file'] = Empty])

\* `with open(tmp, "w")`: the inode that has the name is truncated, whoever
\* writes it.
OpenTmp(i) ==
    /\ at[i] = "mutated"
    /\ at' = [at EXCEPT ![i] = "opened"]
    /\ tmp' \in IF tmp = NoInode THEN Unused ELSE {tmp}
    /\ fd' = [fd EXCEPT ![i] = tmp']
    /\ shared' = IF tmp' \in Open THEN shared \cup {tmp'} ELSE shared \ {tmp'}
    /\ overlap' = (overlap \/ \E j \in Instances : at[j] \in {"opened", "written"})
    /\ UNCHANGED <<file, mem, touched, owed, outdated, clobbered>>
    /\ Contents([content EXCEPT ![tmp'] = Empty])

\* The open file i had, if any, is closed and holds `what`.
Close(i, what) ==
    /\ fd' = [fd EXCEPT ![i] = NoInode]
    /\ shared' = shared \cap ({file, tmp} \cup {fd'[j] : j \in Instances})
    /\ UNCHANGED <<file, tmp>>
    /\ Contents([n \in Inodes |-> IF n = fd[i] THEN what ELSE content[n]])

\* json.dump, and the file is closed.  Two writers on one inode write at
\* offsets of their own: the second may leave a mixture.
WriteTmp(i) ==
    /\ at[i] = "opened"
    /\ at' = [at EXCEPT ![i] = "written"]
    /\ UNCHANGED <<mem, touched, ghosts>>
    /\ \/ Close(i, mem[i])
       \/ fd[i] \in shared /\ Close(i, Torn)

\* os.replace: `.tmp` becomes friends.json, and the mutation returns.
Replace(i) ==
    /\ at[i] = "written"
    /\ tmp # NoInode
    /\ file' = tmp
    /\ tmp' = NoInode
    /\ at' = [at EXCEPT ![i] = "idle"]
    /\ touched' = [touched EXCEPT ![i] = {}]
    /\ owed' = [p \in Peers |-> IF p \in touched[i] THEN mem[i][p] ELSE owed[p]]
    /\ clobbered' = (clobbered \/ i \in outdated)
    /\ outdated' = {j \in Instances \ {i} : at[j] # "down"}
    /\ shared' = shared \cap ({file'} \cup Open)
    /\ UNCHANGED <<mem, fd, overlap>>
    /\ Contents(content)

\* Slip: an error of save() is swallowed, and the mutation returns.
SaveFailsSilently(i) ==
    /\ at[i] \in {"mutated", "opened"}
    /\ at' = [at EXCEPT ![i] = "idle"]
    /\ touched' = [touched EXCEPT ![i] = {}]
    /\ owed' = [p \in Peers |-> IF p \in touched[i] THEN mem[i][p] ELSE owed[p]]
    /\ UNCHANGED <<mem, outdated, overlap, clobbered>>
    /\ Close(i, Torn)

\* The file cannot be opened or written, or another instance renamed it away:
\* the mutation raises, and the map in memory keeps the change.
SaveFails(i) ==
    /\ \/ at[i] \in {"mutated", "opened"}
       \/ at[i] = "written" /\ tmp = NoInode
    /\ at' = [at EXCEPT ![i] = "idle"]
    /\ UNCHANGED <<mem, touched, ghosts>>
    /\ Close(i, Torn)

\* The command ends, or the process is killed, between any two steps.
Stop(i) ==
    /\ at[i] # "down"
    /\ at' = [at EXCEPT ![i] = "down"]
    /\ mem' = [mem EXCEPT ![i] = Nobody]
    /\ touched' = [touched EXCEPT ![i] = {}]
    /\ outdated' = outdated \ {i}
    /\ UNCHANGED <<owed, overlap, clobbered>>
    /\ Close(i, Torn)

Init ==
    /\ file = NoInode /\ tmp = NoInode
    /\ content = [n \in Inodes |-> Empty]
    /\ shared = {}
    /\ at = [i \in Instances |-> "down"]
    /\ mem = [i \in Instances |-> Nobody]
    /\ fd = [i \in Instances |-> NoInode]
    /\ touched = [i \in Instances |-> {}]
    /\ owed = Nobody
    /\ outdated = {}
    /\ overlap = FALSE /\ clobbered = FALSE

Next ==
    \E i \in Instances :
        \/ Start(i) \/ Stop(i)
        \/ \E p \in Peers, rec \in Records \cup {NoRecord} : Mutate(i, p, rec)
        \/ OpenTmp(i) \/ WriteTmp(i) \/ Replace(i) \/ SaveFails(i)

Spec == Init /\ [][Next]_vars

-----------------------------------------------------------------------------
(* Properties.                                                             *)

\* Whoever loads friends.json finds one JSON document, whenever the process
\* that writes it crashes or fails (`save`).
FileIntact == OnFile \in Map

\* A mutation that returned is on file, as it left the record, until another
\* mutation of that record is saved: also what a failed save had left in
\* memory only, once a later one succeeds (`save`, `_load`).
Durable == OnFile = owed

\* Crashes and failed writes at any point leave friends.json whole, as long as
\* two saves never overlap, in whatever order instances come and go.
IntactUnlessOverlap == ~overlap => FileIntact

\* Saving the whole map loses nothing as long as, besides, no instance saves
\* that loaded the file before another one saved.
DurableUnlessOutdated == ~overlap /\ ~clobbered => Durable

\* The map as i would save it, unless i has to be made anew.
ViewOf(i) == IF at[i] = "down" \/ i \in outdated THEN Empty ELSE mem[i]

Serial == INSTANCE SerialMap WITH
    Keys <- Peers, Values <- Records \cup {NoRecord}, Sessions <- Instances,
    Nothing <- Nobody, NoView <- Empty,
    saved <- OnFile,
    view <- [i \in Instances |-> ViewOf(i)]

\* Refinement, up to the first step in which saves overlap or an outdated
\* instance saves: every step, a crash and a failed write among them, does
\* nothing to friends.json, or saves the changes of one instance to what was
\* saved last.
ImplementsSerialMap ==
    /\ Serial!Init
    /\ [][overlap' \/ clobbered' \/ [Serial!Next]_Serial!serialVars]_vars

-----------------------------------------------------------------------------
(* What documentation and comments say of the store, and the code does not *)
(* do when an agent has several instances.                                 *)

\* directory.py: a "local friends registry, persisted as JSON with locking":
\* what one instance saved is not undone by a later mutation of another.
DurableUnlessOverlap == ~overlap => Durable

=============================================================================
