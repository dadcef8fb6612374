------------------------------- MODULE AuditLog -------------------------------
(***************************************************************************)
(* The audit trail on disk, haap/audit.py.  An AuditLog has a lock, and    *)
(* several of them write one file: the server's and the client's of one    *)
(* process, and those of other processes.  Before an entry is written, a   *)
(* log that has become too long is renamed to audit.log.1, and that one to *)
(* audit.log.2; every look at the disk and every renaming is a step.       *)
(*                                                                         *)
(* A name holds a file, and a writer that has opened a file keeps it while *)
(* the names move on.  Entries are numbered in the order in which they are *)
(* written, and the size of a file is the number of its entries.  The      *)
(* in-memory mode is left out.                                             *)
(***************************************************************************)
EXTENDS Integers, Sequences, FiniteSets

CONSTANTS
    Writers,      \* the AuditLog instances
    Keep,         \* KEEP_ROTATED
    MaxSize,      \* max_file_bytes, in entries
    MaxEntries    \* bound on the entries, and with it on the files

ASSUME AuditAssumption ==
    /\ IsFiniteSet(Writers)
    /\ Keep \in Nat \ {0} /\ MaxSize \in Nat \ {0} /\ MaxEntries \in Nat

Names == 0 .. Keep              \* audit.log and its rotated copies
Files == 1 .. MaxEntries + 1    \* the files ever created
NoFile == 0

VARIABLES
    holds,      \* holds[n]: the file of that name, or NoFile
    entries,    \* entries[f]: its entries
    step,       \* step[w]: the next step of event, in w
    name,       \* name[w]: the name that a rotation by w is to move to
    handle,     \* handle[w]: the file that w has opened
    written,    \* how many entries were written
    stale,      \* auxiliary: the writers in whose rotation others renamed a file
    raced       \* auxiliary: one of them went on to rename one too, or an entry was
                \* written to a file that had been renamed

disk == <<holds, entries>>
writers == <<step, name, handle>>
auditVars == <<disk, writers, written, stale, raced>>

AuditTypeOK ==
    /\ holds \in [Names -> Files \cup {NoFile}]
    /\ \A m, n \in Names : holds[m] = holds[n] /\ holds[m] # NoFile => m = n
    /\ entries \in [Files -> Seq(1 .. written)]
    /\ step \in [Writers -> {"idle", "look", "move", "open", "write"}]
    /\ name \in [Writers -> 1 .. Keep]
    /\ handle \in [Writers -> Files \cup {NoFile}]
    /\ written \in 0 .. MaxEntries
    /\ stale \subseteq Writers
    /\ raced \in BOOLEAN

-----------------------------------------------------------------------------
Log == holds[0]

Full == Log # NoFile /\ Len(entries[Log]) >= MaxSize

\* Slip: the loop begins one name too low.
CheckLow(w) ==
    /\ step[w] = "idle"
    /\ step' = [step EXCEPT ![w] = IF Full THEN "look" ELSE "open"]
    /\ name' = [name EXCEPT ![w] = IF Keep = 1 THEN 1 ELSE Keep - 1]
    /\ stale' = stale \ {w}
    /\ UNCHANGED <<disk, handle, written, raced>>

\* _rotate_if_needed begins.
Check(w) ==
    /\ step[w] = "idle"
    /\ step' = [step EXCEPT ![w] = IF Full THEN "look" ELSE "open"]
    /\ name' = [name EXCEPT ![w] = Keep]
    /\ stale' = stale \ {w}
    /\ UNCHANGED <<disk, handle, written, raced>>

\* The loop goes from the oldest name to the newest.
NextName(w) ==
    /\ step' = [step EXCEPT ![w] = IF name[w] = 1 THEN "open" ELSE "look"]
    /\ name' = [name EXCEPT ![w] = IF @ = 1 THEN Keep ELSE @ - 1]

\* Slip: the first name that does not exist ends the loop.
LookAndStop(w) ==
    /\ step[w] = "look"
    /\ step' = [step EXCEPT ![w] = IF holds[name[w] - 1] = NoFile THEN "open" ELSE "move"]
    /\ UNCHANGED <<disk, name, handle, written, stale, raced>>

\* os.path.exists.
Look(w) ==
    /\ step[w] = "look"
    /\ IF holds[name[w] - 1] = NoFile
       THEN NextName(w)
       ELSE /\ step' = [step EXCEPT ![w] = "move"]
            /\ UNCHANGED name
    /\ UNCHANGED <<disk, handle, written, stale, raced>>

\* Slip: the file is copied, and the old name stays.
Copied(from, to) == [holds EXCEPT ![to] = holds[from]]

Renamed(from, to) == [holds EXCEPT ![to] = holds[from], ![from] = NoFile]

\* os.replace.
Move(w) ==
    /\ step[w] = "move"
    /\ holds[name[w] - 1] # NoFile
    /\ holds' = Renamed(name[w] - 1, name[w])
    /\ NextName(w)
    /\ stale' = stale \cup {u \in Writers \ {w} : step[u] \in {"look", "move"}}
    /\ raced' = (raced \/ w \in stale)
    /\ UNCHANGED <<entries, handle, written>>

\* The file is gone: the OSError ends the rotation, and the entry is written.
MoveFails(w) ==
    /\ step[w] = "move"
    /\ holds[name[w] - 1] = NoFile
    /\ step' = [step EXCEPT ![w] = "open"]
    /\ raced' = TRUE
    /\ UNCHANGED <<disk, name, handle, written, stale>>

\* A file that was never written.
Blank(f) ==
    /\ entries[f] = <<>>
    /\ \A n \in Names : holds[n] # f
    /\ \A w \in Writers : handle[w] # f

NewFile == CHOOSE f \in Files : Blank(f)

\* open, for appending: a file that is not there is created.
OpenLog(w) ==
    /\ step[w] = "open"
    /\ Log = NoFile => \E f \in Files : Blank(f)
    /\ step' = [step EXCEPT ![w] = "write"]
    /\ LET f == IF Log = NoFile THEN NewFile ELSE Log IN
       /\ holds' = [holds EXCEPT ![0] = f]
       /\ handle' = [handle EXCEPT ![w] = f]
    /\ UNCHANGED <<entries, name, written, stale, raced>>

Write(w) ==
    /\ step[w] = "write"
    /\ written < MaxEntries
    /\ written' = written + 1
    /\ entries' = [entries EXCEPT ![handle[w]] = Append(@, written + 1)]
    /\ raced' = (raced \/ handle[w] # Log)
    /\ step' = [step EXCEPT ![w] = "idle"]
    /\ handle' = [handle EXCEPT ![w] = NoFile]
    /\ UNCHANGED <<holds, name, stale>>

\* The process dies, or the disk is full: no entry.
Fail(w) ==
    /\ step[w] # "idle"
    /\ step' = [step EXCEPT ![w] = "idle"]
    /\ handle' = [handle EXCEPT ![w] = NoFile]
    /\ UNCHANGED <<disk, name, written, stale, raced>>

-----------------------------------------------------------------------------
AuditInit ==
    /\ holds = [n \in Names |-> NoFile]
    /\ entries = [f \in Files |-> <<>>]
    /\ step = [w \in Writers |-> "idle"]
    /\ name = [w \in Writers |-> Keep]
    /\ handle = [w \in Writers |-> NoFile]
    /\ written = 0
    /\ stale = {} /\ raced = FALSE

Event(w) ==
    \/ Check(w) \/ Look(w) \/ Move(w) \/ MoveFails(w)
    \/ OpenLog(w) \/ Write(w) \/ Fail(w)

AuditNext == \E w \in Writers : Event(w)

AuditSpec == AuditInit /\ [][AuditNext]_auditVars

-----------------------------------------------------------------------------
(* Properties.                                                             *)

EntriesOf(n) ==
    IF holds[n] = NoFile THEN {}
    ELSE {entries[holds[n]][i] : i \in 1 .. Len(entries[holds[n]])}

Kept == UNION {EntriesOf(n) : n \in Names}

\* What recent shows: it reads audit.log alone.
Recent == EntriesOf(0)

\* A crash between two renamings leaves a name empty, and the next rotation
\* drops the oldest file all the same: no more than two full files are certain,
\* which is as many as KEEP_ROTATED.
Certain == (IF Keep = 1 THEN 1 ELSE 2) * MaxSize

\* The newest entries, as many as two rotated files have to hold, are on disk,
\* and what recent shows is newer than what was rotated away, though writers
\* crash in the middle of a rotation, unless rotations overlap.
NewestKeptUnlessRaced ==
    \/ raced
    \/ /\ (written - Certain + 1 .. written) \cap 1 .. written \subseteq Kept
       /\ \A e \in Recent, d \in Kept \ Recent : d < e

\* Each writer may find the file one entry short of the limit, and no more than
\* one entry of each comes after that.
BoundedUnlessRaced ==
    raced \/ \A f \in Files : Len(entries[f]) < MaxSize + Cardinality(Writers)

=============================================================================
