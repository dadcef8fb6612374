--------------------------- MODULE MCDirectoryStore ---------------------------
(* Instances of DirectoryStore for TLC. *)
EXTENDS DirectoryStore, FriendRecords, TLC

CONSTANT chat

\* Block and remove only, where two values of a record are enough.
MCBlocks == {Blocked}
MCBlockEffects(rec) == IF rec = NoRecord THEN {Blocked} ELSE {Blocked, NoRecord}

\* Inodes, peers and instances are interchangeable.
MCSymmetry ==
    Permutations(Inodes) \cup Permutations(Peers) \cup Permutations(Instances)

=============================================================================
