----------------------------- MODULE MCFriendship -----------------------------
(* Instances of Friendship for TLC. *)
EXTENDS Friendship, Integers

CONSTANTS chat, task

\* None (the default matrix) and the explicit empty matrix.
MCOwnerGrants == {{}, {chat}}
\* "guest" and a role that may delegate tasks.
MCRoleGrants == {{chat, task}}
MCIds == 1..4

=============================================================================
