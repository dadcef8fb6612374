---------------------------- MODULE MCApprovals ----------------------------
(* The instances of Approvals that TLC checks. *)
EXTENDS Approvals

\* Resources of three kinds.
MCMatching ==
    {"*"} \X {"booking:1", "report", "haap x"}
        \cup {<<"booking:*", "booking:1">>, <<"haap *", "haap x">>}

Rule(kind, of, role) == [by |-> kind, of |-> of, role |-> role]
PolicyOf(default, rules, max) == [default |-> default, rules |-> rules, max |-> max]

\* An open policy and a closed one, with a rule of either kind.
MCPolicyFiles ==
    {Unreadable, NotAnObject,
     PolicyOf("queue", <<Rule("speciality", "hair", Absent)>>, "guest"),
     PolicyOf("queue", <<Rule("fingerprint", "q", "guest"),
                         Rule("fingerprint", "p", "admin"),
                         Rule("speciality", "hair", "guest")>>, "client"),
     PolicyOf("deny", <<Rule("speciality", "hair", "vip")>>, "vip")}

Override(name, extends, permissions, limits) ==
    [name |-> name, extends |-> extends, permissions |-> permissions, limits |-> limits]

\* A role of the owner's that can run commands, one with nothing, and a client
\* that is built upon the first, or broken.
MCRolesFiles ==
    {<<>>,
     <<Override("vip", "client", Granting({"exec:terminal"}, {"haap *"}), Absent),
       Override("mute", Absent, EmptyMatrix, Absent)>>,
     <<Override("vip", "admin", Absent, "vip"), Override("client", "vip", Absent, Absent)>>,
     <<Override("client", "vip", Malformed, Absent), Override("vip", "client", Absent, "vip")>>}

MCGrants == {EmptyMatrix, AdminMatrix}
=============================================================================
