SPECIFICATION ApprovalsSpec
CONSTANTS
    Matching <- MCMatching
    Absent = Absent
    Malformed = Malformed
    Peers = {"p"}
    Specialities = {"hair"}
    Named = {"admin", "vip", "mute"}
    PolicyFiles <- MCPolicyFiles
    RolesFiles <- MCRolesFiles
    Grants <- MCGrants
    Unreadable = Unreadable
    NotAnObject = NotAnObject
    NoPolicy = NoPolicy
    NoCard = NoCard
    MaxEdits = 3
INVARIANTS ApprovalsTypeOK CappedAtClient MatrixWithinCap
