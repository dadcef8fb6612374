CONSTANTS
    chat = chat
    task = task
    Actions = {chat, task}
    DefaultGrant = {chat}
    Peers = {p1}
    Threads = {t1}
    Ids <- MCIds
    NoId = NoId
    NoPeer = NoPeer
    NoAction = NoAction
    OwnerGrants <- MCOwnerGrants
    RoleGrants <- MCRoleGrants
SPECIFICATION Spec
PROPERTY BlockIsFinal
