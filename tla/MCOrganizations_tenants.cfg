SPECIFICATION Spec
CONSTANTS
    Users = {u1, u2}
    Nobody = Nobody
    Orgs = {o1}
    NoOrg = NoOrg
    Keys = {"owner", "member"}
    SystemKeys = {"owner"}
    Statuses = {"active", "suspended"}
    MaxRoles = 2
    MaxMembers = 2
    MaxInvitations = 1
    Calls = {c1}
    NoCall = NoCall
CHECK_DEADLOCK FALSE
SYMMETRY Symmetric
INVARIANTS
    OneRowPerUser
    RowsWhole
    ActiveOrganizationIsMine
