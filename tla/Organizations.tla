---------------------------- MODULE Organizations ----------------------------
(***************************************************************************)
(* Organizations, roles, members and invitations                           *)
(* (component/organizations.ts), the deletion of a user that takes them    *)
(* along (component/native/users.ts), and three ways of calling them that  *)
(* are actions of several transactions: the writer upsertMember of         *)
(* createConvexAuthOrganizationOperations.ts, redeemOrganizationInvitation *)
(* of invitationPolicy.ts with its callbacks bound to those writers, and   *)
(* inviteMember of examples/react/convex/organizations.ts.                 *)
(*                                                                         *)
(* Users are created elsewhere (EmailFlows); an address is its owner here. *)
(* Names, slugs, permissions, the status of an organization and the mail   *)
(* are data that no property reads.  invitedEmail of a member is left out: *)
(* only a call of upsertMember that passes one reads it, and no caller     *)
(* does.  The events these mutations emit are in WebhookDeliveries.        *)
(***************************************************************************)
EXTENDS Integers, FiniteSets

CONSTANTS
    Users, Nobody,
    Orgs, NoOrg,
    Keys,            \* of roles: owner, member
    SystemKeys,      \* of the seeded roles: owner
    Statuses,        \* of members: active, invited, suspended
    MaxRoles,        \* bound: rows of organization_roles ever inserted
    MaxMembers,      \* bound: rows of organization_members at once
    MaxInvitations,  \* bound: rows of organization_invitations ever inserted
    Calls, NoCall    \* actions in progress

ASSUME OrganizationsAssumption ==
    /\ Nobody \notin Users /\ NoOrg \notin Orgs
    /\ SystemKeys \subseteq Keys
    /\ "active" \in Statuses
    /\ MaxRoles \in Nat /\ MaxMembers \in Nat /\ MaxInvitations \in Nat

VARIABLES
    users,        \* users: the rows that exist
    active,       \* users: activeOrganizationId
    orgs,         \* organizations
    roles,        \* organization_roles
    members,      \* organization_members
    invitations,  \* organization_invitations
    calls         \* the actions in progress

orgVars == <<orgs, roles, members, invitations>>
vars == <<users, active, orgVars, calls>>

RoleIds == 1 .. MaxRoles
MemberIds == 1 .. MaxMembers
InvitationIds == 1 .. MaxInvitations

Row == {"none", "live", "gone"}
InvitationStatus == {"pending", "accepted", "revoked", "expired"}

Role == [state : Row, org : Orgs \cup {NoOrg}, key : Keys \cup {"none"}, system : BOOLEAN]
Member == [user : Users \cup {Nobody}, org : Orgs \cup {NoOrg},
           role : RoleIds \cup {0}, status : Statuses]
Invitation == [state : Row, org : Orgs \cup {NoOrg}, role : RoleIds \cup {0},
               email : Users \cup {Nobody}, status : InvitationStatus,
               lapsed : BOOLEAN, acceptedBy : Users \cup {Nobody}]
\* op is the transaction that comes next; invitation is 0 unless one is redeemed.
Call == [op : {"ensureRole", "upsertMember", "upsertInvitation", "markAccepted", "setActive"},
         user : Users, org : Orgs, key : Keys \cup {"none"}, role : RoleIds \cup {0},
         invitation : InvitationIds \cup {0}]

\* A row that was deleted is no more than that.
NoRole == [state |-> "none", org |-> NoOrg, key |-> "none", system |-> FALSE]
NoInvitation == [state |-> "none", org |-> NoOrg, role |-> 0, email |-> Nobody,
                 status |-> "pending", lapsed |-> FALSE, acceptedBy |-> Nobody]
NoMember == [user |-> Nobody, org |-> NoOrg, role |-> 0, status |-> "active"]

OrgTypeOK ==
    /\ users \subseteq Users
    /\ active \in [Users -> Orgs \cup {NoOrg}]
    /\ orgs \in [Orgs -> Row]
    /\ roles \in [RoleIds -> Role]
    /\ members \in [MemberIds -> Member]
    /\ invitations \in [InvitationIds -> Invitation]
    /\ calls \in [Calls -> Call \cup {NoCall}]

Init ==
    /\ users = Users
    /\ active = [u \in Users |-> NoOrg]
    /\ orgs = [o \in Orgs |-> "none"]
    /\ roles = [r \in RoleIds |-> NoRole]
    /\ members = [m \in MemberIds |-> NoMember]
    /\ invitations = [i \in InvitationIds |-> NoInvitation]
    /\ calls = [c \in Calls |-> NoCall]

-----------------------------------------------------------------------------
(* Rows *)

Lowest(S) == {i \in S : \A j \in S : i <= j}

FreeMembers == Lowest({m \in MemberIds : members[m].user = Nobody})
FreshInvitations == Lowest({i \in InvitationIds : invitations[i].state = "none"})
ExistingInvitations == {i \in InvitationIds : invitations[i].state = "live"}
FreshRoles == {r \in RoleIds : roles[r].state = "none"}

\* findRoleByKey
RolesBy(o, k) == {r \in RoleIds : roles[r].state = "live" /\ roles[r].org = o /\ roles[r].key = k}

\* findMemberByUserOrganization
RowsOf(u, o) == {m \in MemberIds : members[m].user = u /\ members[m].org = o}

RowsIn(o) == {m \in MemberIds : members[m].org = o}

RequireOrganization(o) == orgs[o] = "live"
RequireRole(r, o) == roles[r].state = "live" /\ roles[r].org = o
RequireUser(u) == u \in users

\* ensureRoleInner, over a catalog: f gives the row of each key, an existing one
\* whose system flag agrees, or a new one.
Ensured(o, K, S, f) ==
    /\ \A k \in K :
          IF RolesBy(o, k) # {}
          THEN f[k] \in RolesBy(o, k) /\ (roles[f[k]].system <=> k \in S)
          ELSE f[k] \in FreshRoles
    /\ \A k, l \in K : f[k] = f[l] => k = l
    /\ \A k \in K, r \in FreshRoles :
          f[k] \in FreshRoles /\ r < f[k] => \E l \in K : f[l] = r
    /\ roles' = [r \in RoleIds |->
                   IF \E k \in K : f[k] = r
                   THEN [state |-> "live", org |-> o, key |-> CHOOSE k \in K : f[k] = r,
                         system |-> (CHOOSE k \in K : f[k] = r) \in S]
                   ELSE roles[r]]

\* Mutant: a row is inserted for whoever has no active one.
InsertUnlessActive(u, o, r, s) ==
    \/ \E m \in RowsOf(u, o) :
          /\ members[m].status = "active"
          /\ members' = [members EXCEPT ![m].role = r, ![m].status = s]
    \/ /\ \A m \in RowsOf(u, o) : members[m].status # "active"
       /\ \E m \in FreeMembers :
             members' = [members EXCEPT ![m] =
                           [user |-> u, org |-> o, role |-> r, status |-> s]]

\* upsertOrganizationMemberRecord and upsertAcceptedInvitationMember
PutMember(u, o, r, s) ==
    \/ \E m \in RowsOf(u, o) :
          members' = [members EXCEPT ![m].role = r, ![m].status = s]
    \/ /\ RowsOf(u, o) = {}
       /\ \E m \in FreeMembers :
             members' = [members EXCEPT ![m] =
                           [user |-> u, org |-> o, role |-> r, status |-> s]]

-----------------------------------------------------------------------------
(* Users and organizations *)

\* The example's createOrganization, one mutation: upsertOrganization (found by
\* its slug, or new), seedDefaultRoles, upsertMember and setUserActiveOrganization.
CreateOrganization(u, o) ==
    /\ RequireUser(u)
    /\ orgs[o] # "gone"
    /\ orgs' = [orgs EXCEPT ![o] = "live"]
    /\ \E f \in [Keys -> RoleIds] :
          /\ Ensured(o, Keys, SystemKeys, f)
          /\ \E k \in SystemKeys : PutMember(u, o, f[k], "active")
    /\ active' = [active EXCEPT ![u] = o]
    /\ UNCHANGED <<users, invitations, calls>>

SetUserActiveOrganization(u, o) ==
    /\ RequireUser(u)
    /\ o # NoOrg =>
          /\ RequireOrganization(o)
          /\ \E m \in RowsOf(u, o) : members[m].status = "active"
    /\ active' = [active EXCEPT ![u] = o]
    /\ UNCHANGED <<users, orgVars, calls>>

\* Mutant: an organization goes with its last active member.
NoOtherActive(u, o) ==
    RowsOf(u, o) # {} /\ \A m \in RowsIn(o) : members[m].user = u \/ members[m].status # "active"

\* deleteUser counts the rows of each organization as it deletes the user's.
Abandoned(u, o) == RowsOf(u, o) # {} /\ \A m \in RowsIn(o) : members[m].user = u

\* deleteUser with deleteOrganization
DeleteUser(u) ==
    LET Dead == {o \in Orgs : orgs[o] = "live" /\ Abandoned(u, o)}
    IN /\ u \in users
       /\ users' = users \ {u}
       /\ active' = [active EXCEPT ![u] = NoOrg]
       /\ orgs' = [o \in Orgs |-> IF o \in Dead THEN "gone" ELSE orgs[o]]
       /\ roles' = [r \in RoleIds |->
                      IF roles[r].org \in Dead THEN [NoRole EXCEPT !.state = "gone"]
                      ELSE roles[r]]
       /\ members' = [m \in MemberIds |->
                        IF members[m].user = u \/ members[m].org \in Dead THEN NoMember
                        ELSE members[m]]
       /\ invitations' = [i \in InvitationIds |->
                            IF invitations[i].org \in Dead
                            THEN [NoInvitation EXCEPT !.state = "gone"]
                            ELSE invitations[i]]
       /\ UNCHANGED calls

-----------------------------------------------------------------------------
(* Roles and members *)

\* The example's createRole: ensureRole with isSystem: false, for a new key.
EnsureRole(o, k) ==
    /\ RequireOrganization(o)
    /\ RolesBy(o, k) = {}
    /\ \E f \in [{k} -> RoleIds] : Ensured(o, {k}, {}, f)
    /\ UNCHANGED <<users, active, orgs, members, invitations, calls>>

DeleteRole(r) ==
    /\ roles[r].state = "live"
    /\ ~roles[r].system
    /\ \A m \in MemberIds : members[m].role # r
    /\ \A i \in InvitationIds : invitations[i].state = "live" => invitations[i].role # r
    /\ roles' = [roles EXCEPT ![r] = [NoRole EXCEPT !.state = "gone"]]
    /\ UNCHANGED <<users, active, orgs, members, invitations, calls>>

SetMemberRole(m, r) ==
    /\ members[m].user # Nobody
    /\ RequireRole(r, members[m].org)
    /\ members' = [members EXCEPT ![m].role = r]
    /\ UNCHANGED <<users, active, orgs, roles, invitations, calls>>

SetMemberStatus(m, s) ==
    /\ members[m].user # Nobody
    /\ members' = [members EXCEPT ![m].status = s]
    /\ UNCHANGED <<users, active, orgs, roles, invitations, calls>>

-----------------------------------------------------------------------------
(* Invitations *)

\* expiresAt passes
Lapse(i) ==
    /\ invitations[i].state = "live"
    /\ ~invitations[i].lapsed
    /\ invitations' = [invitations EXCEPT ![i].lapsed = TRUE]
    /\ UNCHANGED <<users, active, orgs, roles, members, calls>>

\* markInvitationExpired, by setInvitationStatus, of whoever has read a pending
\* invitation after its time. Nothing is asked again: it may be accepted since.
MarkInvitationExpired(i) ==
    /\ invitations[i].state = "live"
    /\ invitations' = [invitations EXCEPT ![i].status = "expired"]
    /\ UNCHANGED <<users, active, orgs, roles, members, calls>>

RevokeInvitation(i) ==
    /\ invitations[i].state = "live"
    /\ invitations[i].status # "accepted"
    /\ invitations' = [invitations EXCEPT ![i].status = "revoked"]
    /\ UNCHANGED <<users, active, orgs, roles, members, calls>>

\* With a new expiresAt; without one nothing changes here.
ResendInvitation(i) ==
    /\ invitations[i].state = "live"
    /\ invitations[i].status = "pending"
    /\ invitations' = [invitations EXCEPT ![i].lapsed = FALSE]
    /\ UNCHANGED <<users, active, orgs, roles, members, calls>>

\* By whoever holds the token or the id.
RedeemInvitation(u, i) ==
    LET invitation == invitations[i]
    IN /\ invitation.state = "live"
       /\ RequireUser(u)
       /\ RequireOrganization(invitation.org)
       /\ RequireRole(invitation.role, invitation.org)
       /\ invitation.status \in {"pending", "accepted"}
       /\ ~invitation.lapsed
       /\ invitation.status = "accepted" => invitation.acceptedBy \in {u, Nobody}
       /\ PutMember(u, invitation.org, invitation.role, "active")
       /\ invitations' =
             IF invitation.status = "accepted" THEN invitations
             ELSE [invitations EXCEPT ![i].status = "accepted", ![i].acceptedBy = u]
       /\ UNCHANGED <<users, active, orgs, roles, calls>>

-----------------------------------------------------------------------------
(* Actions of several transactions *)

Go(c, call) == calls' = [calls EXCEPT ![c] = call]
End(c) == calls' = [calls EXCEPT ![c] = NoCall]

\* upsertMember of the writers: ensureOrganization finds the organization by
\* its id or slug, or inserts it. It runs a second time before ensureRole. When
\* the organization is gone since, the code inserts one of that slug, with the
\* role, and then fails in upsertMember, which gets the id it had first. Here
\* the call fails at once: an organization without members is left out, which
\* CreateOrganization finds or makes as well.
WriteMember(c, u, o, k) ==
    /\ calls[c] = NoCall
    /\ orgs[o] # "gone"
    /\ orgs' = [orgs EXCEPT ![o] = "live"]
    /\ Go(c, [op |-> "ensureRole", user |-> u, org |-> o, key |-> k, role |-> 0,
              invitation |-> 0])
    /\ UNCHANGED <<users, active, roles, members, invitations>>

\* The writers declare every role of their catalog a system role.
EnsureSystemRole(c) ==
    LET call == calls[c]
    IN /\ call.op = "ensureRole"
       /\ RequireOrganization(call.org)
       /\ \E f \in [{call.key} -> RoleIds] :
             /\ Ensured(call.org, {call.key}, {call.key}, f)
             /\ Go(c, [call EXCEPT !.op = "upsertMember", !.key = "none", !.role = f[call.key]])
       /\ UNCHANGED <<users, active, orgs, members, invitations>>

\* The role was read before; the user is not looked up.
UpsertMember(c, s) ==
    LET call == calls[c]
    IN /\ call.op = "upsertMember"
       /\ RequireOrganization(call.org)
       /\ RequireRole(call.role, call.org)
       /\ call.invitation # 0 => s = "active"
       /\ PutMember(call.user, call.org, call.role, s)
       /\ IF call.invitation = 0 THEN End(c) ELSE Go(c, [call EXCEPT !.op = "markAccepted"])
       /\ UNCHANGED <<users, active, orgs, roles, invitations>>

\* inviteMember: the role is read by its key, then the invitation is written.
\* The address comes with the call and is named where it is first used.
InviteMember(c, u, o, k) ==
    /\ calls[c] = NoCall
    /\ RequireUser(u)
    /\ \E r \in RolesBy(o, k) :
          Go(c, [op |-> "upsertInvitation", user |-> u, org |-> o, key |-> "none", role |-> r,
                 invitation |-> 0])
    /\ UNCHANGED <<users, active, orgVars>>

\* What upsertInvitation writes, with the status that inviteMember passes;
\* acceptedBy stays what it was.
Invite(i, call, e) ==
    invitations' = [invitations EXCEPT ![i] =
        [state |-> "live", org |-> call.org, role |-> call.role, email |-> e,
         status |-> "pending", lapsed |-> FALSE, acceptedBy |-> invitations[i].acceptedBy]]

\* Mutant: the role that was read is not looked up again.
InsertInvitation(c, e) ==
    LET call == calls[c]
    IN /\ call.op = "upsertInvitation"
       /\ RequireOrganization(call.org)
       /\ RequireUser(call.user)
       /\ \E i \in ExistingInvitations \cup FreshInvitations : Invite(i, call, e)
       /\ End(c)
       /\ UNCHANGED <<users, active, orgs, roles, members>>

\* An existing row is found by its id: inviteMember passes none and its token is
\* fresh, another host may.
UpsertInvitation(c, e) ==
    LET call == calls[c]
    IN /\ call.op = "upsertInvitation"
       /\ RequireOrganization(call.org)
       /\ RequireRole(call.role, call.org)
       /\ RequireUser(call.user)
       /\ \E i \in ExistingInvitations \cup FreshInvitations : Invite(i, call, e)
       /\ End(c)
       /\ UNCHANGED <<users, active, orgs, roles, members>>

\* redeemOrganizationInvitation: the invitation is read and judged, then come
\* the membership, the mark and the active organization.
ReadInvitation(c, u, i) ==
    LET invitation == invitations[i]
    IN /\ calls[c] = NoCall
       /\ RequireUser(u)
       /\ invitation.state = "live"
       /\ invitation.status = "pending"
       /\ ~invitation.lapsed
       /\ invitation.email = u
       /\ Go(c, [op |-> "upsertMember", user |-> u, org |-> invitation.org,
                 key |-> "none", role |-> invitation.role, invitation |-> i])
       /\ UNCHANGED <<users, active, orgVars>>

MarkInvitationAccepted(c) ==
    LET call == calls[c]
    IN /\ call.op = "markAccepted"
       /\ invitations[call.invitation].state = "live"
       /\ RequireUser(call.user)
       /\ invitations' = [invitations EXCEPT ![call.invitation].status = "accepted",
                                             ![call.invitation].acceptedBy = call.user]
       /\ Go(c, [call EXCEPT !.op = "setActive"])
       /\ UNCHANGED <<users, active, orgs, roles, members>>

SetActiveOrganization(c) ==
    LET call == calls[c]
    IN /\ call.op = "setActive"
       /\ RequireUser(call.user)
       /\ RequireOrganization(call.org)
       /\ \E m \in RowsOf(call.user, call.org) : members[m].status = "active"
       /\ active' = [active EXCEPT ![call.user] = call.org]
       /\ End(c)
       /\ UNCHANGED <<users, orgVars>>

\* Refused, or the isolate stops.
EndCall(c) ==
    /\ calls[c] # NoCall
    /\ End(c)
    /\ UNCHANGED <<users, active, orgVars>>

-----------------------------------------------------------------------------

UserStep ==
    \E u \in Users :
        \/ DeleteUser(u)
        \/ \E o \in Orgs : CreateOrganization(u, o)
        \/ \E o \in Orgs \cup {NoOrg} : SetUserActiveOrganization(u, o)

MemberStep ==
    \/ \E o \in Orgs, k \in Keys : EnsureRole(o, k)
    \/ \E r \in RoleIds : DeleteRole(r)
    \/ \E m \in MemberIds :
          \/ \E r \in RoleIds : SetMemberRole(m, r)
          \/ \E s \in Statuses : SetMemberStatus(m, s)

InvitationStep ==
    \E i \in InvitationIds :
        \/ Lapse(i)
        \/ MarkInvitationExpired(i)
        \/ RevokeInvitation(i)
        \/ ResendInvitation(i)
        \/ \E u \in Users : RedeemInvitation(u, i)

CallStep(c) ==
    \/ \E u \in Users, o \in Orgs, k \in Keys :
          \/ WriteMember(c, u, o, k)
          \/ InviteMember(c, u, o, k)
    \/ \E u \in Users, i \in InvitationIds : ReadInvitation(c, u, i)
    \/ /\ calls[c] # NoCall
       /\ \/ EnsureSystemRole(c)
          \/ \E s \in Statuses : UpsertMember(c, s)
          \/ \E e \in Users : UpsertInvitation(c, e)
          \/ MarkInvitationAccepted(c)
          \/ SetActiveOrganization(c)
    \/ EndCall(c)

Next == UserStep \/ MemberStep \/ InvitationStep \/ \E c \in Calls : CallStep(c)

Spec == Init /\ [][Next]_vars

-----------------------------------------------------------------------------
(* Properties *)

(* A user has one membership in an organization, whichever of redemption,  *)
(* the writers and the creation of the organization put him there, and     *)
(* however often: every lookup takes the first row and no index is unique. *)
OneRowPerUser ==
    \A u \in Users, o \in Orgs : \A m, n \in RowsOf(u, o) : m = n

HasRole(row) ==
    /\ orgs[row.org] = "live"
    /\ roles[row.role].state = "live"
    /\ roles[row.role].org = row.org

(* Every membership and every invitation names a role that exists in the   *)
(* organization it belongs to, which exists: across deleteRole, deleteUser *)
(* and a role that an action has read before.                              *)
RowsWhole ==
    /\ \A m \in MemberIds : members[m].user # Nobody => HasRole(members[m])
    /\ \A i \in InvitationIds : invitations[i].state = "live" => HasRole(invitations[i])

(* The active organization of a user exists and he has a membership in it, *)
(* also after other members were deleted: nothing resets the field.        *)
ActiveOrganizationIsMine ==
    \A u \in Users :
        active[u] # NoOrg => orgs[active[u]] = "live" /\ RowsOf(u, active[u]) # {}

(* A membership changes neither user nor organization, and ends with its   *)
(* user only: the deletion of another user never takes it along.           *)
MembershipEndsWithUser ==
    [][\A m \in MemberIds, u \in Users :
         members[m].user = u =>
            \/ members'[m].user = u /\ members'[m].org = members[m].org
            \/ u \in users \ users']_vars

(* An organization that loses its last membership is deleted with it, and  *)
(* with it its roles and invitations: nobody could reach them any more.    *)
AbandonedOrganizationsEnd ==
    [][\A o \in Orgs :
         /\ orgs'[o] = "live"
         /\ RowsIn(o) # {}
         => \E m \in MemberIds : members'[m].org = o]_vars
=============================================================================
