------------------------- MODULE Organizations_proofs -------------------------
(***************************************************************************)
(* What Organizations promises for every set of users, organizations and   *)
(* roles, and every number of rows and calls.                              *)
(*                                                                         *)
(* Every step but the deletion of a user keeps what rows refer to (Stays), *)
(* and adds or patches one membership at most; the lemmas on the tables    *)
(* are about that, and each action is one case of it.                      *)
(***************************************************************************)
EXTENDS Organizations, TLAPS

-----------------------------------------------------------------------------
(* The inductive invariant                                                 *)

\* A row in use names an organization and a role, a free one neither.
MembersPlaced ==
    \A m \in MemberIds :
        IF members[m].user = Nobody
        THEN members[m].org = NoOrg
        ELSE members[m].org \in Orgs /\ members[m].role \in RoleIds

MembersWhole == \A m \in MemberIds : members[m].user # Nobody => HasRole(members[m])

MembersGood == MembersPlaced /\ OneRowPerUser /\ MembersWhole

InvitationsGood ==
    \A i \in InvitationIds : invitations[i].state = "live" =>
        /\ invitations[i].org \in Orgs /\ invitations[i].role \in RoleIds
        /\ HasRole(invitations[i])

\* What a call has read before it comes to its next transaction.
CallsGood ==
    \A c \in Calls : calls[c] # NoCall =>
        /\ calls[c] \in Call
        /\ calls[c].op \in {"upsertMember", "upsertInvitation"} => calls[c].role \in RoleIds
        /\ calls[c].op = "markAccepted" => calls[c].invitation \in InvitationIds

IInv == OrgTypeOK /\ MembersGood /\ InvitationsGood /\ ActiveOrganizationIsMine /\ CallsGood

-----------------------------------------------------------------------------
(* What a step keeps                                                       *)

OrgsStay == \A o \in Orgs : orgs[o] = "live" => orgs'[o] = "live"

RolesStay ==
    \A r \in RoleIds : roles[r].state = "live" =>
        roles'[r].state = "live" /\ roles'[r].org = roles[r].org

RowsStay ==
    \A m \in MemberIds : members[m].user # Nobody =>
        members'[m].user = members[m].user /\ members'[m].org = members[m].org

InvitationsStay ==
    \A i \in InvitationIds : invitations'[i].state = "live" =>
        /\ invitations[i].state = "live"
        /\ invitations'[i].org = invitations[i].org
        /\ invitations'[i].role = invitations[i].role

\* The active organization is left, or set to one the user has a row in.
ActiveStays ==
    \A u \in Users :
        \/ active'[u] = active[u]
        \/ active'[u] = NoOrg
        \/ /\ orgs'[active'[u]] = "live"
           /\ \E m \in MemberIds : members'[m].user = u /\ members'[m].org = active'[u]

Stays == OrgsStay /\ RolesStay

LEMMA MembersUnchanged ==
    ASSUME IInv, Stays, UNCHANGED members PROVE MembersGood' /\ RowsStay
  <1>1. MembersPlaced' /\ OneRowPerUser'
    BY DEF IInv, MembersGood, MembersPlaced, OneRowPerUser, RowsOf
  <1>2. MembersWhole'
    BY DEF IInv, MembersGood, MembersPlaced, MembersWhole, HasRole, Stays, OrgsStay, RolesStay
  <1> QED BY <1>1, <1>2 DEF MembersGood, RowsStay

(* A field of a row is patched: a statement without primes for each table. *)
LEMMA PatchStatus ==
    ASSUME NEW f \in [MemberIds -> Member], NEW m \in MemberIds, NEW s \in Statuses, NEW g,
           g = [f EXCEPT ![m].status = s]
    PROVE  /\ g \in [MemberIds -> Member]
           /\ g[m].user = f[m].user /\ g[m].org = f[m].org
           /\ g[m].role = f[m].role /\ g[m].status = s
           /\ \A n \in MemberIds : n # m => g[n] = f[n]
  <1>1. g \in [MemberIds -> Member]
    BY DEF Member
  <1>2. g[m].user = f[m].user /\ g[m].org = f[m].org /\ g[m].role = f[m].role /\ g[m].status = s
    BY DEF Member
  <1>3. \A n \in MemberIds : n # m => g[n] = f[n]
    BY DEF Member
  <1> QED BY <1>1, <1>2, <1>3

LEMMA PatchAcceptedBy ==
    ASSUME NEW f \in [InvitationIds -> Invitation], NEW i \in InvitationIds, NEW u \in Users,
           NEW g, g = [f EXCEPT ![i].acceptedBy = u]
    PROVE  /\ g \in [InvitationIds -> Invitation]
           /\ g[i].org = f[i].org /\ g[i].role = f[i].role
           /\ \A j \in InvitationIds : j # i => g[j] = f[j]
  <1>1. g \in [InvitationIds -> Invitation]
    BY DEF Invitation
  <1>2. g[i].org = f[i].org /\ g[i].role = f[i].role
    BY DEF Invitation
  <1>3. \A j \in InvitationIds : j # i => g[j] = f[j]
    BY DEF Invitation
  <1> QED BY <1>1, <1>2, <1>3

LEMMA MemberRow ==
    ASSUME NEW row \in Member
    PROVE  row = [user |-> row.user, org |-> row.org, role |-> row.role, status |-> row.status]
  BY DEF Member

(* The one membership that an upsert patches or inserts. *)
LEMMA PutStep ==
    ASSUME IInv, Stays, NEW u \in Users, NEW o \in Orgs, NEW r \in RoleIds, NEW s \in Statuses,
           PutMember(u, o, r, s), orgs'[o] = "live",
           roles'[r].state = "live", roles'[r].org = o
    PROVE  /\ members' \in [MemberIds -> Member]
           /\ MembersGood' /\ RowsStay
           /\ \E m \in MemberIds : members'[m].user = u /\ members'[m].org = o
  <1>1. PICK m \in MemberIds :
           /\ \/ members[m].user = u /\ members[m].org = o
              \/ members[m].user = Nobody /\ RowsOf(u, o) = {}
           /\ members' = [members EXCEPT ![m] = [user |-> u, org |-> o, role |-> r, status |-> s]]
    <2>1. CASE \E m \in RowsOf(u, o) :
                  members' = [members EXCEPT ![m].role = r, ![m].status = s]
      <3> PICK m \in RowsOf(u, o) : members' = [members EXCEPT ![m].role = r, ![m].status = s]
        BY <2>1
      <3>1. m \in MemberIds /\ members[m].user = u /\ members[m].org = o /\ members[m] \in Member
        BY DEF RowsOf, IInv, OrgTypeOK
      <3>2. PICK mid : /\ mid = [members EXCEPT ![m].role = r]
                       /\ members' = [mid EXCEPT ![m].status = s]
        OBVIOUS
      <3>3. /\ mid \in [MemberIds -> Member]
            /\ mid[m].user = u /\ mid[m].org = o /\ mid[m].role = r
            /\ \A n \in MemberIds : n # m => mid[n] = members[n]
        BY <3>1, <3>2 DEF IInv, OrgTypeOK, Member
      <3>4. members' = [mid EXCEPT ![m].status = s]
        BY <3>2
      <3>5. /\ members' \in [MemberIds -> Member]
            /\ members'[m].user = u /\ members'[m].org = o
            /\ members'[m].role = r /\ members'[m].status = s
            /\ \A n \in MemberIds : n # m => members'[n] = members[n]
        <4>1. /\ members' \in [MemberIds -> Member]
              /\ members'[m].user = mid[m].user /\ members'[m].org = mid[m].org
              /\ members'[m].role = mid[m].role /\ members'[m].status = s
              /\ \A n \in MemberIds : n # m => members'[n] = mid[n]
          BY ONLY <3>1, <3>3, <3>4, s \in Statuses, PatchStatus
        <4> QED BY <3>3, <4>1
      <3>6. members'[m] = [user |-> u, org |-> o, role |-> r, status |-> s]
        <4>1. members'[m] \in Member
          BY <3>1, <3>5
        <4> QED BY <3>5, <4>1, MemberRow
      <3>7. members' = [members EXCEPT ![m] = members'[m]]
        BY <3>5 DEF IInv, OrgTypeOK
      <3> QED BY <3>1, <3>6, <3>7
    <2>2. CASE /\ RowsOf(u, o) = {}
               /\ \E m \in FreeMembers :
                     members' = [members EXCEPT ![m] =
                                   [user |-> u, org |-> o, role |-> r, status |-> s]]
      BY <2>2 DEF FreeMembers, Lowest
    <2> QED BY <2>1, <2>2 DEF PutMember
  <1> DEFINE new == [user |-> u, org |-> o, role |-> r, status |-> s]
  <1>2. /\ new \in Member /\ new.user = u /\ new.org = o /\ new.role = r /\ u # Nobody
        /\ members' = [members EXCEPT ![m] = new]
    BY <1>1, OrganizationsAssumption DEF Member, OrganizationsAssumption
  <1> HIDE DEF new
  <1>3. /\ members' \in [MemberIds -> Member] /\ members'[m] = new
        /\ \A n \in MemberIds : n # m => members'[n] = members[n]
    BY <1>2 DEF IInv, OrgTypeOK
  <1>4. RowsStay
    BY <1>1, <1>2, <1>3 DEF RowsStay
  <1>5. MembersPlaced'
    BY <1>2, <1>3 DEF IInv, MembersGood, MembersPlaced
  <1>6. OneRowPerUser'
    <2> SUFFICES ASSUME NEW v \in Users, NEW p \in Orgs, NEW a \in MemberIds, NEW b \in MemberIds,
                        members'[a].user = v, members'[a].org = p,
                        members'[b].user = v, members'[b].org = p, a # b
                 PROVE  FALSE
      BY DEF OneRowPerUser, RowsOf
    <2>1. CASE a # m /\ b # m
      BY <1>3, <2>1 DEF IInv, MembersGood, OneRowPerUser, RowsOf
    <2>2. \A n \in MemberIds : n # m /\ members[n].user = u /\ members[n].org = o => FALSE
      BY <1>1 DEF IInv, MembersGood, OneRowPerUser, RowsOf
    <2> QED BY <1>2, <1>3, <2>1, <2>2
  <1>7. MembersWhole'
    <2> SUFFICES ASSUME NEW n \in MemberIds, members'[n].user # Nobody
                 PROVE  /\ orgs'[members'[n].org] = "live"
                        /\ roles'[members'[n].role].state = "live"
                        /\ roles'[members'[n].role].org = members'[n].org
      BY DEF MembersWhole, HasRole
    <2>1. CASE n = m
      BY <1>2, <1>3, <2>1
    <2>2. CASE n # m
      BY <1>3, <2>2
      DEF IInv, MembersGood, MembersPlaced, MembersWhole, HasRole, Stays, OrgsStay, RolesStay
    <2> QED BY <2>1, <2>2
  <1> QED BY <1>2, <1>3, <1>4, <1>5, <1>6, <1>7 DEF MembersGood

LEMMA InvitationsKept ==
    ASSUME IInv, Stays, InvitationsStay PROVE InvitationsGood'
  BY DEF IInv, InvitationsGood, InvitationsStay, HasRole, Stays, OrgsStay, RolesStay

LEMMA ActiveKept ==
    ASSUME IInv, OrgTypeOK', OrgsStay, RowsStay, ActiveStays PROVE ActiveOrganizationIsMine'
  <1> SUFFICES ASSUME NEW u \in Users, active'[u] # NoOrg
               PROVE  /\ orgs'[active'[u]] = "live"
                      /\ \E m \in MemberIds : members'[m].user = u /\ members'[m].org = active'[u]
    BY DEF ActiveOrganizationIsMine, RowsOf
  <1>1. CASE active'[u] = active[u]
    <2>1. active[u] \in Orgs /\ orgs[active[u]] = "live"
      BY <1>1 DEF IInv, OrgTypeOK, ActiveOrganizationIsMine
    <2>2. PICK m \in MemberIds : members[m].user = u /\ members[m].org = active[u]
      BY <1>1 DEF IInv, ActiveOrganizationIsMine, RowsOf
    <2>3. members[m].user # Nobody
      BY <2>2, OrganizationsAssumption DEF OrganizationsAssumption
    <2> QED BY <1>1, <2>1, <2>2, <2>3 DEF OrgsStay, RowsStay
  <1> QED BY <1>1 DEF ActiveStays

(* The rows that ensureRoleInner answers, and those it leaves alone. *)
LEMMA EnsuredStep ==
    ASSUME OrgTypeOK, NEW o \in Orgs, NEW K \in SUBSET (Keys \cup {"none"}), NEW S, NEW f \in [K -> RoleIds],
           Ensured(o, K, S, f)
    PROVE  /\ roles' \in [RoleIds -> Role]
           /\ RolesStay
           /\ \A k \in K : roles'[f[k]].state = "live" /\ roles'[f[k]].org = o
  <1> DEFINE Key(r) == CHOOSE k \in K : f[k] = r
             new(r) == [state |-> "live", org |-> o, key |-> Key(r), system |-> Key(r) \in S]
  <1>1. roles' = [r \in RoleIds |-> IF \E k \in K : f[k] = r THEN new(r) ELSE roles[r]]
    BY DEF Ensured
  <1>2. ASSUME NEW r \in RoleIds, \E k \in K : f[k] = r PROVE Key(r) \in Keys \cup {"none"}
    BY <1>2
  <1> HIDE DEF Key
  <1>3. ASSUME NEW r \in RoleIds, \E k \in K : f[k] = r
        PROVE  new(r) \in Role /\ new(r).state = "live" /\ new(r).org = o
    BY <1>2, <1>3 DEF Role, Row
  <1> HIDE DEF new
  <1>4. roles' \in [RoleIds -> Role]
    BY <1>1, <1>3 DEF OrgTypeOK
  <1>5. \A k \in K : roles'[f[k]].state = "live" /\ roles'[f[k]].org = o
    BY <1>1, <1>3
  <1>6. ASSUME NEW k \in K, roles[f[k]].state = "live" PROVE roles[f[k]].org = o
    BY <1>6 DEF Ensured, RolesBy, FreshRoles
  <1>7. RolesStay
    BY <1>1, <1>3, <1>6 DEF RolesStay
  <1> QED BY <1>4, <1>5, <1>7

-----------------------------------------------------------------------------
(* The steps *)

Kept == IInv' /\ RowsStay

(* A step that neither moves a membership nor reads one. *)
LEMMA QuietStep ==
    ASSUME IInv, OrgTypeOK', CallsGood', Stays, UNCHANGED members, InvitationsStay, ActiveStays
    PROVE  Kept
  BY MembersUnchanged, InvitationsKept, ActiveKept DEF Kept, IInv, Stays

LEMMA CreateOrganizationStep ==
    ASSUME IInv, NEW u \in Users, NEW o \in Orgs, CreateOrganization(u, o)
    PROVE  Kept
  <1>1. PICK f \in [Keys -> RoleIds], k \in SystemKeys :
           Ensured(o, Keys, SystemKeys, f) /\ PutMember(u, o, f[k], "active")
    BY DEF CreateOrganization
  <1>2. /\ orgs' \in [Orgs -> Row] /\ OrgsStay /\ orgs'[o] = "live"
        /\ active' \in [Users -> Orgs \cup {NoOrg}]
        /\ \A v \in Users : active'[v] = active[v] \/ (v = u /\ active'[v] = o)
    BY DEF CreateOrganization, IInv, OrgTypeOK, OrgsStay, Row
  <1>3. k \in Keys /\ f[k] \in RoleIds /\ "active" \in Statuses
    BY OrganizationsAssumption DEF OrganizationsAssumption
  <1>4. /\ roles' \in [RoleIds -> Role] /\ RolesStay
        /\ roles'[f[k]].state = "live" /\ roles'[f[k]].org = o
    BY <1>1, <1>3, EnsuredStep DEF IInv
  <1>5. /\ members' \in [MemberIds -> Member]
        /\ MembersGood' /\ RowsStay
        /\ \E m \in MemberIds : members'[m].user = u /\ members'[m].org = o
    BY <1>1, <1>2, <1>3, <1>4, PutStep DEF Stays
  <1>6. InvitationsGood'
    BY <1>2, <1>4, InvitationsKept DEF CreateOrganization, Stays, InvitationsStay
  <1>7. OrgTypeOK' /\ CallsGood'
    BY <1>2, <1>4, <1>5 DEF CreateOrganization, IInv, OrgTypeOK, CallsGood
  <1>8. ActiveOrganizationIsMine'
    BY <1>2, <1>5, <1>7, ActiveKept DEF ActiveStays
  <1> QED BY <1>5, <1>6, <1>7, <1>8 DEF Kept, IInv

LEMMA SetUserActiveOrganizationStep ==
    ASSUME IInv, NEW u \in Users, NEW o \in Orgs \cup {NoOrg}, SetUserActiveOrganization(u, o)
    PROVE  Kept
  <1>1. OrgTypeOK' /\ CallsGood' /\ Stays /\ InvitationsStay
    BY DEF SetUserActiveOrganization, orgVars, IInv, OrgTypeOK, CallsGood, Stays, OrgsStay,
           RolesStay, InvitationsStay
  <1>2. ActiveStays
    BY DEF SetUserActiveOrganization, orgVars, RequireOrganization, RowsOf, ActiveStays,
           IInv, OrgTypeOK
  <1> QED BY <1>1, <1>2, QuietStep DEF SetUserActiveOrganization, orgVars

LEMMA EnsureRoleStep ==
    ASSUME IInv, NEW o \in Orgs, NEW k \in Keys, EnsureRole(o, k)
    PROVE  Kept
  <1>1. roles' \in [RoleIds -> Role] /\ RolesStay
    BY EnsuredStep DEF EnsureRole, IInv
  <1>2. OrgTypeOK' /\ CallsGood' /\ Stays /\ InvitationsStay /\ ActiveStays
    BY <1>1 DEF EnsureRole, IInv, OrgTypeOK, CallsGood, Stays, OrgsStay, InvitationsStay,
                ActiveStays
  <1> QED BY <1>2, QuietStep DEF EnsureRole

LEMMA Gone ==
    /\ [NoRole EXCEPT !.state = "gone"] \in Role
    /\ [NoRole EXCEPT !.state = "gone"].state = "gone"
    /\ [NoInvitation EXCEPT !.state = "gone"] \in Invitation
    /\ [NoInvitation EXCEPT !.state = "gone"].state = "gone"
    /\ NoMember \in Member /\ NoMember.user = Nobody /\ NoMember.org = NoOrg
  <1>1. NoRole \in Role /\ NoInvitation \in Invitation /\ NoMember \in Member
    BY OrganizationsAssumption
    DEF NoRole, Role, Row, NoInvitation, Invitation, InvitationStatus, NoMember, Member,
        OrganizationsAssumption
  <1>2. NoMember.user = Nobody /\ NoMember.org = NoOrg
    BY DEF NoMember
  <1> QED BY <1>1, <1>2 DEF Role, Row, Invitation

(* No membership and no live invitation names the role that is deleted. *)
LEMMA DeleteRoleStep ==
    ASSUME IInv, NEW r \in RoleIds, DeleteRole(r)
    PROVE  Kept
  <1> DEFINE gone == [NoRole EXCEPT !.state = "gone"]
  <1>1. gone \in Role /\ roles' = [roles EXCEPT ![r] = gone]
    BY Gone DEF DeleteRole
  <1> HIDE DEF gone
  <1>2. /\ roles' \in [RoleIds -> Role]
        /\ \A t \in RoleIds : t # r => roles'[t] = roles[t]
    BY <1>1 DEF IInv, OrgTypeOK
  <1>3. OrgTypeOK' /\ CallsGood' /\ OrgsStay /\ ActiveStays
    BY <1>2 DEF DeleteRole, IInv, OrgTypeOK, CallsGood, OrgsStay, ActiveStays
  <1>4. MembersGood' /\ RowsStay
    <2>1. MembersPlaced' /\ OneRowPerUser' /\ RowsStay
      BY DEF DeleteRole, IInv, MembersGood, MembersPlaced, OneRowPerUser, RowsOf, RowsStay
    <2>2. MembersWhole'
      BY <1>2 DEF DeleteRole, IInv, MembersGood, MembersPlaced, MembersWhole, HasRole
    <2> QED BY <2>1, <2>2 DEF MembersGood
  <1>5. InvitationsGood'
    BY <1>2 DEF DeleteRole, IInv, InvitationsGood, HasRole
  <1>6. ActiveOrganizationIsMine'
    BY <1>3, <1>4, ActiveKept
  <1> QED BY <1>3, <1>4, <1>5, <1>6 DEF Kept, IInv

(* The membership that is patched keeps its user and its organization. *)
LEMMA PatchStep ==
    ASSUME IInv, NEW m \in MemberIds, NEW row \in Member, members[m].user # Nobody,
           members' = [members EXCEPT ![m] = row],
           row.user = members[m].user, row.org = members[m].org,
           row.role \in RoleIds, HasRole(row),
           UNCHANGED <<users, active, orgs, roles, invitations, calls>>
    PROVE  Kept
  <1>1. /\ members' \in [MemberIds -> Member] /\ members'[m] = row
        /\ \A n \in MemberIds : n # m => members'[n] = members[n]
    BY DEF IInv, OrgTypeOK
  <1>2. OrgTypeOK' /\ CallsGood' /\ Stays /\ InvitationsStay /\ ActiveStays
    BY <1>1 DEF IInv, OrgTypeOK, CallsGood, Stays, OrgsStay, RolesStay, InvitationsStay, ActiveStays
  <1>3. RowsStay
    BY <1>1 DEF RowsStay
  <1>4. MembersPlaced'
    BY <1>1 DEF IInv, MembersGood, MembersPlaced
  <1>5. OneRowPerUser'
    BY <1>1 DEF IInv, MembersGood, OneRowPerUser, RowsOf
  <1>6. MembersWhole'
    BY <1>1 DEF IInv, MembersGood, MembersWhole, HasRole
  <1> QED
    BY <1>2, <1>3, <1>4, <1>5, <1>6, InvitationsKept, ActiveKept DEF Kept, IInv, MembersGood, Stays

LEMMA SetMemberRoleStep ==
    ASSUME IInv, NEW m \in MemberIds, NEW r \in RoleIds, SetMemberRole(m, r)
    PROVE  Kept
  <1> DEFINE row == [members[m] EXCEPT !.role = r]
  <1>1. members[m] \in Member
    BY DEF IInv, OrgTypeOK
  <1>2. /\ row \in Member /\ row.user = members[m].user /\ row.org = members[m].org
        /\ row.role = r
    BY <1>1 DEF Member
  <1>3. members' = [members EXCEPT ![m] = row]
    BY DEF SetMemberRole
  <1> HIDE DEF row
  <1>4. HasRole(row)
    BY <1>2 DEF SetMemberRole, RequireRole, HasRole, IInv, MembersGood, MembersWhole
  <1> QED BY <1>2, <1>3, <1>4, PatchStep DEF SetMemberRole

LEMMA SetMemberStatusStep ==
    ASSUME IInv, NEW m \in MemberIds, NEW s \in Statuses, SetMemberStatus(m, s)
    PROVE  Kept
  <1> DEFINE row == [members[m] EXCEPT !.status = s]
  <1>1. members[m] \in Member
    BY DEF IInv, OrgTypeOK
  <1>2. /\ row \in Member /\ row.user = members[m].user /\ row.org = members[m].org
        /\ row.role = members[m].role
    BY <1>1 DEF Member
  <1>3. members' = [members EXCEPT ![m] = row]
    BY DEF SetMemberStatus
  <1> HIDE DEF row
  <1>4. HasRole(row) /\ row.role \in RoleIds
    BY <1>2 DEF SetMemberStatus, HasRole, IInv, MembersGood, MembersPlaced, MembersWhole
  <1> QED BY <1>2, <1>3, <1>4, PatchStep DEF SetMemberStatus

(* Taking a free invitation, or marking one that exists. *)
LEMMA InvitationStepKeeps ==
    ASSUME IInv, invitations' \in [InvitationIds -> Invitation], InvitationsStay,
           UNCHANGED <<users, active, orgs, roles, members, calls>>
    PROVE  Kept
  <1>1. OrgTypeOK' /\ CallsGood' /\ Stays /\ ActiveStays
    BY DEF IInv, OrgTypeOK, CallsGood, Stays, OrgsStay, RolesStay, ActiveStays
  <1> QED BY <1>1, QuietStep

LEMMA MarkStep ==
    ASSUME IInv, NEW i \in InvitationIds, NEW row \in Invitation, invitations[i].state = "live",
           invitations' = [invitations EXCEPT ![i] = row],
           row.org = invitations[i].org, row.role = invitations[i].role
    PROVE  invitations' \in [InvitationIds -> Invitation] /\ InvitationsStay
  <1>1. /\ invitations' \in [InvitationIds -> Invitation] /\ invitations'[i] = row
        /\ \A j \in InvitationIds : j # i => invitations'[j] = invitations[j]
    BY DEF IInv, OrgTypeOK
  <1> QED BY <1>1 DEF InvitationsStay

LEMMA MarksStep ==
    ASSUME IInv, NEW i \in InvitationIds,
           Lapse(i) \/ MarkInvitationExpired(i) \/ RevokeInvitation(i) \/ ResendInvitation(i)
    PROVE  Kept
  <1>0. invitations[i] \in Invitation
    BY DEF IInv, OrgTypeOK
  <1>1. CASE Lapse(i) \/ ResendInvitation(i)
    <2>1. PICK b \in BOOLEAN : invitations' = [invitations EXCEPT ![i].lapsed = b]
      BY <1>1 DEF Lapse, ResendInvitation
    <2> DEFINE row == [invitations[i] EXCEPT !.lapsed = b]
    <2>2. /\ row \in Invitation /\ row.org = invitations[i].org /\ row.role = invitations[i].role
          /\ invitations' = [invitations EXCEPT ![i] = row]
      BY <1>0, <2>1 DEF Invitation
    <2> HIDE DEF row
    <2> QED BY <1>1, <2>2, MarkStep, InvitationStepKeeps DEF Lapse, ResendInvitation
  <1>2. CASE MarkInvitationExpired(i) \/ RevokeInvitation(i)
    <2>1. PICK s \in InvitationStatus : invitations' = [invitations EXCEPT ![i].status = s]
      BY <1>2 DEF MarkInvitationExpired, RevokeInvitation, InvitationStatus
    <2> DEFINE row == [invitations[i] EXCEPT !.status = s]
    <2>2. /\ row \in Invitation /\ row.org = invitations[i].org /\ row.role = invitations[i].role
          /\ invitations' = [invitations EXCEPT ![i] = row]
      BY <1>0, <2>1 DEF Invitation
    <2> HIDE DEF row
    <2> QED BY <1>2, <2>2, MarkStep, InvitationStepKeeps DEF MarkInvitationExpired, RevokeInvitation
  <1> QED BY <1>1, <1>2

(* An invitation is marked accepted, in whatever way it is done. *)
LEMMA AcceptedStep ==
    ASSUME IInv, NEW i \in InvitationIds, NEW u \in Users, invitations[i].state = "live",
           invitations' = [invitations EXCEPT ![i].status = "accepted", ![i].acceptedBy = u]
    PROVE  invitations' \in [InvitationIds -> Invitation] /\ InvitationsStay
  <1>1. PICK mid : /\ mid = [invitations EXCEPT ![i].status = "accepted"]
                   /\ invitations' = [mid EXCEPT ![i].acceptedBy = u]
    OBVIOUS
  <1>2. /\ mid \in [InvitationIds -> Invitation]
        /\ mid[i].org = invitations[i].org /\ mid[i].role = invitations[i].role
        /\ \A j \in InvitationIds : j # i => mid[j] = invitations[j]
    BY <1>1 DEF IInv, OrgTypeOK, Invitation, InvitationStatus
  <1>3. /\ invitations' \in [InvitationIds -> Invitation]
        /\ invitations'[i].org = invitations[i].org /\ invitations'[i].role = invitations[i].role
        /\ \A j \in InvitationIds : j # i => invitations'[j] = invitations[j]
    <2>1. /\ invitations' \in [InvitationIds -> Invitation]
          /\ invitations'[i].org = mid[i].org /\ invitations'[i].role = mid[i].role
          /\ \A j \in InvitationIds : j # i => invitations'[j] = mid[j]
      <3>1. invitations' = [mid EXCEPT ![i].acceptedBy = u]
        BY <1>1
      <3> QED BY ONLY <1>2, <3>1, i \in InvitationIds, u \in Users, PatchAcceptedBy
    <2> QED BY <1>2, <2>1
  <1> QED BY <1>3 DEF InvitationsStay

LEMMA RedeemInvitationStep ==
    ASSUME IInv, NEW u \in Users, NEW i \in InvitationIds, RedeemInvitation(u, i)
    PROVE  Kept
  <1> DEFINE o == invitations[i].org
             r == invitations[i].role
  <1>1. o \in Orgs /\ r \in RoleIds /\ HasRole(invitations[i])
    BY DEF RedeemInvitation, IInv, InvitationsGood
  <1>2. invitations' \in [InvitationIds -> Invitation] /\ InvitationsStay
    <2>1. CASE invitations' = invitations
      BY <2>1 DEF InvitationsStay, IInv, OrgTypeOK
    <2> QED BY <2>1, AcceptedStep DEF RedeemInvitation
  <1>3. OrgsStay /\ RolesStay /\ ActiveStays /\ CallsGood'
    BY DEF RedeemInvitation, OrgsStay, RolesStay, ActiveStays, CallsGood, IInv
  <1>4. PutMember(u, o, r, "active") /\ "active" \in Statuses
    BY OrganizationsAssumption DEF RedeemInvitation, OrganizationsAssumption
  <1>5. orgs'[o] = "live" /\ roles'[r].state = "live" /\ roles'[r].org = o
    BY <1>1 DEF RedeemInvitation, HasRole
  <1> HIDE DEF o, r
  <1>6. members' \in [MemberIds -> Member] /\ MembersGood' /\ RowsStay
    BY <1>1, <1>3, <1>4, <1>5, PutStep DEF Stays
  <1>7. OrgTypeOK'
    BY <1>2, <1>6 DEF RedeemInvitation, IInv, OrgTypeOK
  <1> QED BY <1>2, <1>3, <1>6, <1>7, InvitationsKept, ActiveKept DEF Kept, IInv, Stays

(* The deletion of a user takes whole organizations, and his own rows.      *)
LEMMA DeleteUserStep ==
    ASSUME IInv, NEW u \in Users, DeleteUser(u)
    PROVE  /\ IInv'
           /\ u \in users \ users'
           /\ \A m \in MemberIds : members[m].user \notin {u, Nobody} => members'[m] = members[m]
           /\ \A o \in Orgs :
                 orgs'[o] = "live" /\ RowsIn(o) # {} => \E m \in MemberIds : members'[m].org = o
  <1> DEFINE Dead == {o \in Orgs : orgs[o] = "live" /\ Abandoned(u, o)}
             goneRole == [NoRole EXCEPT !.state = "gone"]
             goneInvitation == [NoInvitation EXCEPT !.state = "gone"]
  <1>1. /\ goneRole \in Role /\ goneRole.state = "gone"
        /\ goneInvitation \in Invitation /\ goneInvitation.state = "gone"
        /\ NoMember \in Member /\ NoMember.user = Nobody /\ NoMember.org = NoOrg
    BY Gone
  <1>2. /\ u \in users /\ users' = users \ {u}
        /\ active' = [active EXCEPT ![u] = NoOrg]
        /\ orgs' = [o \in Orgs |-> IF o \in Dead THEN "gone" ELSE orgs[o]]
        /\ roles' = [r \in RoleIds |-> IF roles[r].org \in Dead THEN goneRole ELSE roles[r]]
        /\ members' = [m \in MemberIds |->
                         IF members[m].user = u \/ members[m].org \in Dead THEN NoMember
                         ELSE members[m]]
        /\ invitations' = [i \in InvitationIds |->
                             IF invitations[i].org \in Dead THEN goneInvitation
                             ELSE invitations[i]]
        /\ calls' = calls
    BY DEF DeleteUser
  <1>3. \A o \in Dead : /\ o \in Orgs /\ orgs[o] = "live"
                        /\ \A m \in MemberIds : members[m].org = o => members[m].user = u
    BY DEF Abandoned, RowsIn
  <1>4. \A o \in Orgs : (/\ orgs[o] = "live"
                         /\ \A m \in MemberIds : members[m].org = o => members[m].user = u
                         /\ \E m \in MemberIds : members[m].org = o)
                        => o \in Dead
    BY DEF Abandoned, RowsOf, RowsIn
  <1> HIDE DEF Dead, goneRole, goneInvitation
  <1>5. OrgTypeOK'
    BY <1>1, <1>2 DEF IInv, OrgTypeOK, Row
  <1>6. CallsGood'
    BY <1>2 DEF IInv, CallsGood
  <1>7. \A m \in MemberIds : members[m].user \notin {u, Nobody} =>
           members[m].org \notin Dead /\ members'[m] = members[m]
    BY <1>2, <1>3
  <1>8. \A m \in MemberIds : members'[m].user # Nobody =>
           members[m].user \notin {u, Nobody} /\ members[m].org \notin Dead /\ members'[m] = members[m]
    BY <1>1, <1>2
  <1>9. MembersGood'
    <2>1. MembersPlaced'
      BY <1>1, <1>2 DEF IInv, MembersGood, MembersPlaced
    <2>2. OneRowPerUser'
      BY <1>8, OrganizationsAssumption
      DEF OrganizationsAssumption, IInv, MembersGood, OneRowPerUser, RowsOf
    <2>3. MembersWhole'
      BY <1>2, <1>8 DEF IInv, MembersGood, MembersPlaced, MembersWhole, HasRole
    <2> QED BY <2>1, <2>2, <2>3 DEF MembersGood
  <1>10. InvitationsGood'
    BY <1>1, <1>2 DEF IInv, InvitationsGood, HasRole
  <1>11. ActiveOrganizationIsMine'
    <2> SUFFICES ASSUME NEW v \in Users, active'[v] # NoOrg
                 PROVE  /\ orgs'[active'[v]] = "live"
                        /\ \E m \in MemberIds : members'[m].user = v /\ members'[m].org = active'[v]
      BY DEF ActiveOrganizationIsMine, RowsOf
    <2>1. v # u /\ active'[v] = active[v] /\ active[v] \in Orgs
      BY <1>2 DEF IInv, OrgTypeOK
    <2>2. orgs[active[v]] = "live"
      BY <2>1 DEF IInv, ActiveOrganizationIsMine
    <2>3. PICK m \in MemberIds : members[m].user = v /\ members[m].org = active[v]
      BY <2>1 DEF IInv, ActiveOrganizationIsMine, RowsOf
    <2>4. members[m].org \notin Dead /\ members'[m] = members[m]
      BY <1>7, <2>1, <2>3, OrganizationsAssumption DEF OrganizationsAssumption
    <2> QED BY <1>2, <2>1, <2>2, <2>3, <2>4
  <1>12. ASSUME NEW o \in Orgs, orgs'[o] = "live", RowsIn(o) # {}
         PROVE  \E m \in MemberIds : members'[m].org = o
    <2>1. o \notin Dead /\ orgs[o] = "live"
      BY <1>2, <1>12
    <2>2. PICK m \in MemberIds : members[m].org = o /\ members[m].user # u
      BY <1>4, <1>12, <2>1 DEF RowsIn
    <2> QED BY <1>2, <2>1, <2>2
  <1> QED BY <1>2, <1>5, <1>6, <1>7, <1>9, <1>10, <1>11, <1>12 DEF IInv

-----------------------------------------------------------------------------
(* The transactions of a call                                              *)

\* The call after its transaction: over, or at the next one.
LEMMA CallPut ==
    ASSUME IInv, NEW c \in Calls, NEW call \in Call \cup {NoCall},
           calls' = [calls EXCEPT ![c] = call],
           call # NoCall =>
               /\ call \in Call
               /\ call.op \in {"upsertMember", "upsertInvitation"} => call.role \in RoleIds
               /\ call.op = "markAccepted" => call.invitation \in InvitationIds
    PROVE  calls' \in [Calls -> Call \cup {NoCall}] /\ CallsGood'
  <1>1. /\ calls' \in [Calls -> Call \cup {NoCall}] /\ calls'[c] = call
        /\ \A d \in Calls : d # c => calls'[d] = calls[d]
    BY DEF IInv, OrgTypeOK
  <1> QED BY <1>1 DEF IInv, CallsGood

LEMMA EndPut ==
    ASSUME IInv, NEW c \in Calls, End(c)
    PROVE  calls' \in [Calls -> Call \cup {NoCall}] /\ CallsGood'
  BY CallPut DEF End

\* Only the call moves on.
LEMMA CallOnly ==
    ASSUME IInv, calls' \in [Calls -> Call \cup {NoCall}], CallsGood',
           UNCHANGED <<users, active, orgs, roles, members, invitations>>
    PROVE  Kept
  <1>1. OrgTypeOK' /\ Stays /\ InvitationsStay /\ ActiveStays
    BY DEF IInv, OrgTypeOK, Stays, OrgsStay, RolesStay, InvitationsStay, ActiveStays
  <1> QED BY <1>1, QuietStep

LEMMA WriteMemberStep ==
    ASSUME IInv, NEW c \in Calls, NEW u \in Users, NEW o \in Orgs, NEW k \in Keys,
           WriteMember(c, u, o, k)
    PROVE  Kept
  <1> DEFINE call == [op |-> "ensureRole", user |-> u, org |-> o, key |-> k, role |-> 0,
                      invitation |-> 0]
  <1>1. call \in Call /\ call.op = "ensureRole" /\ calls' = [calls EXCEPT ![c] = call]
    BY DEF WriteMember, Go, Call
  <1> HIDE DEF call
  <1>2. calls' \in [Calls -> Call \cup {NoCall}] /\ CallsGood'
    BY <1>1, CallPut
  <1>3. OrgTypeOK' /\ Stays /\ InvitationsStay /\ ActiveStays
    BY <1>2 DEF WriteMember, IInv, OrgTypeOK, Row, Stays, OrgsStay, RolesStay, InvitationsStay,
                ActiveStays
  <1> QED BY <1>2, <1>3, QuietStep DEF WriteMember

LEMMA EnsureSystemRoleStep ==
    ASSUME IInv, NEW c \in Calls, calls[c] # NoCall, EnsureSystemRole(c)
    PROVE  Kept
  <1> DEFINE was == calls[c]
  <1>1. was \in Call /\ was.org \in Orgs /\ was.key \in Keys \cup {"none"}
    BY DEF IInv, CallsGood, Call
  <1>2. PICK f \in [{was.key} -> RoleIds] :
           /\ Ensured(was.org, {was.key}, {was.key}, f)
           /\ Go(c, [was EXCEPT !.op = "upsertMember", !.key = "none", !.role = f[was.key]])
    BY DEF EnsureSystemRole
  <1> HIDE DEF was
  <1>3. roles' \in [RoleIds -> Role] /\ RolesStay
    BY <1>1, <1>2, EnsuredStep DEF IInv
  <1> DEFINE call == [was EXCEPT !.op = "upsertMember", !.key = "none", !.role = f[was.key]]
  <1>4. /\ call \in Call /\ call.op = "upsertMember" /\ call.role \in RoleIds
        /\ calls' = [calls EXCEPT ![c] = call]
    BY <1>1, <1>2 DEF Go, Call
  <1> HIDE DEF call
  <1>5. calls' \in [Calls -> Call \cup {NoCall}] /\ CallsGood'
    BY <1>4, CallPut
  <1>6. OrgTypeOK' /\ OrgsStay /\ InvitationsStay /\ ActiveStays
    BY <1>3, <1>5 DEF EnsureSystemRole, IInv, OrgTypeOK, OrgsStay, InvitationsStay, ActiveStays
  <1> QED BY <1>3, <1>5, <1>6, QuietStep DEF EnsureSystemRole, Stays

(* The role and the organization of the call are looked up again before    *)
(* the membership is written: they may be gone since.                      *)
LEMMA UpsertMemberStep ==
    ASSUME IInv, NEW c \in Calls, calls[c] # NoCall, NEW s \in Statuses, UpsertMember(c, s)
    PROVE  Kept
  <1> DEFINE was == calls[c]
  <1>1. /\ was \in Call /\ was.op = "upsertMember" /\ was.role \in RoleIds
        /\ was.org \in Orgs /\ was.user \in Users /\ was.invitation \in InvitationIds \cup {0}
    BY DEF UpsertMember, IInv, CallsGood, Call
  <1>2. /\ RequireOrganization(was.org) /\ RequireRole(was.role, was.org)
        /\ PutMember(was.user, was.org, was.role, s)
        /\ IF was.invitation = 0 THEN End(c) ELSE Go(c, [was EXCEPT !.op = "markAccepted"])
    BY DEF UpsertMember
  <1> HIDE DEF was
  <1>3. calls' \in [Calls -> Call \cup {NoCall}] /\ CallsGood'
    <2>1. CASE was.invitation = 0
      BY <1>2, <2>1, EndPut
    <2>2. CASE was.invitation # 0
      <3> DEFINE call == [was EXCEPT !.op = "markAccepted"]
      <3>1. /\ call \in Call /\ call.op = "markAccepted" /\ call.invitation \in InvitationIds
            /\ calls' = [calls EXCEPT ![c] = call]
        BY <1>1, <1>2, <2>2 DEF Go, Call
      <3> HIDE DEF call
      <3> QED BY <3>1, CallPut
    <2> QED BY <2>1, <2>2
  <1>4. OrgsStay /\ RolesStay /\ InvitationsStay /\ ActiveStays
    BY DEF UpsertMember, OrgsStay, RolesStay, InvitationsStay, ActiveStays
  <1>5. /\ orgs'[was.org] = "live"
        /\ roles'[was.role].state = "live" /\ roles'[was.role].org = was.org
    BY <1>2 DEF UpsertMember, RequireOrganization, RequireRole
  <1>6. members' \in [MemberIds -> Member] /\ MembersGood' /\ RowsStay
    BY <1>1, <1>2, <1>4, <1>5, PutStep DEF Stays
  <1>7. OrgTypeOK'
    BY <1>3, <1>6 DEF UpsertMember, IInv, OrgTypeOK
  <1> QED BY <1>3, <1>4, <1>6, <1>7, InvitationsKept, ActiveKept DEF Kept, IInv, Stays

LEMMA InviteMemberStep ==
    ASSUME IInv, NEW c \in Calls, NEW u \in Users, NEW o \in Orgs,
           NEW k \in Keys, InviteMember(c, u, o, k)
    PROVE  Kept
  <1>1. PICK r \in RoleIds :
           Go(c, [op |-> "upsertInvitation", user |-> u, org |-> o, key |-> "none", role |-> r,
                  invitation |-> 0])
    BY DEF InviteMember, RolesBy
  <1> DEFINE call == [op |-> "upsertInvitation", user |-> u, org |-> o, key |-> "none", role |-> r,
                      invitation |-> 0]
  <1>2. /\ call \in Call /\ call.op = "upsertInvitation" /\ call.role = r
        /\ calls' = [calls EXCEPT ![c] = call]
    BY <1>1 DEF Go, Call
  <1> HIDE DEF call
  <1>3. calls' \in [Calls -> Call \cup {NoCall}] /\ CallsGood'
    BY <1>2, CallPut
  <1> QED BY <1>3, CallOnly DEF InviteMember, orgVars

(* The invitation that is written names a role that was looked up just now. *)
LEMMA UpsertInvitationStep ==
    ASSUME IInv, NEW c \in Calls, NEW e \in Users, calls[c] # NoCall, UpsertInvitation(c, e)
    PROVE  Kept
  <1> DEFINE was == calls[c]
  <1>1. /\ was \in Call /\ was.role \in RoleIds
        /\ was.org \in Orgs
    BY DEF UpsertInvitation, IInv, CallsGood, Call
  <1>2. PICK i \in InvitationIds : Invite(i, was, e)
    BY DEF UpsertInvitation, ExistingInvitations, FreshInvitations, Lowest
  <1> DEFINE row == [state |-> "live", org |-> was.org, role |-> was.role, email |-> e,
                     status |-> "pending", lapsed |-> FALSE,
                     acceptedBy |-> invitations[i].acceptedBy]
  <1>3. orgs[was.org] = "live" /\ roles[was.role].state = "live" /\ roles[was.role].org = was.org
    BY DEF UpsertInvitation, RequireOrganization, RequireRole
  <1>4. row \in Invitation /\ row.org = was.org /\ row.role = was.role
    BY <1>1 DEF Invitation, InvitationStatus, Row, IInv, OrgTypeOK
  <1>5. invitations' = [invitations EXCEPT ![i] = row]
    BY <1>2 DEF Invite
  <1> HIDE DEF was, row
  <1>6. /\ invitations' \in [InvitationIds -> Invitation] /\ invitations'[i] = row
        /\ \A j \in InvitationIds : j # i => invitations'[j] = invitations[j]
    BY <1>4, <1>5 DEF IInv, OrgTypeOK
  <1>7. calls' \in [Calls -> Call \cup {NoCall}] /\ CallsGood'
    BY EndPut DEF UpsertInvitation
  <1>8. OrgTypeOK' /\ Stays /\ ActiveStays /\ UNCHANGED members
    BY <1>6, <1>7 DEF UpsertInvitation, IInv, OrgTypeOK, Stays, OrgsStay, RolesStay, ActiveStays
  <1>9. InvitationsGood'
    BY <1>1, <1>3, <1>4, <1>6 DEF UpsertInvitation, IInv, InvitationsGood, HasRole
  <1> QED BY <1>7, <1>8, <1>9, MembersUnchanged, ActiveKept DEF Kept, IInv, Stays

LEMMA ReadInvitationStep ==
    ASSUME IInv, NEW c \in Calls, NEW u \in Users, NEW i \in InvitationIds,
           ReadInvitation(c, u, i)
    PROVE  Kept
  <1> DEFINE call == [op |-> "upsertMember", user |-> u, org |-> invitations[i].org,
                      key |-> "none", role |-> invitations[i].role,
                      invitation |-> i]
  <1>1. invitations[i].org \in Orgs /\ invitations[i].role \in RoleIds
    BY DEF ReadInvitation, IInv, InvitationsGood
  <1>2. /\ call \in Call /\ call.op = "upsertMember" /\ call.role \in RoleIds
        /\ calls' = [calls EXCEPT ![c] = call]
    BY <1>1 DEF ReadInvitation, Go, Call
  <1> HIDE DEF call
  <1>3. calls' \in [Calls -> Call \cup {NoCall}] /\ CallsGood'
    BY <1>2, CallPut
  <1> QED BY <1>3, CallOnly DEF ReadInvitation, orgVars

LEMMA MarkInvitationAcceptedStep ==
    ASSUME IInv, NEW c \in Calls, calls[c] # NoCall, MarkInvitationAccepted(c)
    PROVE  Kept
  <1> DEFINE was == calls[c]
  <1>1. was \in Call /\ was.invitation \in InvitationIds /\ was.user \in Users
    BY DEF MarkInvitationAccepted, IInv, CallsGood, Call
  <1>2. /\ invitations[was.invitation].state = "live"
        /\ invitations' = [invitations EXCEPT ![was.invitation].status = "accepted",
                                             ![was.invitation].acceptedBy = was.user]
        /\ Go(c, [was EXCEPT !.op = "setActive"])
    BY DEF MarkInvitationAccepted
  <1> HIDE DEF was
  <1>3. invitations' \in [InvitationIds -> Invitation] /\ InvitationsStay
    BY <1>1, <1>2, AcceptedStep
  <1> DEFINE call == [was EXCEPT !.op = "setActive"]
  <1>4. call \in Call /\ call.op = "setActive" /\ calls' = [calls EXCEPT ![c] = call]
    BY <1>1, <1>2 DEF Go, Call
  <1> HIDE DEF call
  <1>5. calls' \in [Calls -> Call \cup {NoCall}] /\ CallsGood'
    BY <1>4, CallPut
  <1>6. OrgTypeOK' /\ Stays /\ ActiveStays /\ UNCHANGED members
    BY <1>3, <1>5 DEF MarkInvitationAccepted, IInv, OrgTypeOK, Stays, OrgsStay, RolesStay,
                      ActiveStays
  <1> QED BY <1>3, <1>5, <1>6, QuietStep

LEMMA SetActiveOrganizationStep ==
    ASSUME IInv, NEW c \in Calls, calls[c] # NoCall, SetActiveOrganization(c)
    PROVE  Kept
  <1> DEFINE was == calls[c]
  <1>1. was.user \in Users /\ was.org \in Orgs
    BY DEF IInv, CallsGood, Call
  <1>2. /\ orgs[was.org] = "live" /\ RowsOf(was.user, was.org) # {}
        /\ active' = [active EXCEPT ![was.user] = was.org]
    BY DEF SetActiveOrganization, RequireOrganization
  <1> HIDE DEF was
  <1>3. calls' \in [Calls -> Call \cup {NoCall}] /\ CallsGood'
    BY EndPut DEF SetActiveOrganization
  <1>4. UNCHANGED <<users, orgs, roles, members, invitations>>
    BY DEF SetActiveOrganization, orgVars
  <1>5. OrgTypeOK' /\ Stays /\ InvitationsStay
    BY <1>1, <1>2, <1>3, <1>4 DEF IInv, OrgTypeOK, Stays, OrgsStay, RolesStay, InvitationsStay
  <1>6. ActiveStays
    BY <1>1, <1>2, <1>4 DEF ActiveStays, RowsOf, IInv, OrgTypeOK
  <1> QED BY <1>3, <1>4, <1>5, <1>6, QuietStep

LEMMA EndCallStep ==
    ASSUME IInv, NEW c \in Calls, EndCall(c)
    PROVE  Kept
  BY EndPut, CallOnly DEF EndCall, orgVars

-----------------------------------------------------------------------------
(* The inductive step                                                      *)

LEMMA InvInit == Init => IInv
  <1> SUFFICES ASSUME Init PROVE IInv
    OBVIOUS
  <1>1. /\ NoRole \in Role /\ NoInvitation \in Invitation /\ NoMember \in Member
        /\ NoMember.user = Nobody /\ NoMember.org = NoOrg /\ NoInvitation.state = "none"
    BY OrganizationsAssumption
    DEF NoRole, Role, Row, NoInvitation, Invitation, InvitationStatus, NoMember, Member,
        OrganizationsAssumption
  <1>2. OrgTypeOK
    BY <1>1 DEF Init, OrgTypeOK, Row
  <1>3. MembersGood
    BY <1>1, OrganizationsAssumption
    DEF OrganizationsAssumption, Init, MembersGood, MembersPlaced, OneRowPerUser, RowsOf,
        MembersWhole
  <1>4. InvitationsGood /\ ActiveOrganizationIsMine /\ CallsGood
    BY <1>1 DEF Init, InvitationsGood, ActiveOrganizationIsMine, CallsGood
  <1> QED BY <1>2, <1>3, <1>4 DEF IInv

\* Every step but the deletion of a user.
LEMMA OtherSteps ==
    ASSUME IInv, [Next]_vars, \A u \in Users : ~DeleteUser(u)
    PROVE  Kept
  <1>1. CASE UserStep
    BY <1>1, CreateOrganizationStep, SetUserActiveOrganizationStep DEF UserStep
  <1>2. CASE MemberStep
    BY <1>2, EnsureRoleStep, DeleteRoleStep, SetMemberRoleStep, SetMemberStatusStep DEF MemberStep
  <1>3. CASE InvitationStep
    BY <1>3, MarksStep, RedeemInvitationStep DEF InvitationStep
  <1>4. ASSUME NEW c \in Calls, CallStep(c) PROVE Kept
    BY <1>4, WriteMemberStep, InviteMemberStep, ReadInvitationStep, EnsureSystemRoleStep,
       UpsertMemberStep, UpsertInvitationStep, MarkInvitationAcceptedStep,
       SetActiveOrganizationStep, EndCallStep
    DEF CallStep
  <1>5. CASE UNCHANGED vars
    <2>1. UNCHANGED <<users, active, orgs, roles, members, invitations, calls>>
      BY <1>5 DEF vars, orgVars
    <2>2. OrgTypeOK' /\ CallsGood' /\ Stays /\ InvitationsStay /\ ActiveStays
      BY <2>1 DEF IInv, OrgTypeOK, CallsGood, Stays, OrgsStay, RolesStay, InvitationsStay,
                  ActiveStays
    <2> QED BY <2>1, <2>2, QuietStep
  <1> QED BY <1>1, <1>2, <1>3, <1>4, <1>5 DEF Next

LEMMA InvStep == IInv /\ [Next]_vars => IInv'
  <1> SUFFICES ASSUME IInv, [Next]_vars PROVE IInv'
    OBVIOUS
  <1>1. CASE \E u \in Users : DeleteUser(u)
    BY <1>1, DeleteUserStep
  <1> QED BY <1>1, OtherSteps DEF Kept

(* The invariant of organizations, their rows and the calls that write     *)
(* them holds in every reachable state.                                    *)
THEOREM Invariance == Spec => []IInv
  BY InvInit, InvStep, PTL DEF Spec

-----------------------------------------------------------------------------

(* Every row and every call in progress of organizations.ts and of the     *)
(* actions that call it has the shape its table and its arguments declare. *)
THEOREM TypeCorrect == Spec => []OrgTypeOK
  <1>1. IInv => OrgTypeOK
    BY DEF IInv
  <1> QED BY Invariance, <1>1, PTL

(* A user has one membership in an organization at most, whichever of      *)
(* upsertMember, redemption and createOrganization put it there.           *)
THEOREM OneRow == Spec => []OneRowPerUser
  <1>1. IInv => OneRowPerUser
    BY DEF IInv, MembersGood
  <1> QED BY Invariance, <1>1, PTL

(* Memberships and invitations name roles of their own organization that   *)
(* exist: deleteRole and deleteUser leave none behind, and no action that  *)
(* has read a role before brings one back.                                 *)
THEOREM Whole == Spec => []RowsWhole
  <1>1. IInv => RowsWhole
    BY DEF IInv, MembersGood, MembersWhole, InvitationsGood, RowsWhole
  <1> QED BY Invariance, <1>1, PTL

(* The active organization exists, and the user has a membership in it.    *)
THEOREM ActiveIsMine == Spec => []ActiveOrganizationIsMine
  <1>1. IInv => ActiveOrganizationIsMine
    BY DEF IInv
  <1> QED BY Invariance, <1>1, PTL

(* A membership keeps its user and organization and ends with its user     *)
(* only, whomever deleteUser deletes.                                      *)
THEOREM EndsWithUser == Spec => MembershipEndsWithUser
  <1>1. ASSUME IInv, [Next]_vars
        PROVE  [\A m \in MemberIds, u \in Users :
                  members[m].user = u =>
                     \/ members'[m].user = u /\ members'[m].org = members[m].org
                     \/ u \in users \ users']_vars
    <2> SUFFICES ASSUME NEW m \in MemberIds, NEW u \in Users, members[m].user = u
                 PROVE  \/ members'[m].user = u /\ members'[m].org = members[m].org
                        \/ u \in users \ users'
      OBVIOUS
    <2>1. u # Nobody
      BY OrganizationsAssumption DEF OrganizationsAssumption
    <2>2. CASE \E v \in Users : DeleteUser(v)
      BY <1>1, <2>1, <2>2, DeleteUserStep
    <2> QED BY <1>1, <2>1, <2>2, OtherSteps DEF Kept, RowsStay
  <1> QED BY Invariance, <1>1, PTL DEF Spec, MembershipEndsWithUser

(* deleteUser takes along every organization that is left without members. *)
THEOREM AbandonedEnd == Spec => AbandonedOrganizationsEnd
  <1>1. ASSUME IInv, [Next]_vars
        PROVE  [\A o \in Orgs :
                  /\ orgs'[o] = "live"
                  /\ RowsIn(o) # {}
                  => \E m \in MemberIds : members'[m].org = o]_vars
    <2> SUFFICES ASSUME NEW o \in Orgs, orgs'[o] = "live", RowsIn(o) # {}
                 PROVE  \E m \in MemberIds : members'[m].org = o
      OBVIOUS
    <2>1. CASE \E v \in Users : DeleteUser(v)
      BY <1>1, <2>1, DeleteUserStep
    <2>2. CASE \A v \in Users : ~DeleteUser(v)
      <3>1. PICK m \in MemberIds : members[m].org = o
        BY DEF RowsIn
      <3>2. members[m].user # Nobody
        BY <1>1, <3>1, OrganizationsAssumption
        DEF OrganizationsAssumption, IInv, MembersGood, MembersPlaced
      <3> QED BY <1>1, <2>2, <3>1, <3>2, OtherSteps DEF Kept, RowsStay
    <2> QED BY <2>1, <2>2
  <1> QED BY Invariance, <1>1, PTL DEF Spec, AbandonedOrganizationsEnd
=============================================================================
