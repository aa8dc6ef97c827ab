----------------------------- MODULE StaffRoles -----------------------------
(***************************************************************************)
(* Staff accounts and their roles (src/modules/identity-access): who may   *)
(* do what, who may give it, and the superadmin that must always remain.   *)
(* A request reads accounts and roles without locks, checks what its actor *)
(* may give, and saves at the end of its transaction if what it changes    *)
(* kept its version.  Only the count of superadmins is under a lock.       *)
(***************************************************************************)
EXTENDS Naturals, FiniteSets

CONSTANTS
  Staff,
  Superadmin, Roles,      \* the protected role, and the others
  Permissions,            \* the catalog of permission codes
  SuperadminOnly,         \* those that only the superadmin role has
  StaffManage, RolesManage,
  InitialRoles,           \* the permissions of the roles of the migrations; None for a role nobody has created
  AdminRequests,          \* requests served at the same time
  Nobody

ASSUME StaffRolesAssumption ==
  /\ Superadmin \notin Roles /\ SuperadminOnly \subseteq Permissions
  /\ StaffManage \in Permissions /\ RolesManage \in Permissions
  /\ InitialRoles \in [Roles -> (SUBSET (Permissions \ SuperadminOnly)) \cup {{Nobody}}]
  /\ Nobody \notin Staff \cup Permissions \cup Roles

VARIABLES
  staff,      \* users of type STAFF: status and roles
  role,       \* role_permissions of each role but the superadmin's; {Nobody} while it does not exist
  request,    \* what each request read and is about to save
  crowned,    \* history: whom the script or a superadmin made superadmins
  delegated,  \* history: the permissions that superadmins gave to others
  revived,    \* history: the permissions that, without a superadmin, came back with a role deleted while it was being edited
  founders    \* history: how many superadmins the script created

staffVars == <<staff, role, request, crowned, delegated, revived, founders>>

AllRoles == Roles \cup {Superadmin}
NoRole == {Nobody}
StaffKinds == {"idle", "createStaff", "firstSuperadmin", "replaceRoles", "suspendStaff", "reactivateStaff",
               "createRole", "updateRole", "deleteRole"}
StaffRequest == [kind : StaffKinds, super : BOOLEAN, member : Staff \cup {Nobody},
                 role : AllRoles \cup {Nobody}, roles : SUBSET AllRoles, permissions : SUBSET Permissions,
                 fresh : BOOLEAN, locked : BOOLEAN]
toSave(kind, super, member, r, roles, permissions, locked) ==
  [kind |-> kind, super |-> super, member |-> member, role |-> r, roles |-> roles, permissions |-> permissions,
   fresh |-> TRUE, locked |-> locked]
Rest == toSave("idle", FALSE, Nobody, Nobody, {}, {}, FALSE)

\* Members of the staff have roles while they exist, no role but the superadmin's has what only that one may have.
StaffTypeOK ==
  /\ staff \in [Staff -> [status : {"NONE", "ACTIVE", "SUSPENDED"}, roles : SUBSET AllRoles]]
  /\ \A s \in Staff : staff[s].status # "NONE" => staff[s].roles # {}
  /\ role \in [Roles -> (SUBSET (Permissions \ SuperadminOnly)) \cup {NoRole}]
  /\ request \in [AdminRequests -> StaffRequest]
  /\ crowned \subseteq Staff /\ delegated \subseteq Permissions /\ revived \subseteq Permissions /\ founders \in Nat

StaffInit ==
  /\ staff = [s \in Staff |-> [status |-> "NONE", roles |-> {}]]
  /\ role = InitialRoles
  /\ request = [p \in AdminRequests |-> Rest]
  /\ crowned = {} /\ delegated = {} /\ revived = {} /\ founders = 0

-----------------------------------------------------------------------------
(* What a member of the staff holds, and may give. *)

roleExists(r) == IF r = Superadmin THEN TRUE ELSE role[r] # NoRole
rolePermissions(r) == IF r = Superadmin THEN Permissions ELSE role[r] \ NoRole
effectivePermissions(s) ==
  IF s # Nobody /\ staff[s].status = "ACTIVE" THEN UNION {rolePermissions(r) : r \in staff[s].roles} ELSE {}
isSuperadmin(s) == s # Nobody /\ staff[s].status = "ACTIVE" /\ Superadmin \in staff[s].roles
Superadmins == {s \in Staff : isSuperadmin(s)}

assertCanGrantPermissions(a, permissions) == permissions \subseteq effectivePermissions(a)
assertCanGrantRoles(a, roles) ==
  \A r \in roles : IF r = Superadmin THEN isSuperadmin(a) ELSE assertCanGrantPermissions(a, rolePermissions(r))

validPermissions(permissions) == permissions \cap SuperadminOnly = {}

\* lockSuperadminRole: held until the end of the transaction.
\* Mutant: the role is read without a lock.
SuperadminLockedNot(p) == FALSE
SuperadminLocked(p) == \E q \in AdminRequests \ {p} : request[q].locked

-----------------------------------------------------------------------------
(* Requests: the actor is authorized and the use case reads and checks. *)

ask(p, kind, a, member, r, roles, permissions) ==
  /\ request[p] = Rest
  /\ request' = [request EXCEPT ![p] = toSave(kind, isSuperadmin(a), member, r, roles, permissions, FALSE)]
  /\ UNCHANGED <<staff, role, crowned, delegated, revived, founders>>

may(a, permission) == permission \in effectivePermissions(a)

createStaff(p, a, s, roles) ==
  /\ may(a, StaffManage) /\ roles # {} /\ \A r \in roles : roleExists(r)
  /\ assertCanGrantRoles(a, roles) /\ ask(p, "createStaff", a, s, Nobody, roles, {})

\* The script of the operator, which creates the first superadmin.
createFirstSuperadmin(p, s) ==
  /\ ~SuperadminLocked(p) /\ Superadmins = {} /\ request[p] = Rest
  /\ request' = [request EXCEPT ![p] = toSave("firstSuperadmin", FALSE, s, Nobody, {Superadmin}, {}, TRUE)]
  /\ UNCHANGED <<staff, role, crowned, delegated, revived, founders>>

\* Only the roles added are given.
replaceStaffRoles(p, a, s, roles) ==
  /\ may(a, StaffManage) /\ staff[s].status # "NONE" /\ roles # {} /\ \A r \in roles : roleExists(r)
  /\ assertCanGrantRoles(a, roles \ staff[s].roles) /\ ask(p, "replaceRoles", a, s, Nobody, roles, {})

suspendStaff(p, a, s) ==
  /\ may(a, StaffManage) /\ s # a /\ staff[s].status = "ACTIVE" /\ ask(p, "suspendStaff", a, s, Nobody, staff[s].roles, {})

\* Who reactivates an account gets its password, so it counts as giving its roles.
reactivateStaff(p, a, s) ==
  /\ may(a, StaffManage) /\ staff[s].status = "SUSPENDED" /\ assertCanGrantRoles(a, staff[s].roles)
  /\ ask(p, "reactivateStaff", a, s, Nobody, staff[s].roles, {})

createRole(p, a, r, permissions) ==
  /\ may(a, RolesManage) /\ role[r] = NoRole /\ validPermissions(permissions)
  /\ assertCanGrantPermissions(a, permissions) /\ ask(p, "createRole", a, Nobody, r, {}, permissions)

\* Only the permissions added are given.
updateRole(p, a, r, permissions) ==
  /\ may(a, RolesManage) /\ role[r] # NoRole /\ validPermissions(permissions)
  /\ assertCanGrantPermissions(a, permissions \ role[r]) /\ ask(p, "updateRole", a, Nobody, r, {}, permissions)

hasUsers(r) == \E s \in Staff : r \in staff[s].roles
deleteRole(p, a, r) ==
  /\ may(a, RolesManage) /\ role[r] # NoRole /\ ~hasUsers(r) /\ ask(p, "deleteRole", a, Nobody, r, {}, {})

-----------------------------------------------------------------------------
(* The end of the transaction. *)

answered(p) == [request EXCEPT ![p] = Rest]
\* A save makes the copies that others read of the same account or role stale.
outdated(p, member, r) ==
  [q \in AdminRequests |->
    IF q = p THEN Rest
    ELSE IF (member # Nobody /\ request[q].member = member) \/ (r # Nobody /\ request[q].role = r)
         THEN [request[q] EXCEPT !.fresh = FALSE] ELSE request[q]]

\* ensureAnotherRemains: with the role locked, another active superadmin is counted.
keepsSuperadmin(p) == request[p].kind = "replaceRoles" /\ Superadmin \in request[p].roles
ensureAnotherRemains(p) ==
  LET s == request[p].member IN
  /\ request[p].kind \in {"replaceRoles", "suspendStaff"} /\ ~request[p].locked /\ ~SuperadminLocked(p)
  /\ IF isSuperadmin(s) /\ ~keepsSuperadmin(p) /\ Superadmins \ {s} = {}
     THEN request' = answered(p)   \* LastSuperadminError
     ELSE request' = [request EXCEPT ![p].locked = TRUE]
  /\ UNCHANGED <<staff, role, crowned, delegated, revived, founders>>

IsFresh(p) == request[p].fresh

\* Foreign keys: a role that was deleted meanwhile cannot be assigned.
Assignable(p) == \A r \in request[p].roles : roleExists(r)

\* What a superadmin gave counts as given by them.
givenRoles(p) ==
  delegated \cup (IF request[p].super THEN UNION {rolePermissions(r) : r \in request[p].roles \ {Superadmin}} ELSE {})
givenCrown(p, to) ==
  IF Superadmin \notin request[p].roles THEN crowned \ {to} ELSE IF request[p].super THEN crowned \cup {to} ELSE crowned

addStaff(p) ==
  LET s == request[p].member IN
  /\ request[p].kind \in {"createStaff", "firstSuperadmin"}
  /\ IF staff[s].status = "NONE" /\ Assignable(p)
     THEN /\ staff' = [staff EXCEPT ![s] = [status |-> "ACTIVE", roles |-> request[p].roles]]
          /\ request' = outdated(p, s, Nobody)
          /\ IF request[p].kind = "firstSuperadmin"
             THEN crowned' = crowned \cup {s} /\ founders' = founders + 1 /\ UNCHANGED delegated
             ELSE crowned' = givenCrown(p, s) /\ delegated' = givenRoles(p) /\ UNCHANGED founders
     ELSE request' = answered(p) /\ UNCHANGED <<staff, crowned, delegated, founders>>
  /\ UNCHANGED <<role, revived>>

saveStaff(p) ==
  LET s == request[p].member kind == request[p].kind IN
  /\ \/ kind \in {"replaceRoles", "suspendStaff"} /\ request[p].locked
     \/ kind = "reactivateStaff"
  /\ IF IsFresh(p) /\ Assignable(p)
     THEN /\ staff' = [staff EXCEPT ![s].roles = request[p].roles,
                ![s].status = IF kind = "suspendStaff" THEN "SUSPENDED" ELSE IF kind = "reactivateStaff" THEN "ACTIVE" ELSE @]
          /\ delegated' = IF kind = "suspendStaff" THEN delegated ELSE givenRoles(p)
          /\ crowned' = CASE kind = "suspendStaff" -> crowned \ {s}
                          [] kind = "replaceRoles" /\ Superadmin \in staff[s].roles \cap request[p].roles -> crowned
                          [] OTHER -> givenCrown(p, s)
          /\ request' = outdated(p, s, Nobody)
     ELSE request' = answered(p) /\ UNCHANGED <<staff, crowned, delegated>>
  /\ UNCHANGED <<role, revived, founders>>

\* A deletion looks at no version, and an update of a role deleted meanwhile creates it again.
Writable(p) ==
  LET r == request[p].role IN
  CASE request[p].kind = "createRole" -> IsFresh(p)
    [] request[p].kind = "updateRole" -> IsFresh(p) \/ role[r] = NoRole
    [] OTHER -> role[r] # NoRole /\ ~hasUsers(r)

saveRole(p) ==
  LET r == request[p].role IN
  /\ request[p].kind \in {"createRole", "updateRole", "deleteRole"}
  /\ IF Writable(p)
     THEN /\ role' = [role EXCEPT ![r] = IF request[p].kind = "deleteRole" THEN NoRole ELSE request[p].permissions]
          /\ delegated' = delegated \cup (IF request[p].super THEN request[p].permissions ELSE {})
          /\ revived' = revived \cup (IF IsFresh(p) \/ request[p].super THEN {} ELSE request[p].permissions)
          /\ request' = outdated(p, Nobody, r)
     ELSE request' = answered(p) /\ UNCHANGED <<role, delegated, revived>>
  /\ UNCHANGED <<staff, crowned, founders>>

-----------------------------------------------------------------------------
StaffNext ==
  \E p \in AdminRequests :
    \/ \E s \in Staff : createFirstSuperadmin(p, s)
    \/ \E a, s \in Staff : suspendStaff(p, a, s) \/ reactivateStaff(p, a, s)
    \/ \E a, s \in Staff, roles \in SUBSET AllRoles : createStaff(p, a, s, roles) \/ replaceStaffRoles(p, a, s, roles)
    \/ \E a \in Staff, r \in Roles : deleteRole(p, a, r)
    \/ \E a \in Staff, r \in Roles, permissions \in SUBSET Permissions :
         createRole(p, a, r, permissions) \/ updateRole(p, a, r, permissions)
    \/ ensureAnotherRemains(p) \/ addStaff(p) \/ saveStaff(p) \/ saveRole(p)

StaffSpec == StaffInit /\ [][StaffNext]_staffVars

-----------------------------------------------------------------------------
(* Properties. *)

\* Once the script created a superadmin there is always an active one, and the script creates no other.
SuperadminRemains == founders <= 1 /\ (founders = 1 => Superadmins # {})

\* Nobody gives what they do not have, however many of them act together: only superadmins make superadmins, and the
\* others hold permissions that a superadmin once gave.  The exception is a role that is deleted while one request is
\* about to save it and another to give it: it comes back with what the first had read of it.
PowerIsDelegated ==
  /\ Superadmins \subseteq crowned
  /\ \A s \in Staff \ Superadmins : effectivePermissions(s) \subseteq delegated \cup revived

\* A role that members of the staff have, or a request is about to give, exists; suspended members count.
AssignedRolesExist == \A s \in Staff : \A r \in staff[s].roles : roleExists(r)

\* Somebody can manage the shop, with power that came from who had it and roles that exist (grant-limits, continuity).
PowerIsKept == StaffTypeOK /\ SuperadminRemains /\ PowerIsDelegated /\ AssignedRolesExist
=============================================================================
