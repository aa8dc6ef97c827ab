---------------------------- MODULE PeopleProofs ----------------------------
(* What holds of the people of the shop for any number of them and of      *)
(* requests at the same time: the power of the staff, the repairs they     *)
(* write down, what is left of customers and guests who are anonymized,    *)
(* what follows a sale (its payment and its shipment), and the customers'  *)
(* accounts with their sessions, links and addresses.                      *)
EXTENDS StaffRoles, Privacy, Shipments, Accounts, SequenceTheorems, FiniteSetTheorems, TLAPS

-----------------------------------------------------------------------------
(* Staff and roles: the inductive invariant.                               *)

MemberKinds == {"createStaff", "firstSuperadmin", "replaceRoles", "suspendStaff", "reactivateStaff"}
RoleKinds == {"createRole", "updateRole", "deleteRole"}
Removing == {"replaceRoles", "suspendStaff"}

\* The permissions that others than superadmins may hold.
Known == delegated \cup revived
RolesKnown(roles) == \A r \in roles \ {Superadmin} : rolePermissions(r) \subseteq Known

\* What a request x is about; one that read an account says the truth about it while nobody saved that account.
ShapeSound(x) ==
  /\ x.kind \in MemberKinds => x.member \in Staff /\ x.roles # {}
  /\ x.kind \in RoleKinds => x.role \in Roles /\ x.permissions \cap SuperadminOnly = {}
  /\ x.kind = "firstSuperadmin" => x.roles = {Superadmin}
  /\ x.fresh /\ x.kind \in {"suspendStaff", "reactivateStaff"} => x.roles = staff[x.member].roles

\* Superadmins come from a superadmin, the first one from the script.
CrownSound(x) ==
  /\ x.kind = "firstSuperadmin" => x.locked /\ founders = 0
  /\ Superadmin \in x.roles => x.kind = "firstSuperadmin" \/ founders # 0
  /\ Superadmin \in x.roles /\ x.kind \in {"createStaff", "reactivateStaff"} => x.super
  /\ Superadmin \in x.roles /\ x.kind = "replaceRoles" /\ x.fresh => x.super \/ Superadmin \in staff[x.member].roles

\* With the role locked, a request that may take it away leaves another superadmin.
Keeps(x) == x.kind = "replaceRoles" /\ Superadmin \in x.roles
LockSound(x) ==
  /\ x.locked => x.kind \in Removing \cup {"firstSuperadmin"}
  /\ x.locked /\ x.kind \in Removing /\ ~Keeps(x) /\ founders = 1 => Superadmins \ {x.member} # {}

\* What it is about to give without being a superadmin is known.
GiftSound(x) ==
  ~x.super =>
    /\ RolesKnown(x.roles)
    /\ x.fresh /\ x.kind \in {"createRole", "updateRole"} => x.permissions \ role[x.role] \subseteq Known

Sound(x) == ShapeSound(x) /\ CrownSound(x) /\ LockSound(x) /\ GiftSound(x)

OneLock == \A p, q \in AdminRequests : request[p].locked /\ request[q].locked => p = q
Founded == founders = 0 => \A s \in Staff : Superadmin \notin staff[s].roles
Crowned == Superadmins \subseteq crowned
StaffKnown == \A s \in Staff : RolesKnown(staff[s].roles)

StaffInv ==
  /\ StaffTypeOK /\ AssignedRolesExist /\ SuperadminRemains
  /\ OneLock /\ Founded /\ Crowned /\ StaffKnown
  /\ \A p \in AdminRequests : Sound(request[p])

-----------------------------------------------------------------------------
(* Who holds what.                                                         *)

\* A member who is no superadmin holds known permissions.
LEMMA OthersHoldKnown ==
  ASSUME StaffInv, NEW s \in Staff, ~isSuperadmin(s)
  PROVE  effectivePermissions(s) \subseteq Known
<1>1. s # Nobody
  BY StaffRolesAssumption
<1>2. CASE staff[s].status # "ACTIVE"
  BY <1>2 DEF effectivePermissions
<1>3. CASE staff[s].status = "ACTIVE"
  BY <1>1, <1>3 DEF isSuperadmin, StaffInv, StaffKnown, RolesKnown, effectivePermissions
<1> QED
  BY <1>2, <1>3

\* Whoever gives roles and is no superadmin gives none of a superadmin and only what is known.
LEMMA OthersGiveKnown ==
  ASSUME StaffInv, NEW a \in Staff, NEW roles \in SUBSET AllRoles, assertCanGrantRoles(a, roles), ~isSuperadmin(a)
  PROVE  Superadmin \notin roles /\ RolesKnown(roles)
<1>1. effectivePermissions(a) \subseteq Known
  BY OthersHoldKnown
<1>2. \A r \in roles : r # Superadmin /\ rolePermissions(r) \subseteq effectivePermissions(a)
  BY DEF assertCanGrantRoles, assertCanGrantPermissions
<1> QED
  BY <1>1, <1>2 DEF RolesKnown

\* There is a superadmin only after the script made one.
LEMMA SuperadminsAreFounded ==
  ASSUME StaffInv, NEW s \in Staff, Superadmin \in staff[s].roles
  PROVE  founders # 0
BY DEF StaffInv, Founded

\* A request that asks nothing is a sound one.
LEMMA RestIsSound == Rest \in StaffRequest /\ Sound(Rest) /\ ~Rest.locked
<1>1. Rest \in StaffRequest
  BY DEF Rest, toSave, StaffRequest, StaffKinds
<1>2. /\ Rest.kind = "idle" /\ Rest.roles = {} /\ ~Rest.locked
  BY DEF Rest, toSave
<1> QED
  BY <1>1, <1>2 DEF Sound, ShapeSound, CrownSound, LockSound, GiftSound, RolesKnown, MemberKinds, RoleKinds, Removing

-----------------------------------------------------------------------------
(* Requests that read.                                                     *)

\* A request changes its own record to a sound one.
LEMMA Recorded ==
  ASSUME StaffInv, NEW p \in AdminRequests, NEW x \in StaffRequest, Sound(x), x.locked => ~SuperadminLocked(p),
         request' = [request EXCEPT ![p] = x],
         UNCHANGED <<staff, role, crowned, delegated, revived, founders>>
  PROVE  StaffInv'
<1>1. request \in [AdminRequests -> StaffRequest]
  BY DEF StaffInv, StaffTypeOK
<1>2. request' \in [AdminRequests -> StaffRequest]
  BY <1>1
<1>3. StaffTypeOK' /\ AssignedRolesExist' /\ SuperadminRemains' /\ Founded' /\ Crowned' /\ StaffKnown'
  <2>1. StaffTypeOK'
    BY <1>2 DEF StaffInv, StaffTypeOK
  <2>2. AssignedRolesExist' /\ Founded'
    BY DEF StaffInv, AssignedRolesExist, roleExists, Founded
  <2>3. SuperadminRemains' /\ Crowned'
    BY DEF StaffInv, SuperadminRemains, Crowned, Superadmins, isSuperadmin
  <2>4. StaffKnown'
    BY DEF StaffInv, StaffKnown, RolesKnown, rolePermissions, Known
  <2> QED
    BY <2>1, <2>2, <2>3, <2>4
<1>4. OneLock'
  <2> SUFFICES ASSUME NEW i \in AdminRequests, NEW q \in AdminRequests, request'[i].locked, request'[q].locked
               PROVE  i = q
    BY DEF OneLock
  <2>1. CASE i = p /\ q # p
    BY <1>1, <2>1 DEF SuperadminLocked
  <2>2. CASE q = p /\ i # p
    BY <1>1, <2>2 DEF SuperadminLocked
  <2>3. CASE i # p /\ q # p
    BY <1>1, <2>3 DEF StaffInv, OneLock
  <2> QED
    BY <2>1, <2>2, <2>3
<1>5. ASSUME NEW q \in AdminRequests
      PROVE  Sound(request[q])'
  <2>1. Sound(request'[q])
    BY <1>1 DEF StaffInv
  <2> QED
    BY <2>1 DEF Sound, ShapeSound, CrownSound, LockSound, GiftSound, RolesKnown, rolePermissions, Known, Superadmins, isSuperadmin, Keeps
<1> QED
  BY <1>3, <1>4, <1>5 DEF StaffInv

\* A use case read what it needs and is about to save.
LEMMA Asking ==
  ASSUME StaffInv, NEW p \in AdminRequests, NEW kind \in StaffKinds \ {"idle", "firstSuperadmin"}, NEW a \in Staff,
         NEW member \in Staff \cup {Nobody}, NEW r \in AllRoles \cup {Nobody},
         NEW roles \in SUBSET AllRoles, NEW permissions \in SUBSET Permissions,
         ask(p, kind, a, member, r, roles, permissions),
         kind \in MemberKinds => member \in Staff /\ roles # {},
         kind \in RoleKinds => r \in Roles /\ permissions \cap SuperadminOnly = {},
         kind \in {"suspendStaff", "reactivateStaff"} => roles = staff[member].roles,
         Superadmin \in roles => founders # 0,
         Superadmin \in roles /\ kind \in {"createStaff", "reactivateStaff"} => isSuperadmin(a),
         Superadmin \in roles /\ kind = "replaceRoles" => isSuperadmin(a) \/ Superadmin \in staff[member].roles,
         ~isSuperadmin(a) => RolesKnown(roles),
         ~isSuperadmin(a) /\ kind \in {"createRole", "updateRole"} => permissions \ role[r] \subseteq Known
  PROVE  StaffInv'
<1> DEFINE x == toSave(kind, isSuperadmin(a), member, r, roles, permissions, FALSE)
<1>1. isSuperadmin(a) \in BOOLEAN
  BY DEF isSuperadmin
<1>2. x \in StaffRequest
  BY <1>1 DEF StaffRequest, toSave
<1>3. request' = [request EXCEPT ![p] = x] /\ UNCHANGED <<staff, role, crowned, delegated, revived, founders>>
  BY DEF ask
<1>4. /\ x.kind = kind /\ x.super = isSuperadmin(a) /\ x.member = member /\ x.role = r /\ x.roles = roles
      /\ x.permissions = permissions /\ x.fresh = TRUE /\ x.locked = FALSE
  BY DEF toSave
<1> HIDE DEF x
<1>5. ShapeSound(x) /\ CrownSound(x)
  BY <1>4 DEF ShapeSound, CrownSound
<1>6. LockSound(x) /\ GiftSound(x)
  BY <1>4 DEF LockSound, GiftSound
<1> QED
  BY <1>2, <1>3, <1>4, <1>5, <1>6, Recorded DEF Sound

\* The requests about a member of the staff.
LEMMA MembersAsked ==
  ASSUME StaffInv, NEW p \in AdminRequests, NEW a \in Staff, NEW s \in Staff, NEW roles \in SUBSET AllRoles,
         createStaff(p, a, s, roles) \/ replaceStaffRoles(p, a, s, roles) \/ suspendStaff(p, a, s) \/ reactivateStaff(p, a, s)
  PROVE  StaffInv'
<1>1. /\ staff[s].roles \in SUBSET AllRoles /\ {} \in SUBSET Permissions
      /\ staff[s].status # "NONE" => staff[s].roles # {}
      /\ RolesKnown(staff[s].roles)
  BY DEF StaffInv, StaffTypeOK, StaffKnown
<1>2. isSuperadmin(a) => founders # 0
  BY SuperadminsAreFounded DEF isSuperadmin
<1>3. Superadmin \in staff[s].roles => founders # 0
  BY SuperadminsAreFounded
<1>4. Nobody \in AllRoles \cup {Nobody} /\ s \in Staff \cup {Nobody}
  OBVIOUS
<1>5. CASE createStaff(p, a, s, roles)
  BY <1>5, OthersGiveKnown, <1>1, <1>2, <1>4, Asking DEF createStaff, StaffKinds, RoleKinds
<1>6. CASE replaceStaffRoles(p, a, s, roles)
  <2>1. /\ roles # {} /\ assertCanGrantRoles(a, roles \ staff[s].roles)
        /\ ask(p, "replaceRoles", a, s, Nobody, roles, {})
    BY <1>6 DEF replaceStaffRoles
  <2>2. ~isSuperadmin(a) => Superadmin \notin roles \ staff[s].roles /\ RolesKnown(roles \ staff[s].roles)
    BY <2>1, OthersGiveKnown
  <2>3. ~isSuperadmin(a) => RolesKnown(roles)
    BY <1>1, <2>2 DEF RolesKnown
  <2>4. "replaceRoles" \in StaffKinds \ {"idle", "firstSuperadmin"} /\ "replaceRoles" \notin RoleKinds
    BY DEF StaffKinds, RoleKinds
  <2> QED
    BY <1>1, <1>2, <1>3, <1>4, <2>1, <2>2, <2>3, <2>4, Asking
<1>7. CASE suspendStaff(p, a, s)
  BY <1>7, <1>1, <1>3, <1>4, Asking DEF suspendStaff, StaffKinds, RoleKinds
<1>8. CASE reactivateStaff(p, a, s)
  BY <1>8, <1>1, OthersGiveKnown, <1>3, <1>4, Asking DEF reactivateStaff, StaffKinds, RoleKinds
<1> QED
  BY <1>5, <1>6, <1>7, <1>8

\* The requests about a role.
LEMMA RolesAsked ==
  ASSUME StaffInv, NEW p \in AdminRequests, NEW a \in Staff, NEW r \in Roles, NEW permissions \in SUBSET Permissions,
         createRole(p, a, r, permissions) \/ updateRole(p, a, r, permissions) \/ deleteRole(p, a, r)
  PROVE  StaffInv'
<1>1. /\ {} \in SUBSET AllRoles /\ {} \in SUBSET Permissions /\ r \in AllRoles \cup {Nobody} /\ Nobody \in Staff \cup {Nobody}
      /\ RolesKnown({})
  BY DEF AllRoles, RolesKnown
<1>2. ~isSuperadmin(a) => effectivePermissions(a) \subseteq Known
  BY OthersHoldKnown
<1>3. CASE createRole(p, a, r, permissions)
  BY <1>3, <1>1, <1>2, Asking DEF createRole, validPermissions, assertCanGrantPermissions, StaffKinds, MemberKinds
<1>4. CASE updateRole(p, a, r, permissions)
  BY <1>4, <1>1, <1>2, Asking DEF updateRole, validPermissions, assertCanGrantPermissions, StaffKinds, MemberKinds
<1>5. CASE deleteRole(p, a, r)
  BY <1>5, <1>1, Asking DEF deleteRole, StaffKinds, MemberKinds
<1> QED
  BY <1>3, <1>4, <1>5

\* The script: no superadmin remains to be found, so it made none before.
LEMMA ScriptAsked ==
  ASSUME StaffInv, NEW p \in AdminRequests, NEW s \in Staff, createFirstSuperadmin(p, s)
  PROVE  StaffInv'
<1> DEFINE x == toSave("firstSuperadmin", FALSE, s, Nobody, {Superadmin}, {}, TRUE)
<1>1. x \in StaffRequest
  BY DEF StaffRequest, StaffKinds, AllRoles, toSave
<1>2. request' = [request EXCEPT ![p] = x] /\ UNCHANGED <<staff, role, crowned, delegated, revived, founders>>
  BY DEF createFirstSuperadmin
<1>3. founders = 0
  BY DEF StaffInv, StaffTypeOK, SuperadminRemains, createFirstSuperadmin
<1>4. /\ x.kind = "firstSuperadmin" /\ x.super = FALSE /\ x.member = s /\ x.roles = {Superadmin} /\ x.fresh = TRUE /\ x.locked = TRUE
  BY DEF toSave
<1> HIDE DEF x
<1>5. ShapeSound(x) /\ CrownSound(x)
  BY <1>3, <1>4 DEF ShapeSound, CrownSound, RoleKinds
<1>6. LockSound(x) /\ GiftSound(x)
  BY <1>4 DEF LockSound, GiftSound, RolesKnown, Removing
<1> QED
  BY <1>1, <1>2, <1>4, <1>5, <1>6, Recorded DEF Sound, createFirstSuperadmin

\* The role is locked: either the request is refused, or another superadmin remains.
LEMMA RoleLocked ==
  ASSUME StaffInv, NEW p \in AdminRequests, ensureAnotherRemains(p)
  PROVE  StaffInv'
<1> DEFINE s == request[p].member
           x == [request[p] EXCEPT !.locked = TRUE]
<1>1. request \in [AdminRequests -> StaffRequest] /\ Sound(request[p])
  BY DEF StaffInv, StaffTypeOK
<1>2. /\ request[p].kind \in Removing /\ ~SuperadminLocked(p)
      /\ UNCHANGED <<staff, role, crowned, delegated, revived, founders>>
  BY DEF ensureAnotherRemains, Removing
<1>3. CASE isSuperadmin(s) /\ ~keepsSuperadmin(p) /\ Superadmins \ {s} = {}
  BY <1>3, <1>2, RestIsSound, Recorded DEF ensureAnotherRemains, answered
<1>4. CASE ~(isSuperadmin(s) /\ ~keepsSuperadmin(p) /\ Superadmins \ {s} = {})
  <2>1. request' = [request EXCEPT ![p] = x]
    BY <1>1, <1>4 DEF ensureAnotherRemains
  <2>2. x \in StaffRequest
    BY <1>1 DEF StaffRequest
  <2>3. /\ x.kind = request[p].kind /\ x.super = request[p].super /\ x.member = s /\ x.role = request[p].role
        /\ x.roles = request[p].roles /\ x.permissions = request[p].permissions /\ x.fresh = request[p].fresh /\ x.locked
    BY <1>1 DEF StaffRequest
  <2> HIDE DEF x
  <2>4. ShapeSound(x) /\ CrownSound(x) /\ GiftSound(x)
    BY <1>1, <1>2, <2>3 DEF Sound, ShapeSound, CrownSound, GiftSound, Removing
  <2>5. ~Keeps(x) /\ founders = 1 => Superadmins \ {s} # {}
    BY <2>3, <1>4 DEF Keeps, keepsSuperadmin, StaffInv, SuperadminRemains, Superadmins
  <2>6. LockSound(x)
    BY <1>2, <2>3, <2>5 DEF LockSound
  <2> QED
    BY <1>2, <2>1, <2>2, <2>4, <2>6, Recorded DEF Sound
<1> QED
  BY <1>3, <1>4

-----------------------------------------------------------------------------
(* Requests that save.                                                     *)

\* A copy that a save made stale promises less.
LEMMA StaleIsSound ==
  ASSUME NEW x \in StaffRequest, Sound(x)
  PROVE  /\ [x EXCEPT !.fresh = FALSE] \in StaffRequest
         /\ Sound([x EXCEPT !.fresh = FALSE])
<1> DEFINE y == [x EXCEPT !.fresh = FALSE]
<1>1. y \in StaffRequest
  BY DEF StaffRequest
<1>2. /\ y.kind = x.kind /\ y.super = x.super /\ y.member = x.member /\ y.role = x.role /\ y.roles = x.roles
      /\ y.permissions = x.permissions /\ y.fresh = FALSE /\ y.locked = x.locked
  BY DEF StaffRequest
<1> HIDE DEF y
<1>3. ShapeSound(y) /\ CrownSound(y)
  BY <1>2 DEF Sound, ShapeSound, CrownSound
<1>4. LockSound(y) /\ GiftSound(y)
  BY <1>2 DEF Sound, LockSound, Keeps, GiftSound
<1> QED
  BY <1>1, <1>3, <1>4 DEF Sound, y

\* What the others are about to do after a save: one about the same account or role has a stale copy.
LEMMA OthersAfterSave ==
  ASSUME StaffInv, NEW p \in AdminRequests, NEW member \in Staff \cup {Nobody}, NEW r \in Roles \cup {Nobody},
         request' = outdated(p, member, r)
  PROVE  /\ request' \in [AdminRequests -> StaffRequest]
         /\ request'[p] = Rest
         /\ \A q \in AdminRequests \ {p} :
              /\ Sound(request'[q])
              /\ request'[q].fresh /\ member # Nobody => request'[q].member # member
              /\ request'[q].fresh /\ r # Nobody => request'[q].role # r
         /\ \A q \in AdminRequests : request'[q].locked => request[q].locked /\ q # p
<1>1. request \in [AdminRequests -> StaffRequest] /\ \A q \in AdminRequests : Sound(request[q])
  BY DEF StaffInv, StaffTypeOK
<1>2. DOMAIN request' = AdminRequests /\ request' = [q \in AdminRequests |-> request'[q]] /\ request'[p] = Rest
  BY DEF outdated
<1>3. ASSUME NEW q \in AdminRequests \ {p}
      PROVE  /\ request'[q] \in StaffRequest /\ Sound(request'[q])
             /\ request'[q].fresh /\ member # Nobody => request'[q].member # member
             /\ request'[q].fresh /\ r # Nobody => request'[q].role # r
             /\ request'[q].locked => request[q].locked
  <2> DEFINE y == [request[q] EXCEPT !.fresh = FALSE]
  <2>1. CASE (member # Nobody /\ request[q].member = member) \/ (r # Nobody /\ request[q].role = r)
    BY <2>1, <1>1, StaleIsSound DEF outdated, StaffRequest
  <2>2. CASE ~((member # Nobody /\ request[q].member = member) \/ (r # Nobody /\ request[q].role = r))
    BY <2>2, <1>1 DEF outdated
  <2> QED
    BY <2>1, <2>2
<1>4. \A q \in AdminRequests : request'[q] \in StaffRequest
  BY <1>2, <1>3, RestIsSound
<1>5. \A q \in AdminRequests : request'[q].locked => request[q].locked /\ q # p
  BY <1>2, <1>3, RestIsSound
<1> QED
  BY <1>2, <1>3, <1>4, <1>5

\* An account is saved.  What the caller owes: the roles it gets exist and are known, superadmins are crowned, and
\* either the request held the lock or no superadmin goes.
LEMMA MemberSaved ==
  ASSUME StaffInv, NEW p \in AdminRequests, NEW s \in Staff,
         NEW new \in [status : {"ACTIVE", "SUSPENDED", "NONE"}, roles : SUBSET AllRoles],
         new.roles # {}, \A r \in new.roles : roleExists(r),
         staff' = [staff EXCEPT ![s] = new], request' = outdated(p, s, Nobody), UNCHANGED <<role, revived>>,
         delegated \subseteq delegated', delegated' \subseteq Permissions, \A r \in new.roles \ {Superadmin} : rolePermissions(r) \subseteq Known',
         crowned' \subseteq Staff, crowned \subseteq crowned' \cup {s},
         new.status = "ACTIVE" /\ Superadmin \in new.roles => s \in crowned',
         founders' \in Nat, founders' <= 1, Superadmin \in new.roles => founders' # 0,
         founders' = 1 => Superadmins' # {},
         founders' # founders => request[p].locked /\ founders = 0,
         ~request[p].locked => Superadmins \subseteq Superadmins'
  PROVE  StaffInv'
<1>1. /\ staff \in [Staff -> [status : {"NONE", "ACTIVE", "SUSPENDED"}, roles : SUBSET AllRoles]]
      /\ StaffTypeOK /\ s # Nobody
  BY StaffRolesAssumption DEF StaffInv, StaffTypeOK
<1>2. staff'[s] = new /\ \A i \in Staff \ {s} : staff'[i] = staff[i]
  BY <1>1
<1>3. /\ request' \in [AdminRequests -> StaffRequest]
      /\ request'[p] = Rest
      /\ \A q \in AdminRequests \ {p} : Sound(request'[q]) /\ (request'[q].fresh => request'[q].member # s)
      /\ \A q \in AdminRequests : request'[q].locked => request[q].locked /\ q # p
  BY <1>1, OthersAfterSave
<1>4. StaffTypeOK'
  BY <1>1, <1>2, <1>3 DEF StaffTypeOK
<1>5. AssignedRolesExist'
  BY <1>2 DEF StaffInv, AssignedRolesExist, roleExists
<1>6. OneLock'
  BY <1>3 DEF StaffInv, OneLock
<1>7. Founded'
  BY <1>1, <1>2 DEF StaffTypeOK, StaffInv, Founded
<1>8. Crowned'
  BY <1>2 DEF StaffInv, Crowned, Superadmins, isSuperadmin
<1>9. Known \subseteq Known' /\ \A roles : RolesKnown(roles) => RolesKnown(roles)'
  BY DEF Known, RolesKnown, rolePermissions
<1>10. StaffKnown'
  <2>1. \A r \in new.roles \ {Superadmin} : rolePermissions(r)' \subseteq Known'
    BY DEF rolePermissions
  <2>2. ASSUME NEW i \in Staff, NEW r \in staff'[i].roles \ {Superadmin}
        PROVE  rolePermissions(r)' \subseteq Known'
    BY <1>2, <2>1, <2>2, <1>9 DEF StaffInv, StaffKnown, RolesKnown, rolePermissions
  <2> QED
    BY <2>2 DEF StaffKnown, RolesKnown
<1>11. ASSUME NEW q \in AdminRequests
       PROVE  Sound(request[q])'
  <2> DEFINE y == request'[q]
  <2>1. CASE q = p
    <3>1. y = Rest
      BY <1>3, <2>1
    <3>2. y.kind = "idle" /\ y.roles = {} /\ ~y.locked
      BY <3>1 DEF Rest, toSave
    <3> QED
      BY <3>2 DEF Sound, ShapeSound, CrownSound, LockSound, GiftSound, RolesKnown, MemberKinds, RoleKinds, Removing
  <2>2. CASE q # p
    <3>1. Sound(y) /\ (y.fresh => y.member # s) /\ y \in StaffRequest
      BY <1>3, <2>2
    <3>2. y.kind \in MemberKinds /\ y.fresh => staff'[y.member] = staff[y.member]
      BY <1>2, <3>1 DEF Sound, ShapeSound
    <3>3. y.locked => founders' = founders /\ Superadmins \subseteq Superadmins'
      BY <1>3, <2>2 DEF StaffInv, OneLock
    <3>4. ShapeSound(request[q])'
      BY <3>1, <3>2 DEF Sound, ShapeSound, MemberKinds
    <3>5. CrownSound(request[q])'
      BY <1>1, <3>1, <3>3, <3>2 DEF StaffTypeOK, Sound, CrownSound, MemberKinds
    <3>6. LockSound(request[q])'
      BY <3>1, <3>3 DEF Sound, LockSound, Keeps
    <3>7. GiftSound(request[q])'
      BY <1>9, <3>1 DEF Sound, GiftSound, RolesKnown, rolePermissions
    <3> QED
      BY <3>4, <3>5, <3>6, <3>7 DEF Sound
  <2> QED
    BY <2>1, <2>2
<1>12. SuperadminRemains'
  BY DEF SuperadminRemains
<1> QED
  BY <1>4, <1>5, <1>6, <1>7, <1>8, <1>10, <1>11, <1>12 DEF StaffInv

\* A request that saves nothing is answered.
LEMMA Answered ==
  ASSUME StaffInv, NEW p \in AdminRequests, request' = answered(p),
         UNCHANGED <<staff, role, crowned, delegated, revived, founders>>
  PROVE  StaffInv'
BY RestIsSound, Recorded DEF answered

\* What a superadmin gives is in the catalog, and is known from then on.
LEMMA GivenIsKnown ==
  ASSUME StaffInv, NEW p \in AdminRequests, delegated' = givenRoles(p), UNCHANGED revived
  PROVE  /\ delegated \subseteq delegated' /\ delegated' \subseteq Permissions
         /\ \A r \in request[p].roles \ {Superadmin} : rolePermissions(r) \subseteq Known'
<1>1. /\ role \in [Roles -> (SUBSET (Permissions \ SuperadminOnly)) \cup {NoRole}]
      /\ request[p] \in StaffRequest /\ Sound(request[p]) /\ delegated \subseteq Permissions
  BY DEF StaffInv, StaffTypeOK
<1>2. \A r \in Roles : role[r] \ NoRole \subseteq Permissions
  BY <1>1 DEF NoRole
<1>3. \A r \in request[p].roles \ {Superadmin} : r \in Roles
  BY <1>1 DEF StaffRequest, AllRoles
<1>4. \A r \in request[p].roles \ {Superadmin} : rolePermissions(r) \subseteq Permissions
  BY <1>2, <1>3 DEF rolePermissions
<1>5. CASE request[p].super
  BY <1>5, <1>1, <1>4 DEF givenRoles, Known
<1>6. CASE ~request[p].super
  BY <1>6, <1>1 DEF givenRoles, Sound, GiftSound, RolesKnown, Known
<1> QED
  BY <1>5, <1>6

\* No account with roles is created but by who may give them, or by the script while there is no superadmin.
LEMMA MemberAdded ==
  ASSUME StaffInv, NEW p \in AdminRequests, addStaff(p)
  PROVE  StaffInv'
<1> DEFINE s == request[p].member
           new == [status |-> "ACTIVE", roles |-> request[p].roles]
<1>1. /\ request[p] \in StaffRequest /\ Sound(request[p]) /\ request[p].kind \in {"createStaff", "firstSuperadmin"}
      /\ delegated \subseteq Permissions /\ crowned \subseteq Staff /\ founders \in Nat /\ founders <= 1
      /\ staff \in [Staff -> [status : {"NONE", "ACTIVE", "SUSPENDED"}, roles : SUBSET AllRoles]]
  BY DEF StaffInv, StaffTypeOK, SuperadminRemains, addStaff
<1>2. s \in Staff /\ request[p].roles # {} /\ request[p].roles \in SUBSET AllRoles /\ s # Nobody
  BY <1>1, StaffRolesAssumption DEF Sound, ShapeSound, MemberKinds, StaffRequest
<1>3. CASE ~(staff[s].status = "NONE" /\ Assignable(p))
  BY <1>3, Answered DEF addStaff
<1>4. CASE staff[s].status = "NONE" /\ Assignable(p)
  <2>1. /\ staff' = [staff EXCEPT ![s] = new] /\ request' = outdated(p, s, Nobody) /\ UNCHANGED <<role, revived>>
        /\ \A r \in new.roles : roleExists(r)
    BY <1>4 DEF addStaff, Assignable
  <2>2. /\ new \in [status : {"ACTIVE", "SUSPENDED", "NONE"}, roles : SUBSET AllRoles]
        /\ new.roles = request[p].roles /\ new.status = "ACTIVE"
    BY <1>2
  <2>3. staff'[s] = new /\ \A i \in Staff \ {s} : staff'[i] = staff[i]
    BY <1>1, <1>2, <2>1
  <2> HIDE DEF new
  <2>4. Superadmins \subseteq Superadmins'
    BY <1>4, <2>3 DEF Superadmins, isSuperadmin
  <2>5. CASE request[p].kind = "firstSuperadmin"
    <3>1. /\ request[p].locked /\ founders = 0 /\ new.roles = {Superadmin}
      BY <1>1, <2>2, <2>5 DEF Sound, ShapeSound, CrownSound
    <3>2. crowned' = crowned \cup {s} /\ founders' = founders + 1 /\ delegated' = delegated
      BY <1>4, <2>5 DEF addStaff
    <3>3. s \in Superadmins'
      BY <1>2, <2>2, <2>3, <3>1 DEF Superadmins, isSuperadmin
    <3>4. founders' = 1 /\ founders' \in Nat /\ founders' <= 1 /\ founders' # 0
      BY <3>1, <3>2
    <3>5. \A r \in new.roles \ {Superadmin} : rolePermissions(r) \subseteq Known'
      BY <3>1
    <3>6. crowned' \subseteq Staff /\ crowned \subseteq crowned' \cup {s} /\ s \in crowned'
      BY <1>1, <1>2, <3>2
    <3>7. delegated \subseteq delegated' /\ delegated' \subseteq Permissions /\ new.roles # {}
      BY <1>1, <1>2, <2>2, <3>2
    <3> QED
      BY <1>2, <2>1, <2>2, <3>1, <3>3, <3>4, <3>5, <3>6, <3>7, MemberSaved
  <2>6. CASE request[p].kind = "createStaff"
    <3>1. crowned' = givenCrown(p, s) /\ delegated' = givenRoles(p) /\ founders' = founders
      BY <1>4, <2>6 DEF addStaff
    <3>2. /\ delegated \subseteq delegated' /\ delegated' \subseteq Permissions
          /\ \A r \in new.roles \ {Superadmin} : rolePermissions(r) \subseteq Known'
      BY <2>1, <2>2, <3>1, GivenIsKnown
    <3>3. Superadmin \in new.roles => request[p].super /\ founders # 0
      BY <1>1, <2>2, <2>6 DEF Sound, CrownSound
    <3>4. /\ crowned' \subseteq Staff /\ crowned \subseteq crowned' \cup {s}
          /\ Superadmin \in new.roles => s \in crowned'
      BY <1>1, <1>2, <2>2, <3>1, <3>3 DEF givenCrown
    <3>5. founders' = 1 => Superadmins' # {}
      BY <2>4, <3>1 DEF StaffInv, SuperadminRemains
    <3> QED
      BY <1>1, <1>2, <2>1, <2>2, <2>4, <3>1, <3>2, <3>3, <3>4, <3>5, MemberSaved
  <2> QED
    BY <1>1, <2>5, <2>6
<1> QED
  BY <1>3, <1>4

\* An account that nobody saved since is saved, with the role locked if it may lose a superadmin.
LEMMA MemberUpdated ==
  ASSUME StaffInv, NEW p \in AdminRequests, saveStaff(p)
  PROVE  StaffInv'
<1> DEFINE s == request[p].member
           kind == request[p].kind
           status == IF kind = "suspendStaff" THEN "SUSPENDED" ELSE IF kind = "reactivateStaff" THEN "ACTIVE" ELSE staff[s].status
           new == [status |-> status, roles |-> request[p].roles]
<1>1. /\ request[p] \in StaffRequest /\ Sound(request[p])
      /\ (kind \in Removing /\ request[p].locked) \/ kind = "reactivateStaff"
      /\ delegated \subseteq Permissions /\ crowned \subseteq Staff /\ founders \in Nat /\ founders <= 1
      /\ staff \in [Staff -> [status : {"NONE", "ACTIVE", "SUSPENDED"}, roles : SUBSET AllRoles]]
  BY DEF StaffInv, StaffTypeOK, SuperadminRemains, saveStaff, Removing
<1>2. s \in Staff /\ request[p].roles # {} /\ request[p].roles \in SUBSET AllRoles /\ s # Nobody
  BY <1>1, StaffRolesAssumption DEF Sound, ShapeSound, MemberKinds, StaffRequest, Removing
<1>3. CASE ~(IsFresh(p) /\ Assignable(p))
  BY <1>3, Answered DEF saveStaff
<1>4. CASE IsFresh(p) /\ Assignable(p)
  <2>0. staff[s].status \in {"NONE", "ACTIVE", "SUSPENDED"} /\ staff[s] = [status |-> staff[s].status, roles |-> staff[s].roles]
    BY <1>1, <1>2
  <2>1. /\ staff' = [staff EXCEPT ![s] = new]
        /\ request' = outdated(p, s, Nobody) /\ UNCHANGED <<role, revived, founders>>
        /\ \A r \in request[p].roles : roleExists(r)
    BY <1>1, <1>2, <1>4, <2>0 DEF saveStaff, Assignable
  <2>2. /\ new \in [status : {"ACTIVE", "SUSPENDED", "NONE"}, roles : SUBSET AllRoles]
        /\ new.roles = request[p].roles /\ new.status = status
    BY <1>2, <2>0
  <2>3. staff'[s] = new /\ \A i \in Staff \ {s} : staff'[i] = staff[i]
    BY <1>1, <1>2, <2>1
  <2> HIDE DEF new
  <2>4. /\ kind \in {"suspendStaff", "reactivateStaff"} => new.roles = staff[s].roles
        /\ Superadmin \in new.roles => founders # 0
        /\ Superadmin \in new.roles /\ kind = "reactivateStaff" => request[p].super
        /\ Superadmin \in new.roles /\ kind = "replaceRoles" => request[p].super \/ Superadmin \in staff[s].roles
    BY <1>1, <1>4, <2>2 DEF Sound, ShapeSound, CrownSound, IsFresh, Removing
  <2>5. /\ delegated \subseteq delegated' /\ delegated' \subseteq Permissions
        /\ \A r \in new.roles \ {Superadmin} : rolePermissions(r) \subseteq Known'
    <3>1. CASE kind = "suspendStaff"
      BY <1>4, <3>1, <1>2, <2>4, <1>1, <2>1 DEF saveStaff, StaffInv, StaffKnown, RolesKnown, Known
    <3>2. CASE kind # "suspendStaff"
      BY <1>4, <3>2, <2>1, <2>2, GivenIsKnown DEF saveStaff
    <3> QED
      BY <3>1, <3>2
  <2>6. /\ crowned' \subseteq Staff /\ crowned \subseteq crowned' \cup {s}
        /\ new.status = "ACTIVE" /\ Superadmin \in new.roles => s \in crowned'
    <3>1. CASE kind = "suspendStaff"
      BY <1>4, <3>1, <1>1, <2>2 DEF saveStaff
    <3>2. CASE kind = "replaceRoles" /\ Superadmin \in staff[s].roles \cap request[p].roles
      BY <1>4, <3>2, <1>2, <1>1, <2>2 DEF saveStaff, StaffInv, Crowned, Superadmins, isSuperadmin
    <3>3. CASE kind # "suspendStaff" /\ ~(kind = "replaceRoles" /\ Superadmin \in staff[s].roles \cap request[p].roles)
      BY <1>4, <3>3, <1>1, <2>2, <2>4, <1>2 DEF saveStaff, Removing, givenCrown
    <3> QED
      BY <3>1, <3>2, <3>3
  <2>7. CASE kind = "reactivateStaff" \/ Keeps(request[p])
    <3>1. s \in Superadmins => s \in Superadmins'
      BY <2>2, <2>4, <2>7, <1>2, <2>3 DEF Superadmins, isSuperadmin, Keeps
    <3>2. Superadmins \subseteq Superadmins'
      BY <2>3, <3>1 DEF Superadmins, isSuperadmin
    <3>3. founders' = 1 => Superadmins' # {}
      BY <2>1, <3>2 DEF StaffInv, SuperadminRemains
    <3> QED
      BY <1>1, <1>2, <2>1, <2>2, <2>4, <2>5, <2>6, <3>2, <3>3, MemberSaved
  <2>8. CASE kind \in Removing /\ ~Keeps(request[p])
    <3>1. request[p].locked
      BY <1>1, <2>8 DEF Removing
    <3>2. founders = 1 => Superadmins \ {s} # {}
      BY <1>1, <2>8, <3>1 DEF Sound, LockSound
    <3>3. Superadmins \ {s} \subseteq Superadmins'
      BY <2>3 DEF Superadmins, isSuperadmin
    <3>4. founders' = 1 => Superadmins' # {}
      BY <2>1, <3>2, <3>3
    <3> QED
      BY <1>1, <1>2, <2>1, <2>2, <2>4, <2>5, <2>6, <3>1, <3>4, MemberSaved
  <2> QED
    BY <1>1, <2>7, <2>8
<1> QED
  BY <1>3, <1>4

\* A role is saved or deleted: nobody has one that goes, and what it gets is known to who is about to give it.
LEMMA RoleSaved ==
  ASSUME StaffInv, NEW p \in AdminRequests, saveRole(p)
  PROVE  StaffInv'
<1> DEFINE kind == request[p].kind
           Q == request[p].permissions
           new == IF kind = "deleteRole" THEN NoRole ELSE Q
<1>1. /\ request[p] \in StaffRequest /\ Sound(request[p]) /\ kind \in RoleKinds
      /\ role \in [Roles -> (SUBSET (Permissions \ SuperadminOnly)) \cup {NoRole}] /\ StaffTypeOK
  BY DEF StaffInv, StaffTypeOK, saveRole, RoleKinds
<1>0. PICK r \in Roles : r = request[p].role
  BY <1>1 DEF Sound, ShapeSound
<1>2. /\ r \in Roles \cup {Nobody} /\ r # Superadmin /\ Q \in SUBSET (Permissions \ SuperadminOnly)
      /\ Nobody \notin Q /\ Q # NoRole /\ Nobody \in Staff \cup {Nobody}
  BY <1>0, <1>1, StaffRolesAssumption DEF Sound, ShapeSound, StaffRequest, NoRole
<1>3. CASE ~Writable(p)
  BY <1>3, Answered DEF saveRole
<1>4. CASE Writable(p)
  <2>1. /\ role' = [role EXCEPT ![r] = new] /\ request' = outdated(p, Nobody, r) /\ UNCHANGED <<staff, crowned, founders>>
        /\ delegated' = delegated \cup (IF request[p].super THEN Q ELSE {})
        /\ revived' = revived \cup (IF IsFresh(p) \/ request[p].super THEN {} ELSE Q)
    BY <1>0, <1>4 DEF saveRole
  <2>2. role'[r] = new /\ \A i \in Roles \ {r} : role'[i] = role[i]
    BY <1>1, <1>2, <2>1
  <2>4. /\ request' \in [AdminRequests -> StaffRequest]
        /\ request'[p] = Rest
        /\ \A q \in AdminRequests \ {p} : Sound(request'[q]) /\ (request'[q].fresh /\ r # Nobody => request'[q].role # r)
        /\ \A q \in AdminRequests : request'[q].locked => request[q].locked /\ q # p
    BY <1>2, <2>1, OthersAfterSave
  <2>5. StaffTypeOK'
    BY <1>1, <1>2, <2>1, <2>4 DEF StaffTypeOK
  <2>6. AssignedRolesExist'
    <3>1. kind = "deleteRole" => ~hasUsers(r)
      BY <1>0, <1>1, <1>4 DEF Writable, RoleKinds
    <3> QED
      BY <1>1, <1>2, <2>1, <2>2, <3>1 DEF StaffInv, StaffTypeOK, AssignedRolesExist, roleExists, hasUsers, AllRoles
  <2>7. OneLock' /\ Founded'
    BY <2>1, <2>4 DEF StaffInv, OneLock, Founded
  <2>8. SuperadminRemains' /\ Crowned'
    BY <2>1 DEF StaffInv, SuperadminRemains, Crowned, Superadmins, isSuperadmin
  <2>9. Known \subseteq Known'
    BY <2>1 DEF Known
  <2>10. rolePermissions(r) \subseteq Known => rolePermissions(r)' \subseteq Known'
    <3>1. CASE kind = "deleteRole"
      BY <1>2, <2>2, <3>1 DEF rolePermissions
    <3>2. CASE kind # "deleteRole" /\ (request[p].super \/ ~IsFresh(p))
      BY <2>1, <3>2, <1>2, <2>2 DEF Known, rolePermissions
    <3>3. CASE kind # "deleteRole" /\ ~request[p].super /\ IsFresh(p)
      BY <1>0, <1>1, <3>3, <1>2, <2>2, <2>9 DEF Sound, GiftSound, IsFresh, RoleKinds, rolePermissions, NoRole
    <3> QED
      BY <3>1, <3>2, <3>3
  <2>11. \A i \in AllRoles \ {Superadmin} : rolePermissions(i) \subseteq Known => rolePermissions(i)' \subseteq Known'
    BY <2>2, <2>9, <2>10 DEF rolePermissions, AllRoles
  <2>12. StaffKnown'
    BY <1>1, <2>1, <2>11 DEF StaffInv, StaffTypeOK, StaffKnown, RolesKnown
  <2>13. ASSUME NEW q \in AdminRequests
         PROVE  Sound(request[q])'
    <3> DEFINE y == request'[q]
    <3>1. CASE q = p
      <4>1. y = Rest
        BY <2>4, <3>1
      <4>2. y.kind = "idle" /\ y.roles = {} /\ ~y.locked
        BY <4>1 DEF Rest, toSave
      <4> QED
        BY <4>2 DEF Sound, ShapeSound, CrownSound, LockSound, GiftSound, RolesKnown, MemberKinds, RoleKinds, Removing
    <3>2. CASE q # p
      <4>1. Sound(y) /\ (y.fresh /\ r # Nobody => y.role # r) /\ y \in StaffRequest
        BY <2>4, <3>2
      <4>2. ShapeSound(request[q])' /\ CrownSound(request[q])'
        BY <2>1, <4>1 DEF Sound, ShapeSound, CrownSound
      <4>3. LockSound(request[q])'
        BY <2>1, <4>1 DEF Sound, LockSound, Keeps, Superadmins, isSuperadmin
      <4>4. y.roles \subseteq AllRoles
        BY <4>1 DEF StaffRequest
      <4>5. ~y.super => \A i \in y.roles \ {Superadmin} : rolePermissions(i)' \subseteq Known'
        BY <2>11, <4>1, <4>4 DEF Sound, GiftSound, RolesKnown
      <4>6. ~y.super /\ y.fresh /\ y.kind \in {"createRole", "updateRole"} => y.permissions \ role'[y.role] \subseteq Known'
        BY <4>1, <1>0, <2>2, <2>9, StaffRolesAssumption DEF Sound, ShapeSound, RoleKinds, GiftSound
      <4>7. GiftSound(request[q])'
        BY <4>5, <4>6 DEF GiftSound, RolesKnown
      <4> QED
        BY <4>2, <4>3, <4>7 DEF Sound
    <3> QED
      BY <3>1, <3>2
  <2> QED
    BY <2>5, <2>6, <2>7, <2>8, <2>12, <2>13 DEF StaffInv
<1> QED
  BY <1>3, <1>4

-----------------------------------------------------------------------------
\* However many members of the staff give, take, create and delete at the same time: once there is a superadmin one
\* remains, only superadmins make others, nobody else holds what no superadmin gave, and every role in use exists
\* (GrantLimits, SuperadminContinuity, PrismaRoleRepository).
THEOREM PowerIsAlwaysKept == StaffSpec => []PowerIsKept
<1>1. StaffInit => StaffInv
  <2> SUFFICES ASSUME StaffInit
               PROVE  StaffInv
    OBVIOUS
  <2>1. StaffTypeOK
    BY RestIsSound, StaffRolesAssumption DEF StaffInit, StaffTypeOK, NoRole
  <2>2. \A s \in Staff : staff[s].status = "NONE" /\ staff[s].roles = {}
    BY DEF StaffInit
  <2>3. Superadmins = {}
    BY <2>2 DEF Superadmins, isSuperadmin
  <2>4. AssignedRolesExist /\ Founded /\ StaffKnown
    BY <2>2 DEF AssignedRolesExist, Founded, StaffKnown, RolesKnown
  <2>5. SuperadminRemains /\ Crowned
    BY <2>3 DEF StaffInit, SuperadminRemains, Crowned
  <2>6. OneLock
    BY RestIsSound DEF StaffInit, OneLock
  <2>7. \A p \in AdminRequests : Sound(request[p])
    BY RestIsSound DEF StaffInit
  <2> QED
    BY <2>1, <2>4, <2>5, <2>6, <2>7 DEF StaffInv
<1>2. StaffInv /\ [StaffNext]_staffVars => StaffInv'
  <2> SUFFICES ASSUME StaffInv, [StaffNext]_staffVars
               PROVE  StaffInv'
    OBVIOUS
  <2>1. ASSUME NEW p \in AdminRequests, NEW s \in Staff, createFirstSuperadmin(p, s)
        PROVE  StaffInv'
    BY <2>1, ScriptAsked
  <2>2. ASSUME NEW p \in AdminRequests, NEW a \in Staff, NEW s \in Staff, suspendStaff(p, a, s) \/ reactivateStaff(p, a, s)
        PROVE  StaffInv'
    BY <2>2, MembersAsked
  <2>3. ASSUME NEW p \in AdminRequests, NEW a \in Staff, NEW s \in Staff, NEW roles \in SUBSET AllRoles,
               createStaff(p, a, s, roles) \/ replaceStaffRoles(p, a, s, roles)
        PROVE  StaffInv'
    BY <2>3, MembersAsked
  <2>4. ASSUME NEW p \in AdminRequests, NEW a \in Staff, NEW r \in Roles, deleteRole(p, a, r)
        PROVE  StaffInv'
    BY <2>4, RolesAsked
  <2>5. ASSUME NEW p \in AdminRequests, NEW a \in Staff, NEW r \in Roles, NEW permissions \in SUBSET Permissions,
               createRole(p, a, r, permissions) \/ updateRole(p, a, r, permissions)
        PROVE  StaffInv'
    BY <2>5, RolesAsked
  <2>6. ASSUME NEW p \in AdminRequests, ensureAnotherRemains(p) \/ addStaff(p) \/ saveStaff(p) \/ saveRole(p)
        PROVE  StaffInv'
    BY <2>6, RoleLocked, MemberAdded, MemberUpdated, RoleSaved
  <2>7. CASE UNCHANGED staffVars
    BY <2>7 DEF staffVars, StaffInv, StaffTypeOK, AssignedRolesExist, roleExists, SuperadminRemains, OneLock, Founded,
                Crowned, StaffKnown, Sound, ShapeSound, CrownSound, LockSound, GiftSound, RolesKnown, rolePermissions,
                Known, Superadmins, isSuperadmin, Keeps
  <2> QED
    BY <2>1, <2>2, <2>3, <2>4, <2>5, <2>6, <2>7 DEF StaffNext
<1>3. StaffInv => PowerIsKept
  BY OthersHoldKnown DEF StaffInv, PowerIsKept, Superadmins, Crowned, PowerIsDelegated, Known
<1> QED
  BY <1>1, <1>2, <1>3, PTL DEF StaffSpec

-----------------------------------------------------------------------------
(* The access links of guests.                                             *)

\* Who issues a link holds the email, its orders are there, and it invalidates every link that is good.
IssuesSound ==
  \A l \in AccessLinks :
    /\ issuing[l].busy => emailLock = l /\ WithEmail # {} /\ Pending \subseteq issuing[l].invalidates
    /\ issuing[l].busy \/ issuing[l] = NotIssuing

GuestInv ==
  /\ guestOrders \in [GuestOrders -> [status : {"NONE", "OPEN", "CONCLUDED"}, personal : BOOLEAN]]
  /\ DOMAIN links = AccessLinks /\ issuing \in [AccessLinks -> [busy : BOOLEAN, invalidates : SUBSET AccessLinks]]
  /\ IssuesSound /\ LinksFollowGuests

\* A step that leaves the links and who issues them alone, and takes no email away.
LEMMA GuestsBuy ==
  ASSUME GuestInv, UNCHANGED <<links, issuing, emailLock>>, WithEmail \subseteq WithEmail',
         guestOrders' \in [GuestOrders -> [status : {"NONE", "OPEN", "CONCLUDED"}, personal : BOOLEAN]]
  PROVE  GuestInv'
<1>1. Pending' = Pending
  BY DEF Pending
<1>2. IssuesSound'
  BY <1>1 DEF GuestInv, IssuesSound
<1>3. LinksFollowGuests'
  BY <1>1 DEF GuestInv, LinksFollowGuests, OneAccessLink, NoLinkOfNobody
<1> QED
  BY <1>2, <1>3 DEF GuestInv

\* Each step of a guest's access to orders keeps its invariant.
LEMMA GuestStep == GuestInv /\ [GuestAccessNext]_guestVars => GuestInv'
<1> SUFFICES ASSUME GuestInv, [GuestAccessNext]_guestVars
             PROVE  GuestInv'
  OBVIOUS
<1>0. /\ guestOrders \in [GuestOrders -> [status : {"NONE", "OPEN", "CONCLUDED"}, personal : BOOLEAN]]
      /\ issuing \in [AccessLinks -> [busy : BOOLEAN, invalidates : SUBSET AccessLinks]]
      /\ IssuesSound /\ OneAccessLink /\ NoLinkOfNobody /\ DOMAIN links = AccessLinks
  BY DEF GuestInv, LinksFollowGuests
<1>1. ASSUME NEW o \in GuestOrders, buyAsGuest(o)
      PROVE  GuestInv'
  BY <1>0, <1>1, GuestsBuy DEF buyAsGuest, NoGuestOrder, WithEmail
<1>2. ASSUME NEW o \in GuestOrders, concludeGuestOrder(o)
      PROVE  GuestInv'
  BY <1>2, <1>0, GuestsBuy DEF concludeGuestOrder, WithEmail
<1>3. CASE (\E found : eraseGuestOrders(found)) \/ UNCHANGED guestVars
  BY <1>3, <1>0, GuestsBuy DEF eraseGuestOrders, guestVars, WithEmail
<1>4. CASE deleteLinksOf
  <2>1. UNCHANGED <<guestOrders, links, issuing>> /\ emailLock = Free
    BY <1>4 DEF deleteLinksOf, lockEmail
  <2>2. WithEmail' = WithEmail /\ Pending' = Pending
    BY <2>1 DEF WithEmail, Pending
  <2>3. \A l \in AccessLinks : ~issuing[l].busy
    BY <1>0, <2>1, GuestAccessAssumption DEF IssuesSound
  <2>4. IssuesSound'
    BY <1>0, <2>1, <2>3 DEF IssuesSound
  <2>5. LinksFollowGuests'
    BY <1>0, <2>1, <2>2 DEF LinksFollowGuests, OneAccessLink, NoLinkOfNobody
  <2> QED
    BY <1>0, <2>1, <2>4, <2>5 DEF GuestInv
<1>5. CASE commitGuestErasure
  <2>1. /\ emailLock = Anonymizer /\ emailLock' = Free /\ UNCHANGED issuing
        /\ guestOrders' = [o \in GuestOrders |-> IF o \in guestErasure THEN [guestOrders[o] EXCEPT !.personal = FALSE] ELSE guestOrders[o]]
        /\ links' = [l \in AccessLinks |-> IF links[l] = "NONE" THEN "NONE" ELSE "DELETED"]
    BY <1>5 DEF commitGuestErasure
  <2>2. \A l \in AccessLinks : ~issuing[l].busy
    BY <1>0, <2>1, GuestAccessAssumption DEF IssuesSound
  <2>3. IssuesSound'
    BY <1>0, <2>1, <2>2 DEF IssuesSound
  <2>4. guestOrders' \in [GuestOrders -> [status : {"NONE", "OPEN", "CONCLUDED"}, personal : BOOLEAN]]
    BY <1>0, <2>1
  <2>5. LinksFollowGuests'
    BY <2>1 DEF LinksFollowGuests, OneAccessLink, NoLinkOfNobody, Pending
  <2> QED
    BY <1>0, <2>1, <2>3, <2>4, <2>5 DEF GuestInv
<1>6. CASE deleteSpent
  <2>1. /\ UNCHANGED <<guestOrders, issuing, emailLock>>
        /\ links' = [l \in AccessLinks |-> IF links[l] \in {"USED", "INVALIDATED"} THEN "DELETED" ELSE links[l]]
    BY <1>6 DEF deleteSpent
  <2>2. Pending' = Pending /\ WithEmail' = WithEmail
    BY <2>1 DEF Pending, WithEmail
  <2>3. IssuesSound'
    BY <1>0, <2>1, <2>2 DEF IssuesSound
  <2>4. OneAccessLink' /\ NoLinkOfNobody'
    BY <1>0, <2>1, <2>2 DEF OneAccessLink, NoLinkOfNobody
  <2> QED
    BY <1>0, <2>1, <2>3, <2>4 DEF GuestInv, LinksFollowGuests
<1>7. ASSUME NEW l \in AccessLinks, startIssue(l)
      PROVE  GuestInv'
  <2>1. /\ UNCHANGED <<guestOrders, links>> /\ WithEmail # {} /\ emailLock = Free /\ emailLock' = l
        /\ issuing' = [issuing EXCEPT ![l] = [busy |-> TRUE, invalidates |-> Pending]]
    BY <1>7 DEF startIssue, lockEmail
  <2>2. Pending' = Pending /\ WithEmail' = WithEmail /\ Pending \subseteq AccessLinks
    BY <2>1 DEF Pending, WithEmail
  <2>3. \A k \in AccessLinks : ~issuing[k].busy
    BY <1>0, <2>1, GuestAccessAssumption DEF IssuesSound
  <2>4. IssuesSound'
    BY <1>0, <2>1, <2>2, <2>3 DEF IssuesSound
  <2>5. OneAccessLink' /\ NoLinkOfNobody'
    BY <1>0, <2>1, <2>2 DEF OneAccessLink, NoLinkOfNobody
  <2>6. issuing' \in [AccessLinks -> [busy : BOOLEAN, invalidates : SUBSET AccessLinks]]
    BY <1>0, <2>1, <2>2
  <2> QED
    BY <1>0, <2>1, <2>4, <2>5, <2>6 DEF GuestInv, LinksFollowGuests
<1>8. ASSUME NEW l \in AccessLinks, endIssue(l)
      PROVE  GuestInv'
  <2>1. /\ UNCHANGED guestOrders /\ issuing[l].busy /\ emailLock' = Free
        /\ issuing' = [issuing EXCEPT ![l] = NotIssuing]
        /\ links' = [k \in AccessLinks |->
             IF k = l THEN "PENDING" ELSE IF k \in issuing[l].invalidates THEN "INVALIDATED" ELSE links[k]]
    BY <1>8 DEF endIssue
  <2>2. WithEmail # {} /\ Pending \subseteq issuing[l].invalidates /\ emailLock = l
    BY <1>0, <2>1 DEF IssuesSound
  <2>3. Pending' = {l} /\ WithEmail' = WithEmail
    BY <2>1, <2>2 DEF Pending, WithEmail
  <2>4. \A k \in AccessLinks \ {l} : ~issuing[k].busy
    BY <1>0, <2>2 DEF IssuesSound
  <2>5. issuing' \in [AccessLinks -> [busy : BOOLEAN, invalidates : SUBSET AccessLinks]] /\ \A k \in AccessLinks : ~issuing'[k].busy
    BY <1>0, <2>1, <2>4 DEF NotIssuing
  <2>6. IssuesSound'
    BY <1>0, <2>1, <2>4, <2>5 DEF IssuesSound
  <2>7. OneAccessLink' /\ NoLinkOfNobody'
    BY <2>2, <2>3 DEF OneAccessLink, NoLinkOfNobody
  <2> QED
    BY <1>0, <2>1, <2>5, <2>6, <2>7 DEF GuestInv, LinksFollowGuests
<1>9. ASSUME NEW l \in AccessLinks, redeem(l)
      PROVE  GuestInv'
  <2>1. /\ UNCHANGED <<guestOrders, issuing, emailLock>> /\ links[l] = "PENDING"
        /\ links' = [links EXCEPT ![l] = "USED"]
    BY <1>9 DEF redeem
  <2>2. Pending' \subseteq Pending /\ WithEmail' = WithEmail /\ WithEmail # {} /\ DOMAIN links' = AccessLinks
    BY <1>0, <2>1 DEF Pending, WithEmail, NoLinkOfNobody
  <2>3. IssuesSound'
    BY <1>0, <2>1, <2>2 DEF IssuesSound
  <2>4. OneAccessLink' /\ NoLinkOfNobody'
    BY <1>0, <2>2 DEF OneAccessLink, NoLinkOfNobody
  <2> QED
    BY <1>0, <2>1, <2>2, <2>3, <2>4 DEF GuestInv, LinksFollowGuests
<1> QED
  BY <1>1, <1>2, <1>3, <1>4, <1>5, <1>6, <1>7, <1>8, <1>9 DEF GuestAccessNext

\* One link to the orders of a guest is good, and none once nobody is behind them.
LEMMA LinksAlwaysFollow == GuestAccessSpec => []LinksFollowGuests
<1>1. GuestAccessInit => GuestInv
  BY DEF GuestAccessInit, GuestInv, NoGuestOrder, NotIssuing, IssuesSound, LinksFollowGuests, OneAccessLink,
         NoLinkOfNobody, Pending
<1>2. GuestInv => LinksFollowGuests
  BY DEF GuestInv
<1> QED
  BY <1>1, <1>2, GuestStep, PTL DEF GuestAccessSpec

-----------------------------------------------------------------------------
(* Repairs and the anonymization of customers: the inductive invariant.    *)

ClientOrNone == Clients \cup {NoClient}
WorkRow == [status : WorkOrderStatuses, customer : ClientOrNone, personal : BOOLEAN, blocked : BOOLEAN,
            anonymized : BOOLEAN, history : Seq(WorkOrderStatuses), sales : SUBSET Sales, age : Nat]
WorkRequest == [op : {"receive", "edit", "move", "link", "unlink"}, id : WorkOrderIds,
                arg : ClientOrNone \cup WorkOrderStatuses \cup Sales, names : ClientOrNone, fresh : BOOLEAN]
PurchaseRow == [status : {"NONE", "OPEN", "CONCLUDED"}, customer : ClientOrNone, personal : BOOLEAN, reopened : BOOLEAN]
Erasure == [step : {"none", "account", "inactive", "concluded", "orders", "workOrders"},
            purchases : SUBSET Purchases, workOrders : SUBSET WorkOrderIds]

HistoryOK(h, status) ==
  /\ Len(h) > 0 /\ h[Len(h)] = status
  /\ \A i \in 1..(Len(h) - 1) : h[i] \notin CLOSED /\ (h[i + 1] # "CANCELLED" => indexOf(h[i]) < indexOf(h[i + 1]))
RowOK(row) ==
  \/ row = Unreceived
  \/ row \in WorkRow /\ HistoryOK(row.history, row.status) /\ (row.anonymized => ~row.personal)

\* What a request read is still so while nobody saved the work order: it is open, and its change is allowed.
RequestOK(q) ==
  q = NoRequest \/
    /\ q \in WorkRequest
    /\ q.fresh =>
         LET row == workOrders[q.id] IN
         /\ q.op = "receive" => row = Unreceived /\ q.arg \in ClientOrNone /\ q.names = q.arg
         /\ q.op # "receive" => row # Unreceived /\ row.status \notin CLOSED
         /\ q.op = "edit" => q.arg \in ClientOrNone /\ (q.names = q.arg \/ q.arg = row.customer)
         /\ q.op = "move" => q.arg \in WorkOrderStatuses /\ Forward(row.status, q.arg)
         /\ q.op \in {"link", "unlink"} => q.arg \in Sales

WorkOrdersSound ==
  /\ DOMAIN workOrders = WorkOrderIds /\ \A w \in WorkOrderIds : RowOK(workOrders[w])
  /\ DOMAIN staffRequests = StaffRequests /\ \A r \in StaffRequests : RequestOK(staffRequests[r])

\* An account that somebody named or is buying with is not being anonymized.
Held(c) == accounts[c] = "ACTIVE" /\ erasures[c].step = "none"
SharesHeld ==
  /\ \A r \in StaffRequests : staffRequests[r].names # NoClient => Held(staffRequests[r].names)
  /\ \A o \in Purchases : checkouts[o] # NoClient => Held(checkouts[o])

\* What an anonymization found is still all there is.
PurchasesFound ==
  \A c \in Clients :
    /\ erasures[c].step \in {"orders", "workOrders"} => \A o \in OfClient(c) : purchases[o].personal => o \in erasures[c].purchases
    /\ erasures[c].step = "concluded" => \A o \in OfClient(c) : purchases[o].status = "OPEN" => purchases[o].reopened
WorkOrdersFound ==
  \A c \in Clients : erasures[c].step = "workOrders" =>
    \A w \in WorkOrderIds : workOrders[w].customer = c /\ workOrders[w].personal => w \in erasures[c].workOrders
FoundClosed == \A c \in Clients : \A w \in erasures[c].workOrders : workOrders[w].status \in CLOSED

PurchasesErased == \A c \in Clients : accounts[c] = "ERASED" => \A o \in OfClient(c) : ~purchases[o].personal
WorkOrdersErased ==
  \A c \in Clients : accounts[c] = "ERASED" => \A w \in WorkOrderIds : workOrders[w].customer = c => ~workOrders[w].personal

PrivacyTypes ==
  /\ accounts \in [Clients -> {"ACTIVE", "ERASED", "LAPSED"}] /\ erasures \in [Clients -> Erasure]
  /\ purchases \in [Purchases -> PurchaseRow] /\ checkouts \in [Purchases -> ClientOrNone]
  /\ \A o \in Purchases : purchases[o].status # "NONE" => purchases[o].customer \in Clients

PrivacyInv ==
  /\ PrivacyTypes /\ WorkOrdersSound /\ SharesHeld /\ PurchasesFound /\ WorkOrdersFound
  /\ FoundClosed /\ PurchasesErased /\ WorkOrdersErased /\ LapsedHasConcluded

\* What a step may do to a row: the new one is sound, a closed one only loses texts, and texts about a customer come
\* only from a request that holds their account.
Final(old, new) ==
  old.status \in CLOSED =>
    /\ new.status = old.status /\ new.customer = old.customer /\ new.history = old.history /\ new.sales = old.sales
    /\ new.personal => old.personal
    /\ old.anonymized => new.anonymized /\ ~new.personal
NoNewTexts(old, new) ==
  new.personal /\ new.customer \in Clients => (old.personal /\ old.customer = new.customer) \/ Held(new.customer)
Follows(old, new) == RowOK(new) /\ Final(old, new) /\ NoNewTexts(old, new)

-----------------------------------------------------------------------------
(* Rows.                                                                   *)

\* A work order not received yet has nothing in it.
LEMMA UnreceivedFields ==
  /\ Unreceived.status = "NONE" /\ Unreceived.customer = NoClient /\ Unreceived.personal = FALSE
  /\ Unreceived.anonymized = FALSE /\ Unreceived.history = <<>> /\ Unreceived.sales = {}
  /\ "NONE" \notin WorkOrderStatuses /\ "RECEIVED" \in WorkOrderStatuses /\ "RECEIVED" # "CANCELLED"
<1>1. "NONE" \notin WorkOrderStatuses
  BY WorkOrdersAssumption DEF WorkOrderStatuses
<1>2. 1 \in DOMAIN FORWARD
  BY WorkOrdersAssumption, LenProperties
<1>3. "RECEIVED" \in WorkOrderStatuses
  BY <1>2, WorkOrdersAssumption DEF WorkOrderStatuses
<1> QED
  BY <1>1, <1>3 DEF Unreceived

\* The position of a status in a repair.
LEMMA IndexIsNat ==
  ASSUME NEW status \in WorkOrderStatuses, status # "CANCELLED"
  PROVE  indexOf(status) \in Nat
<1>1. DOMAIN FORWARD \subseteq Nat
  BY WorkOrdersAssumption, LenProperties
<1>2. \E i \in DOMAIN FORWARD : FORWARD[i] = status
  BY DEF WorkOrderStatuses
<1>3. indexOf(status) \in DOMAIN FORWARD
  BY <1>2 DEF indexOf
<1> QED
  BY <1>1, <1>3

\* A status further along ends the history of an open repair.
LEMMA HistoryGrows ==
  ASSUME NEW h \in Seq(WorkOrderStatuses), NEW status \in WorkOrderStatuses \ CLOSED, NEW to \in WorkOrderStatuses,
         HistoryOK(h, status), Forward(status, to)
  PROVE  Append(h, to) \in Seq(WorkOrderStatuses) /\ HistoryOK(Append(h, to), to)
<1> DEFINE g == Append(h, to)
           n == Len(h)
<1>1. n \in Nat /\ n > 0 /\ h[n] = status
  BY DEF HistoryOK
<1>2. g \in Seq(WorkOrderStatuses) /\ Len(g) = n + 1 /\ g[n + 1] = to /\ \A i \in 1..n : g[i] = h[i]
  BY <1>1
<1>3. status # "CANCELLED"
  BY DEF CLOSED
<1>4. to # "CANCELLED" => indexOf(status) < indexOf(to)
  BY <1>3, IndexIsNat DEF Forward
<1> HIDE DEF g, n
<1>5. ASSUME NEW i \in 1..n
      PROVE  g[i] \notin CLOSED /\ (g[i + 1] # "CANCELLED" => indexOf(g[i]) < indexOf(g[i + 1]))
  <2>1. CASE i = n
    BY <1>1, <1>2, <1>4, <2>1
  <2>2. CASE i # n
    BY <1>1, <2>2, <1>2 DEF HistoryOK, n
  <2> QED
    BY <2>1, <2>2
<1>6. Len(g) > 0 /\ Len(g) - 1 = n
  BY <1>1, <1>2
<1>7. HistoryOK(g, to)
  BY <1>2, <1>5, <1>6 DEF HistoryOK
<1> QED
  BY <1>2, <1>7 DEF g

\* What a request writes follows what it read.
LEMMA ChangeFollows ==
  ASSUME PrivacyInv, NEW r \in StaffRequests, staffRequests[r] # NoRequest, staffRequests[r].fresh
  PROVE  Follows(workOrders[staffRequests[r].id], changed(staffRequests[r]))
<1> DEFINE q == staffRequests[r]
           row == workOrders[q.id]
<1>1. q \in WorkRequest /\ RequestOK(q) /\ RowOK(row) /\ q.id \in WorkOrderIds
  BY DEF PrivacyInv, WorkOrdersSound, RequestOK, WorkRequest
<1>2. q.names # NoClient => Held(q.names)
  BY DEF PrivacyInv, SharesHeld
<1>3. CASE q.op = "receive"
  <2> DEFINE new == [status |-> "RECEIVED", customer |-> q.arg, personal |-> TRUE, blocked |-> FALSE, anonymized |-> FALSE,
                     history |-> <<"RECEIVED">>, sales |-> {}, age |-> 0]
  <2>1. row = Unreceived /\ q.arg \in ClientOrNone /\ q.names = q.arg
    BY <1>1, <1>3 DEF RequestOK
  <2>2. changed(q) = new
    BY <1>3 DEF changed, received, Unreceived
  <2>3. <<"RECEIVED">> \in Seq(WorkOrderStatuses) /\ Len(<<"RECEIVED">>) = 1 /\ <<"RECEIVED">>[1] = "RECEIVED"
    BY UnreceivedFields
  <2>4. new \in WorkRow
    BY <2>1, <2>3, UnreceivedFields DEF WorkRow
  <2>5. HistoryOK(<<"RECEIVED">>, "RECEIVED")
    BY <2>3 DEF HistoryOK
  <2>6. RowOK(new)
    BY <2>4, <2>5 DEF RowOK
  <2>7. Final(row, new)
    BY <2>1, UnreceivedFields DEF Final, CLOSED
  <2>8. NoNewTexts(row, new)
    BY <1>2, <2>1, WorkOrdersAssumption DEF NoNewTexts
  <2> QED
    BY <2>2, <2>6, <2>7, <2>8 DEF Follows
<1>4. CASE q.op # "receive"
  <2>1. /\ row # Unreceived /\ row \in WorkRow /\ row.status \notin CLOSED
        /\ HistoryOK(row.history, row.status) /\ (row.anonymized => ~row.personal)
    BY <1>1, <1>4 DEF RequestOK, RowOK
  <2>2. \A new : Final(row, new)
    BY <2>1 DEF Final
  <2>3. CASE q.op = "edit"
    <3> DEFINE new == [row EXCEPT !.customer = q.arg]
    <3>1. q.arg \in ClientOrNone /\ (q.names = q.arg \/ q.arg = row.customer)
      BY <1>1, <2>3 DEF RequestOK
    <3>2. changed(q) = new
      BY <2>3 DEF changed
    <3>3. /\ new \in WorkRow /\ new.status = row.status /\ new.customer = q.arg /\ new.history = row.history
          /\ new.personal = row.personal /\ new.anonymized = row.anonymized
      BY <2>1, <3>1 DEF WorkRow
    <3> HIDE DEF new
    <3>4. RowOK(new)
      BY <2>1, <3>3 DEF RowOK
    <3>5. NoNewTexts(row, new)
      BY <1>2, <3>1, <3>3, WorkOrdersAssumption DEF NoNewTexts
    <3> QED
      BY <2>2, <3>2, <3>4, <3>5 DEF Follows
  <2>4. CASE q.op = "move"
    <3> DEFINE h == Append(row.history, q.arg)
               new == [row EXCEPT !.status = q.arg, !.history = h]
    <3>1. q.arg \in WorkOrderStatuses /\ Forward(row.status, q.arg)
      BY <1>1, <2>4 DEF RequestOK
    <3>2. changed(q) = new
      BY <2>1, <2>4 DEF changed, WorkRow
    <3>3. h \in Seq(WorkOrderStatuses) /\ HistoryOK(h, q.arg)
      BY <2>1, <3>1, HistoryGrows DEF WorkRow
    <3> HIDE DEF h
    <3>4. /\ new \in WorkRow /\ new.status = q.arg /\ new.customer = row.customer /\ new.history = h
          /\ new.personal = row.personal /\ new.anonymized = row.anonymized
      BY <2>1, <3>1, <3>3 DEF WorkRow
    <3> HIDE DEF new
    <3>5. RowOK(new)
      BY <2>1, <3>3, <3>4 DEF RowOK
    <3>6. NoNewTexts(row, new)
      BY <3>4 DEF NoNewTexts
    <3> QED
      BY <2>2, <3>2, <3>5, <3>6 DEF Follows
  <2>5. CASE q.op \in {"link", "unlink"}
    <3>1. q.arg \in Sales
      BY <1>1, <2>5 DEF RequestOK
    <3>2. PICK sales \in SUBSET Sales : changed(q) = [row EXCEPT !.sales = sales]
      <4>1. row.sales \in SUBSET Sales
        BY <2>1 DEF WorkRow
      <4>2. CASE q.op = "link"
        BY <2>1, <4>2, <3>1, <4>1 DEF changed, WorkRow
      <4>3. CASE q.op = "unlink"
        BY <2>1, <4>3, <3>1, <4>1 DEF changed, WorkRow
      <4> QED
        BY <2>5, <4>2, <4>3
    <3> DEFINE new == [row EXCEPT !.sales = sales]
    <3>3. /\ new \in WorkRow /\ new.status = row.status /\ new.customer = row.customer /\ new.history = row.history
          /\ new.personal = row.personal /\ new.anonymized = row.anonymized
      BY <2>1 DEF WorkRow
    <3> HIDE DEF new
    <3>4. RowOK(new) /\ NoNewTexts(row, new)
      BY <2>1, <3>3 DEF RowOK, NoNewTexts
    <3> QED
      BY <2>2, <3>2, <3>4 DEF Follows, new
  <2> QED
    BY <1>1, <1>4, <2>3, <2>4, <2>5 DEF WorkRequest
<1> QED
  BY <1>3, <1>4

\* The retention of a closed row follows it too, and so does its anonymization.
LEMMA RetentionFollows ==
  ASSUME PrivacyInv, NEW w \in WorkOrderIds, workOrders[w].status \in CLOSED
  PROVE  /\ Follows(workOrders[w], [workOrders[w] EXCEPT !.age = @ + 1])
         /\ Follows(workOrders[w], [workOrders[w] EXCEPT !.blocked = TRUE])
         /\ Follows(workOrders[w], anonymized(workOrders[w]))
<1> DEFINE row == workOrders[w]
           aged == [row EXCEPT !.age = @ + 1]
           blocked == [row EXCEPT !.blocked = TRUE]
           erased == [row EXCEPT !.personal = FALSE, !.anonymized = TRUE]
<1>1. row \in WorkRow /\ HistoryOK(row.history, row.status) /\ (row.anonymized => ~row.personal)
  BY UnreceivedFields DEF PrivacyInv, WorkOrdersSound, RowOK, CLOSED
<1>2. /\ aged \in WorkRow /\ aged.status = row.status /\ aged.customer = row.customer /\ aged.history = row.history
      /\ aged.sales = row.sales /\ aged.personal = row.personal /\ aged.anonymized = row.anonymized
  BY <1>1 DEF WorkRow
<1>3. /\ blocked \in WorkRow /\ blocked.status = row.status /\ blocked.customer = row.customer /\ blocked.history = row.history
      /\ blocked.sales = row.sales /\ blocked.personal = row.personal /\ blocked.anonymized = row.anonymized
  BY <1>1 DEF WorkRow
<1>4. /\ erased \in WorkRow /\ erased.status = row.status /\ erased.customer = row.customer /\ erased.history = row.history
      /\ erased.sales = row.sales /\ erased.personal = FALSE /\ erased.anonymized = TRUE
  BY <1>1 DEF WorkRow
<1>5. anonymized(workOrders[w]) = erased
  BY DEF anonymized
<1> HIDE DEF row, aged, blocked, erased
<1>6. Follows(row, aged)
  BY <1>1, <1>2 DEF Follows, RowOK, Final, NoNewTexts
<1>7. Follows(row, blocked)
  BY <1>1, <1>3 DEF Follows, RowOK, Final, NoNewTexts
<1>8. Follows(row, erased)
  BY <1>1, <1>4 DEF Follows, RowOK, Final, NoNewTexts
<1> QED
  BY <1>5, <1>6, <1>7, <1>8 DEF row, aged, blocked

\* A request as it was, or with a stale copy.
OldCopy(q) == [q EXCEPT !.fresh = FALSE]
Copy(q, new) == new = q \/ (q # NoRequest /\ new = OldCopy(q))

\* Rows W are saved, and no request keeps a fresh copy of them.
LEMMA RowsSaved ==
  ASSUME PrivacyInv, NEW W \in SUBSET WorkOrderIds,
         DOMAIN workOrders' = WorkOrderIds, DOMAIN staffRequests' = StaffRequests,
         \A w \in WorkOrderIds \ W : workOrders'[w] = workOrders[w],
         \A w \in W : Follows(workOrders[w], workOrders'[w]),
         \A r \in StaffRequests : staffRequests'[r] = NoRequest \/
           (Copy(staffRequests[r], staffRequests'[r]) /\ (staffRequests'[r].fresh => staffRequests[r].id \notin W))
  PROVE  /\ WorkOrdersSound'
         /\ \A r \in StaffRequests : staffRequests'[r].names # NoClient => staffRequests'[r].names = staffRequests[r].names
         /\ \A w \in WorkOrderIds : Final(workOrders[w], workOrders'[w]) /\ NoNewTexts(workOrders[w], workOrders'[w])
<1>1. \A w \in WorkOrderIds : RowOK(workOrders[w]) /\ RowOK(workOrders'[w])
  BY DEF PrivacyInv, WorkOrdersSound, Follows
<1>2. ASSUME NEW w \in WorkOrderIds
      PROVE  Final(workOrders[w], workOrders'[w]) /\ NoNewTexts(workOrders[w], workOrders'[w])
  <2>1. CASE w \in W
    BY <2>1 DEF Follows
  <2>2. CASE w \notin W
    BY <1>1, UnreceivedFields, <2>2 DEF RowOK, Final, NoNewTexts
  <2> QED
    BY <2>1, <2>2
<1>3. ASSUME NEW r \in StaffRequests
      PROVE  /\ RequestOK(staffRequests[r])'
             /\ staffRequests'[r].names # NoClient => staffRequests'[r].names = staffRequests[r].names
  <2> DEFINE q == staffRequests[r]
             new == staffRequests'[r]
  <2>1. RequestOK(q)
    BY DEF PrivacyInv, WorkOrdersSound
  <2>2. CASE new = NoRequest
    BY <2>2 DEF RequestOK, NoRequest
  <2>3. CASE new # NoRequest
    <3>1. Copy(q, new) /\ (new.fresh => q.id \notin W)
      BY <2>3
    <3>2. q # NoRequest
      BY <2>3, <3>1 DEF Copy, OldCopy
    <3>3. q \in WorkRequest
      BY <2>1, <3>2 DEF RequestOK
    <3>4. /\ new \in WorkRequest /\ new.op = q.op /\ new.id = q.id /\ new.arg = q.arg /\ new.names = q.names
          /\ new.fresh => q.fresh
      BY <3>1, <3>3 DEF Copy, OldCopy, WorkRequest
    <3>5. new.fresh => workOrders'[q.id] = workOrders[q.id]
      BY <3>1, <3>3 DEF WorkRequest
    <3> HIDE DEF new
    <3>6. new = NoRequest \/
            /\ new \in WorkRequest
            /\ new.fresh =>
                 LET row == workOrders'[new.id] IN
                 /\ new.op = "receive" => row = Unreceived /\ new.arg \in ClientOrNone /\ new.names = new.arg
                 /\ new.op # "receive" => row # Unreceived /\ row.status \notin CLOSED
                 /\ new.op = "edit" => new.arg \in ClientOrNone /\ (new.names = new.arg \/ new.arg = row.customer)
                 /\ new.op = "move" => new.arg \in WorkOrderStatuses /\ Forward(row.status, new.arg)
                 /\ new.op \in {"link", "unlink"} => new.arg \in Sales
      BY <2>1, <3>2, <3>4, <3>5 DEF RequestOK
    <3> QED
      BY <3>4, <3>6 DEF RequestOK, new
  <2> QED
    BY <2>2, <2>3
<1> QED
  BY <1>1, <1>2, <1>3 DEF WorkOrdersSound

\* Only rows and requests of the counter change.
LEMMA CounterSaved ==
  ASSUME PrivacyInv, WorkOrdersSound', UNCHANGED <<accounts, erasures, purchases, checkouts>>,
         \A r \in StaffRequests : staffRequests'[r].names # NoClient => Held(staffRequests'[r].names),
         \A w \in WorkOrderIds : Final(workOrders[w], workOrders'[w]) /\ NoNewTexts(workOrders[w], workOrders'[w])
  PROVE  PrivacyInv'
<1>1. PrivacyTypes' /\ PurchasesFound' /\ PurchasesErased' /\ LapsedHasConcluded'
  BY DEF PrivacyInv, PrivacyTypes, PurchasesFound, PurchasesErased, LapsedHasConcluded, OfClient
<1>2. SharesHeld'
  BY DEF PrivacyInv, SharesHeld, Held
<1>3. ASSUME NEW c \in Clients, NEW w \in WorkOrderIds, workOrders'[w].customer = c, workOrders'[w].personal, ~Held(c)
      PROVE  workOrders[w].customer = c /\ workOrders[w].personal
  BY <1>3 DEF NoNewTexts
<1>4. WorkOrdersFound'
  BY <1>3 DEF PrivacyInv, WorkOrdersFound, Held
<1>5. WorkOrdersErased'
  BY <1>3 DEF PrivacyInv, WorkOrdersErased, Held
<1>6. FoundClosed'
  BY DEF PrivacyInv, PrivacyTypes, Erasure, FoundClosed, Final
<1> QED
  BY <1>1, <1>2, <1>4, <1>5, <1>6 DEF PrivacyInv

\* What changes at the counter in a step: one work order at most, and what requests know of it.
CounterDoes ==
  /\ WorkOrdersSound'
  /\ \A r \in StaffRequests : staffRequests'[r].names # NoClient => Held(staffRequests'[r].names)
  /\ \A w \in WorkOrderIds : Final(workOrders[w], workOrders'[w]) /\ NoNewTexts(workOrders[w], workOrders'[w])

\* Saving work orders that follow what they were keeps the invariant.
LEMMA RowsSavedDo ==
  ASSUME PrivacyInv, NEW W \in SUBSET WorkOrderIds,
         DOMAIN workOrders' = WorkOrderIds, DOMAIN staffRequests' = StaffRequests,
         \A w \in WorkOrderIds \ W : workOrders'[w] = workOrders[w],
         \A w \in W : Follows(workOrders[w], workOrders'[w]),
         \A r \in StaffRequests : staffRequests'[r] = NoRequest \/
           (Copy(staffRequests[r], staffRequests'[r]) /\ (staffRequests'[r].fresh => staffRequests[r].id \notin W))
  PROVE  CounterDoes
<1>1. \A r \in StaffRequests : staffRequests'[r].names # NoClient => Held(staffRequests'[r].names)
  BY RowsSaved DEF PrivacyInv, SharesHeld
<1> QED
  BY <1>1, RowsSaved DEF CounterDoes

\* What is as it was is its own copy.
LEMMA CopyOfSame == \A q : Copy(q, q)
  BY DEF Copy

\* The copies of the others, once a work order is saved.
LEMMA StaleCopies ==
  ASSUME WorkOrdersSound, NEW w \in WorkOrderIds, NEW r \in StaffRequests
  PROVE  LET new == stale(staffRequests, w)[r] IN
         /\ DOMAIN stale(staffRequests, w) = StaffRequests
         /\ Copy(staffRequests[r], new) /\ (new.fresh => staffRequests[r].id # w)
<1> DEFINE q == staffRequests[r]
<1>0. DOMAIN stale(staffRequests, w) = StaffRequests
  BY DEF stale
<1>1. CASE q.id # w
  BY <1>1, <1>0, CopyOfSame DEF stale
<1>2. CASE q.id = w
  <2>1. q \in WorkRequest /\ q # NoRequest
    BY <1>2, WorkOrdersAssumption DEF WorkOrdersSound, RequestOK, NoRequest
  <2>2. [q EXCEPT !.fresh = FALSE].fresh = FALSE
    BY <2>1 DEF WorkRequest
  <2> QED
    BY <1>0, <1>2, <2>1, <2>2 DEF stale, Copy, OldCopy
<1> QED
  BY <1>1, <1>2

\* A request starts: it read an open work order, or is to receive a new one, and its customer is active.
LEMMA RequestStarts ==
  ASSUME PrivacyInv, NEW r \in StaffRequests, NEW w \in WorkOrderIds, NEW op \in {"receive", "edit", "move", "link", "unlink"},
         NEW arg \in ClientOrNone \cup WorkOrderStatuses \cup Sales, NEW customer \in ClientOrNone,
         start(r, op, w, arg, customer),
         op = "receive" => workOrders[w] = Unreceived /\ arg \in ClientOrNone /\ customer = arg,
         op # "receive" => IsOpen(w),
         op = "edit" => arg \in ClientOrNone /\ (customer = arg \/ arg = workOrders[w].customer),
         op = "move" => arg \in WorkOrderStatuses /\ Forward(workOrders[w].status, arg),
         op \in {"link", "unlink"} => arg \in Sales
  PROVE  CounterDoes
<1> DEFINE q == [op |-> op, id |-> w, arg |-> arg, names |-> customer, fresh |-> TRUE]
<1>1. /\ staffRequests' = [staffRequests EXCEPT ![r] = q] /\ UNCHANGED workOrders /\ isActiveCustomer(customer)
  BY DEF start
<1>2. q \in WorkRequest /\ q.op = op /\ q.id = w /\ q.arg = arg /\ q.names = customer /\ q.fresh = TRUE
  BY DEF WorkRequest
<1> HIDE DEF q
<1>3. op # "receive" => workOrders[w] # Unreceived /\ workOrders[w].status \notin CLOSED
  BY UnreceivedFields DEF IsOpen
<1>4. RequestOK(q)
  BY <1>2, <1>3 DEF RequestOK
<1>5. DOMAIN staffRequests = StaffRequests /\ \A x \in StaffRequests : RequestOK(staffRequests[x])
  BY DEF PrivacyInv, WorkOrdersSound
<1>6. /\ DOMAIN staffRequests' = StaffRequests /\ staffRequests'[r] = q
      /\ \A x \in StaffRequests \ {r} : staffRequests'[x] = staffRequests[x]
  BY <1>1, <1>5
<1>7. \A x \in StaffRequests : RequestOK(staffRequests'[x])
  BY <1>4, <1>5, <1>6
<1>8. \A x \in StaffRequests : RequestOK(staffRequests[x])'
  BY <1>1, <1>7 DEF RequestOK
<1>9. WorkOrdersSound'
  BY <1>1, <1>6, <1>8 DEF PrivacyInv, WorkOrdersSound
<1>10. \A x \in StaffRequests : staffRequests'[x].names # NoClient => Held(staffRequests'[x].names)
  BY <1>1, <1>2, <1>6 DEF PrivacyInv, SharesHeld, isActiveCustomer, Held
<1>11. ASSUME NEW i \in WorkOrderIds
       PROVE  Final(workOrders[i], workOrders'[i]) /\ NoNewTexts(workOrders[i], workOrders'[i])
  BY UnreceivedFields, <1>1 DEF PrivacyInv, WorkOrdersSound, RowOK, Final, NoNewTexts
<1> QED
  BY <1>9, <1>10, <1>11 DEF CounterDoes

\* A step at the counter does what the invariant needs of it.
LEMMA CounterStep ==
  ASSUME PrivacyInv, WorkOrdersNext
  PROVE  CounterDoes
<1>0. WorkOrdersSound /\ DOMAIN workOrders = WorkOrderIds /\ DOMAIN staffRequests = StaffRequests
  BY DEF PrivacyInv, WorkOrdersSound
<1>1. ASSUME NEW r \in StaffRequests, NEW w \in WorkOrderIds, NEW c \in Clients \cup {NoClient}, startReceive(r, w, c)
      PROVE  CounterDoes
  BY <1>1, RequestStarts DEF startReceive, ClientOrNone
<1>2. ASSUME NEW r \in StaffRequests, NEW w \in WorkOrderIds, NEW c \in Clients \cup {NoClient}, startEdit(r, w, c)
      PROVE  CounterDoes
  BY <1>2, RequestStarts DEF startEdit, ClientOrNone
<1>3. ASSUME NEW r \in StaffRequests, NEW w \in WorkOrderIds, NEW to \in WorkOrderStatuses, startMove(r, w, to)
      PROVE  CounterDoes
  BY <1>3, RequestStarts DEF startMove, ClientOrNone
<1>4. ASSUME NEW r \in StaffRequests, NEW w \in WorkOrderIds, NEW x \in Sales, startLink(r, w, x) \/ startUnlink(r, w, x)
      PROVE  CounterDoes
  BY <1>4, RequestStarts DEF startLink, startUnlink, ClientOrNone
<1>5. ASSUME NEW r \in StaffRequests, NEW takenElsewhere \in BOOLEAN, finish(r, takenElsewhere)
      PROVE  CounterDoes
  <2> DEFINE q == staffRequests[r]
  <2>1. q # NoRequest /\ q \in WorkRequest /\ q.id \in WorkOrderIds
    BY <1>0, <1>5 DEF finish, WorkOrdersSound, RequestOK, WorkRequest
  <2>2. CASE q.fresh /\ workOrders' = [workOrders EXCEPT ![q.id] = changed(q)]
                /\ staffRequests' = [stale(staffRequests, q.id) EXCEPT ![r] = NoRequest]
    <3> DEFINE W == {q.id}
    <3>1. Follows(workOrders[q.id], changed(q))
      BY <2>1, <2>2, ChangeFollows
    <3>2. DOMAIN workOrders' = WorkOrderIds /\ workOrders'[q.id] = changed(q) /\ \A w \in WorkOrderIds \ W : workOrders'[w] = workOrders[w]
      BY <1>0, <2>1, <2>2
    <3>3. ASSUME NEW x \in StaffRequests
          PROVE  staffRequests'[x] = NoRequest \/
                   (Copy(staffRequests[x], staffRequests'[x]) /\ (staffRequests'[x].fresh => staffRequests[x].id \notin W))
      <4>1. Copy(staffRequests[x], stale(staffRequests, q.id)[x]) /\ (stale(staffRequests, q.id)[x].fresh => staffRequests[x].id # q.id)
        BY <1>0, <2>1, StaleCopies
      <4>2. DOMAIN stale(staffRequests, q.id) = StaffRequests
        BY DEF stale
      <4>3. CASE x = r
        <5> DEFINE others == stale(staffRequests, q.id)
        <5>1. DOMAIN others = StaffRequests /\ staffRequests' = [others EXCEPT ![r] = NoRequest]
          BY <2>2, <4>2
        <5> HIDE DEF others
        <5>2. staffRequests'[r] = NoRequest
          BY <5>1
        <5>3. staffRequests'[x] = NoRequest
          BY <4>3, <5>2
        <5> QED
          BY <5>3
      <4>4. CASE x # r
        BY <2>2, <4>2, <4>4, <4>1
      <4> QED
        BY <4>3, <4>4
    <3>4. DOMAIN staffRequests' = StaffRequests
      BY <2>2 DEF stale
    <3>5. W \in SUBSET WorkOrderIds /\ \A w \in W : Follows(workOrders[w], workOrders'[w])
      BY <2>1, <3>1, <3>2
    <3> HIDE DEF W
    <3> QED
      BY <3>2, <3>3, <3>4, <3>5, RowsSavedDo
  <2>3. CASE UNCHANGED workOrders /\ staffRequests' = [staffRequests EXCEPT ![r] = NoRequest]
    <3>1. /\ DOMAIN workOrders' = WorkOrderIds /\ DOMAIN staffRequests' = StaffRequests
          /\ \A w \in WorkOrderIds \ {} : workOrders'[w] = workOrders[w]
      BY <1>0, <2>3
    <3>2. ASSUME NEW x \in StaffRequests
          PROVE  staffRequests'[x] = NoRequest \/ Copy(staffRequests[x], staffRequests'[x])
      BY <1>0, <2>3, CopyOfSame
    <3>3. {} \in SUBSET WorkOrderIds /\ \A w \in {} : Follows(workOrders[w], workOrders'[w])
      OBVIOUS
    <3> QED
      BY <3>1, <3>2, <3>3, RowsSavedDo
  <2> QED
    BY <1>5, <2>2, <2>3 DEF finish, saveWorkOrder, SameVersion
<1>6. ASSUME NEW w \in WorkOrderIds, NEW row, workOrders[w].status \in CLOSED, Follows(workOrders[w], row), saveWorkOrder(w, row),
             staffRequests' = stale(staffRequests, w) \/ UNCHANGED staffRequests
      PROVE  CounterDoes
  <2> DEFINE W == {w}
  <2>1. DOMAIN workOrders' = WorkOrderIds /\ workOrders'[w] = row /\ \A i \in WorkOrderIds \ W : workOrders'[i] = workOrders[i]
    BY <1>0, <1>6 DEF saveWorkOrder
  <2>2. ASSUME NEW x \in StaffRequests
        PROVE  Copy(staffRequests[x], staffRequests'[x]) /\ (staffRequests'[x].fresh => staffRequests[x].id \notin W)
    <3>1. CASE staffRequests' = stale(staffRequests, w)
      BY <1>0, <3>1, StaleCopies
    <3>2. CASE UNCHANGED staffRequests
      BY <1>0, <1>6, UnreceivedFields, <3>2, CopyOfSame DEF WorkOrdersSound, RequestOK, WorkRequest, CLOSED, NoRequest
    <3> QED
      BY <1>6, <3>1, <3>2
  <2>3. DOMAIN staffRequests' = StaffRequests
    BY <1>0, <1>6 DEF stale
  <2>4. W \in SUBSET WorkOrderIds /\ \A i \in W : Follows(workOrders[i], workOrders'[i])
    BY <1>6, <2>1
  <2> HIDE DEF W
  <2> QED
    BY <2>1, <2>2, <2>3, <2>4, RowsSavedDo
<1>7. ASSUME NEW w \in WorkOrderIds, ageWorkOrder(w) \/ blockDue(w) \/ anonymizeDue(w) \/ anonymizeOne(w)
      PROVE  CounterDoes
  <2>1. workOrders[w].status \in CLOSED
    BY <1>7 DEF ageWorkOrder, blockDue, anonymizeDue, anonymizeOne, closedBy
  <2>2. PICK row : Follows(workOrders[w], row) /\ saveWorkOrder(w, row) /\ (staffRequests' = stale(staffRequests, w) \/ UNCHANGED staffRequests)
    BY <2>1, RetentionFollows, <1>7 DEF ageWorkOrder, blockDue, anonymizeDue, anonymizeOne
  <2> QED
    BY <1>6, <2>1, <2>2
<1> QED
  BY <1>1, <1>2, <1>3, <1>4, <1>5, <1>7 DEF WorkOrdersNext

-----------------------------------------------------------------------------
(* Orders of customers.                                                    *)

\* One order changes, without a new text about somebody whose account is not held.
LEMMA PurchaseSaved ==
  ASSUME PrivacyInv, NEW o \in Purchases, NEW new \in PurchaseRow, UNCHANGED <<workOrdersVars, accounts, erasures>>,
         purchases' = [purchases EXCEPT ![o] = new], checkouts' \in [Purchases -> ClientOrNone],
         \A x \in Purchases : checkouts'[x] # NoClient => checkouts'[x] = checkouts[x],
         new.status # "NONE" => new.customer \in Clients,
         \/ new.customer \in Clients /\ Held(new.customer)
         \/ new.customer = purchases[o].customer /\ new.personal = purchases[o].personal /\ (new.status = "OPEN" => new.reopened)
  PROVE  PrivacyInv'
<1>1. \A x \in Purchases : purchases'[x] = IF x = o THEN new ELSE purchases[x]
  BY DEF PrivacyInv, PrivacyTypes
<1>2. PrivacyTypes'
  BY <1>1 DEF PrivacyInv, PrivacyTypes
<1>3. WorkOrdersSound' /\ WorkOrdersFound' /\ FoundClosed' /\ WorkOrdersErased'
  BY DEF PrivacyInv, WorkOrdersSound, RequestOK, RowOK, WorkOrdersFound, FoundClosed, WorkOrdersErased, workOrdersVars
<1>4. SharesHeld'
  BY DEF PrivacyInv, SharesHeld, Held, workOrdersVars
<1>5. PurchasesFound'
  BY <1>1 DEF PrivacyInv, PurchasesFound, OfClient, Held
<1>6. PurchasesErased'
  BY <1>1 DEF PrivacyInv, PurchasesErased, OfClient, Held
<1>7. LapsedHasConcluded'
  BY <1>1 DEF PrivacyInv, LapsedHasConcluded, Held
<1> QED
  BY <1>2, <1>3, <1>4, <1>5, <1>6, <1>7 DEF PrivacyInv

\* Each step of a purchase keeps the invariant of erasures.
LEMMA PurchaseSteps ==
  ASSUME PrivacyInv, NEW o \in Purchases,
         (\E c \in Clients : startCheckout(o, c)) \/ placePurchase(o) \/ conclude(o) \/ reopen(o)
  PROVE  PrivacyInv'
<1> DEFINE p == purchases[o]
<1>1. p \in PurchaseRow /\ checkouts \in [Purchases -> ClientOrNone] /\ (p.status # "NONE" => p.customer \in Clients)
  BY DEF PrivacyInv, PrivacyTypes
<1>2. ASSUME NEW c \in Clients, startCheckout(o, c)
      PROVE  PrivacyInv'
  <2>1. /\ UNCHANGED <<workOrdersVars, accounts, erasures, purchases>> /\ checkouts' = [checkouts EXCEPT ![o] = c] /\ Held(c)
    BY <1>2, WorkOrdersAssumption DEF startCheckout, isActiveCustomer, Held
  <2>2. PrivacyTypes'
    BY <1>1, <2>1 DEF PrivacyInv, PrivacyTypes, ClientOrNone
  <2>3. WorkOrdersSound' /\ WorkOrdersFound' /\ FoundClosed' /\ WorkOrdersErased'
    BY <2>1 DEF PrivacyInv, WorkOrdersSound, RequestOK, RowOK, WorkOrdersFound, FoundClosed, WorkOrdersErased, workOrdersVars
  <2>4. SharesHeld'
    BY <1>1, <2>1 DEF PrivacyInv, SharesHeld, Held, workOrdersVars
  <2>5. PurchasesFound' /\ PurchasesErased' /\ LapsedHasConcluded'
    BY <2>1 DEF PrivacyInv, PurchasesFound, PurchasesErased, LapsedHasConcluded, OfClient
  <2> QED
    BY <2>2, <2>3, <2>4, <2>5 DEF PrivacyInv
<1>3. CASE placePurchase(o)
  <2> DEFINE new == [status |-> "OPEN", customer |-> checkouts[o], personal |-> TRUE, reopened |-> FALSE]
  <2>2. checkouts[o] \in Clients /\ Held(checkouts[o])
    BY <1>1, <1>3 DEF placePurchase, PrivacyInv, SharesHeld, ClientOrNone
  <2>3. new \in PurchaseRow /\ new.customer = checkouts[o] /\ new.status = "OPEN"
    BY <2>2 DEF PurchaseRow, ClientOrNone
  <2>4. checkouts' \in [Purchases -> ClientOrNone] /\ \A x \in Purchases : checkouts'[x] # NoClient => checkouts'[x] = checkouts[x]
    BY <1>1, <1>3 DEF placePurchase, ClientOrNone
  <2>5. purchases' = [purchases EXCEPT ![o] = new] /\ UNCHANGED <<workOrdersVars, accounts, erasures>>
    BY <1>3 DEF placePurchase
  <2> HIDE DEF new
  <2> QED
    BY <2>2, <2>3, <2>4, <2>5, PurchaseSaved
<1>4. CASE conclude(o)
  <2> DEFINE new == [p EXCEPT !.status = "CONCLUDED"]
  <2>1. new \in PurchaseRow /\ new.status = "CONCLUDED" /\ new.customer = p.customer /\ new.personal = p.personal
    BY <1>1 DEF PurchaseRow
  <2>2. purchases' = [purchases EXCEPT ![o] = new] /\ UNCHANGED <<workOrdersVars, accounts, erasures, checkouts>>
    BY <1>4 DEF conclude
  <2>3. p.status = "OPEN"
    BY <1>4 DEF conclude
  <2> HIDE DEF new
  <2> QED
    BY <1>1, <2>1, <2>2, <2>3, PurchaseSaved
<1>5. CASE reopen(o)
  <2> DEFINE new == [p EXCEPT !.status = "OPEN", !.reopened = TRUE]
  <2>1. new \in PurchaseRow /\ new.status = "OPEN" /\ new.customer = p.customer /\ new.personal = p.personal /\ new.reopened = TRUE
    BY <1>1 DEF PurchaseRow
  <2>2. purchases' = [purchases EXCEPT ![o] = new] /\ UNCHANGED <<workOrdersVars, accounts, erasures, checkouts>>
    BY <1>5 DEF reopen
  <2>3. p.status = "CONCLUDED"
    BY <1>5 DEF reopen
  <2> HIDE DEF new
  <2> QED
    BY <1>1, <2>1, <2>2, <2>3, PurchaseSaved
<1> QED
  BY <1>2, <1>3, <1>4, <1>5

-----------------------------------------------------------------------------
(* The anonymization of a customer.                                        *)

\* Nobody names or buys with an account that is being anonymized.
LEMMA NobodyHolds ==
  ASSUME PrivacyInv, NEW c \in Clients, erasures[c].step # "none" \/ (ShareFree(c) /\ accounts[c] = "ACTIVE")
  PROVE  (\A r \in StaffRequests : staffRequests[r].names # c) /\ (\A o \in Purchases : checkouts[o] # c)
<1>1. c # NoClient
  BY WorkOrdersAssumption
<1>2. CASE erasures[c].step # "none"
  BY <1>1, <1>2 DEF PrivacyInv, SharesHeld, Held
<1>3. CASE ShareFree(c)
  BY <1>1, <1>3 DEF ShareFree, lockedForShare
<1> QED
  BY <1>2, <1>3

\* An anonymization goes on: what it found is all there is.
LEMMA ErasureMoves ==
  ASSUME PrivacyInv, NEW c \in Clients, NEW e \in Erasure,
         UNCHANGED <<workOrdersVars, accounts, purchases, checkouts>>, erasures' = [erasures EXCEPT ![c] = e],
         \A r \in StaffRequests : staffRequests[r].names # c, \A o \in Purchases : checkouts[o] # c,
         \A w \in e.workOrders : workOrders[w].status \in CLOSED,
         e.step \in {"orders", "workOrders"} => \A o \in OfClient(c) : purchases[o].personal => o \in e.purchases,
         e.step = "concluded" => \A o \in OfClient(c) : purchases[o].status = "OPEN" => purchases[o].reopened,
         e.step = "workOrders" =>
           \A w \in WorkOrderIds : workOrders[w].customer = c /\ workOrders[w].personal => w \in e.workOrders
  PROVE  PrivacyInv'
<1>1. \A x \in Clients : erasures'[x] = IF x = c THEN e ELSE erasures[x]
  BY DEF PrivacyInv, PrivacyTypes
<1>2. PrivacyTypes'
  BY <1>1 DEF PrivacyInv, PrivacyTypes
<1>3. WorkOrdersSound' /\ WorkOrdersErased' /\ PurchasesErased' /\ LapsedHasConcluded'
  BY DEF PrivacyInv, WorkOrdersSound, RequestOK, RowOK, WorkOrdersErased, PurchasesErased, LapsedHasConcluded, OfClient, workOrdersVars
<1>4. FoundClosed'
  BY <1>1 DEF PrivacyInv, FoundClosed, workOrdersVars
<1>5. SharesHeld'
  <2>1. \A x \in ClientOrNone : x # c => erasures'[x] = erasures[x]
    BY DEF PrivacyInv, PrivacyTypes
  <2>2. \A r \in StaffRequests : staffRequests[r].names \in ClientOrNone
    BY DEF PrivacyInv, WorkOrdersSound, RequestOK, WorkRequest, NoRequest, ClientOrNone
  <2>3. \A o \in Purchases : checkouts[o] \in ClientOrNone
    BY DEF PrivacyInv, PrivacyTypes
  <2> QED
    BY <2>1, <2>2, <2>3 DEF PrivacyInv, SharesHeld, Held, workOrdersVars, ClientOrNone
<1>6. PurchasesFound'
  BY <1>1 DEF PrivacyInv, PurchasesFound, OfClient
<1>7. WorkOrdersFound'
  BY <1>1 DEF PrivacyInv, WorkOrdersFound, workOrdersVars
<1> QED
  BY <1>2, <1>3, <1>4, <1>5, <1>6, <1>7 DEF PrivacyInv

\* Each step of an erasure does, until it commits.
LEMMA ErasureSteps ==
  ASSUME PrivacyInv, NEW c \in Clients,
         \/ \E step \in {"account", "inactive"} : eraseAccount(c, step)
         \/ eraseOrders(c)
         \/ eraseWorkOrders(c)
         \/ checkOpenOrders(c)
  PROVE  PrivacyInv'
<1> DEFINE e == erasures[c]
<1>1. /\ erasures \in [Clients -> Erasure] /\ e \in Erasure /\ \A w \in e.workOrders : workOrders[w].status \in CLOSED
      /\ purchases \in [Purchases -> PurchaseRow]
  BY DEF PrivacyInv, PrivacyTypes, FoundClosed
<1>2. NoErasure \in Erasure /\ NoErasure.step = "none" /\ NoErasure.workOrders = {}
  BY DEF NoErasure, Erasure
<1>3. ASSUME NEW step \in {"account", "inactive"}, eraseAccount(c, step)
      PROVE  PrivacyInv'
  <2> DEFINE new == [e EXCEPT !.step = step]
  <2>1. new \in Erasure /\ new.step = step /\ new.workOrders = e.workOrders
    BY <1>1 DEF Erasure
  <2>2. erasures' = [erasures EXCEPT ![c] = new] /\ UNCHANGED <<workOrdersVars, accounts, purchases, checkouts>>
    BY <1>3 DEF eraseAccount
  <2>3. ShareFree(c) /\ accounts[c] = "ACTIVE"
    BY <1>3 DEF eraseAccount
  <2> HIDE DEF new
  <2> QED
    BY <1>1, <2>1, <2>2, <2>3, NobodyHolds, ErasureMoves, ZenonT(30)
<1>4. CASE eraseOrders(c)
  <2> DEFINE found == {o \in OfClient(c) : purchases[o].personal}
             new == [e EXCEPT !.step = "orders", !.purchases = found]
  <2>0. found \in SUBSET Purchases
    BY DEF OfClient
  <2>1. new \in Erasure /\ new.step = "orders" /\ new.workOrders = e.workOrders /\ new.purchases = found
    <3> HIDE DEF found
    <3> QED
      BY <1>1, <2>0 DEF Erasure
  <2>2. /\ erasures' = [erasures EXCEPT ![c] = new] \/ erasures' = [erasures EXCEPT ![c] = NoErasure]
        /\ UNCHANGED <<workOrdersVars, accounts, purchases, checkouts>>
    BY <1>4 DEF eraseOrders
  <2>3. e.step # "none"
    BY <1>4 DEF eraseOrders
  <2>4. \A o \in OfClient(c) : purchases[o].personal => o \in new.purchases
    BY <2>1
  <2>7. (\A r \in StaffRequests : staffRequests[r].names # c) /\ (\A o \in Purchases : checkouts[o] # c)
    BY <2>3, NobodyHolds
  <2>8. \A w \in new.workOrders : workOrders[w].status \in CLOSED
    BY <1>1, <2>1
  <2> HIDE DEF new, found
  <2>5. CASE erasures' = [erasures EXCEPT ![c] = new]
    BY <2>1, <2>2, <2>4, <2>5, <2>7, <2>8, ErasureMoves
  <2>6. CASE erasures' = [erasures EXCEPT ![c] = NoErasure]
    BY <1>2, <2>2, <2>3, <2>6, NobodyHolds, ErasureMoves
  <2> QED
    BY <2>2, <2>5, <2>6
<1>5. CASE eraseWorkOrders(c)
  <2> DEFINE found == {w \in WorkOrderIds : workOrders[w].customer = c /\ workOrders[w] # Unreceived /\ ~workOrders[w].anonymized}
             new == [e EXCEPT !.step = "workOrders", !.workOrders = found]
  <2>0. found \in SUBSET WorkOrderIds
    OBVIOUS
  <2>1. new \in Erasure /\ new.step = "workOrders" /\ new.workOrders = found /\ new.purchases = e.purchases
    <3> HIDE DEF found
    <3> QED
      BY <1>1, <2>0 DEF Erasure
  <2>2. /\ (AllClosed(found) /\ erasures' = [erasures EXCEPT ![c] = new]) \/ erasures' = [erasures EXCEPT ![c] = NoErasure]
        /\ UNCHANGED <<workOrdersVars, accounts, purchases, checkouts>>
    BY <1>5 DEF eraseWorkOrders
  <2>3. e.step = "orders"
    BY <1>5 DEF eraseWorkOrders
  <2>4. \A o \in OfClient(c) : purchases[o].personal => o \in new.purchases
    BY <2>1, <2>3 DEF PrivacyInv, PurchasesFound
  <2>5. \A w \in WorkOrderIds : workOrders[w].customer = c /\ workOrders[w].personal => w \in new.workOrders
    BY <2>1, UnreceivedFields DEF PrivacyInv, WorkOrdersSound, RowOK
  <2>6. AllClosed(found) => \A w \in new.workOrders : workOrders[w].status \in CLOSED
    BY <2>1 DEF AllClosed
  <2> HIDE DEF new, found
  <2>7. CASE AllClosed(found) /\ erasures' = [erasures EXCEPT ![c] = new]
    BY <1>1, <2>1, <2>2, <2>3, <2>4, <2>5, <2>6, <2>7, NobodyHolds, ErasureMoves
  <2>8. CASE erasures' = [erasures EXCEPT ![c] = NoErasure]
    BY <1>2, <2>2, <2>3, <2>8, NobodyHolds, ErasureMoves
  <2> QED
    BY <2>2, <2>7, <2>8
<1>6. CASE checkOpenOrders(c)
  <2> DEFINE step == IF hasOpenOrders(c) THEN "none" ELSE "concluded"
             new == [e EXCEPT !.step = step]
  <2>1. new \in Erasure /\ new.step = step /\ new.workOrders = e.workOrders
    BY <1>1 DEF Erasure
  <2>2. erasures' = [erasures EXCEPT ![c] = new] /\ UNCHANGED <<workOrdersVars, accounts, purchases, checkouts>> /\ e.step = "inactive"
    BY <1>6 DEF checkOpenOrders
  <2>3. new.step = "concluded" => \A o \in OfClient(c) : purchases[o].status # "OPEN"
    BY <2>1 DEF hasOpenOrders
  <2>4. new.step \in {"none", "concluded"}
    BY <2>1
  <2>5. (\A r \in StaffRequests : staffRequests[r].names # c) /\ (\A o \in Purchases : checkouts[o] # c)
    BY <2>2, NobodyHolds
  <2>6. \A w \in new.workOrders : workOrders[w].status \in CLOSED
    BY <1>1, <2>1
  <2> HIDE DEF new, step, e
  <2> QED
    BY <2>1, <2>2, <2>3, <2>4, <2>5, <2>6, ErasureMoves
<1> QED
  BY <1>3, <1>4, <1>5, <1>6

\* The anonymization commits: every row it found, and those are all of the customer's, loses its texts.
LEMMA CommitRows ==
  ASSUME PrivacyInv, NEW c \in Clients, commitErasure(c)
  PROVE  /\ CounterDoes /\ \A r \in StaffRequests : staffRequests'[r].names # c
         /\ \A w \in WorkOrderIds : workOrders'[w].customer = c => ~workOrders'[w].personal
<1> DEFINE W == erasures[c].workOrders
<1>1. /\ W \in SUBSET WorkOrderIds /\ erasures[c].step = "workOrders" /\ WorkOrdersSound
      /\ \A w \in W : workOrders[w].status \in CLOSED
  BY DEF PrivacyInv, PrivacyTypes, Erasure, FoundClosed, commitErasure
<1>2. /\ workOrders' = [w \in WorkOrderIds |-> IF w \in W THEN anonymized(workOrders[w]) ELSE workOrders[w]]
      /\ staffRequests' = [r \in StaffRequests |->
           IF staffRequests[r].id \in W THEN OldCopy(staffRequests[r]) ELSE staffRequests[r]]
  BY DEF commitErasure, OldCopy
<1>3. /\ DOMAIN workOrders' = WorkOrderIds /\ DOMAIN staffRequests' = StaffRequests
      /\ \A w \in WorkOrderIds \ W : workOrders'[w] = workOrders[w]
      /\ \A w \in W : workOrders'[w] = anonymized(workOrders[w])
  BY <1>1, <1>2
<1> HIDE DEF W
<1>4. \A w \in W : Follows(workOrders[w], workOrders'[w])
  BY <1>1, <1>3, RetentionFollows
<1>5. ASSUME NEW r \in StaffRequests
      PROVE  Copy(staffRequests[r], staffRequests'[r]) /\ (staffRequests'[r].fresh => staffRequests[r].id \notin W)
  <2> DEFINE q == staffRequests[r]
  <2>1. CASE q.id \in W
    BY <1>1, <2>1, WorkOrdersAssumption, <1>2 DEF WorkOrdersSound, RequestOK, NoRequest, WorkRequest, OldCopy, Copy
  <2>2. CASE q.id \notin W
    BY <1>2, <2>2, CopyOfSame
  <2> QED
    BY <2>1, <2>2
<1>6. CounterDoes
  BY <1>1, <1>3, <1>4, <1>5, RowsSavedDo
<1>7. \A r \in StaffRequests : staffRequests'[r].names # c
  BY <1>1, NobodyHolds, WorkOrdersAssumption, <1>3, <1>4, <1>5, RowsSaved
<1>8. ASSUME NEW w \in WorkOrderIds, workOrders'[w].customer = c
      PROVE  ~workOrders'[w].personal
  <2>1. CASE w \in W
    <3>1. workOrders[w] \in WorkRow
      BY <1>1, <2>1, UnreceivedFields DEF WorkOrdersSound, RowOK, CLOSED
    <3>2. anonymized(workOrders[w]).personal = FALSE
      BY <3>1 DEF anonymized, WorkRow
    <3> QED
      BY <1>3, <2>1, <3>2
  <2>2. CASE w \notin W
    BY <1>1, <1>3, <1>8, <2>2 DEF PrivacyInv, WorkOrdersFound, W
  <2> QED
    BY <2>1, <2>2
<1> QED
  BY <1>6, <1>7, <1>8

\* An erasure that commits has looked at the orders and work orders since it took the client.
LEMMA CommitStep ==
  ASSUME PrivacyInv, NEW c \in Clients, commitErasure(c)
  PROVE  PrivacyInv'
<1> DEFINE P == erasures[c].purchases
<1>1. /\ P \in SUBSET Purchases /\ erasures[c].step = "workOrders" /\ PrivacyTypes
      /\ \A o \in OfClient(c) : purchases[o].personal => o \in P
  BY DEF PrivacyInv, PrivacyTypes, Erasure, PurchasesFound, commitErasure
<1>2. /\ accounts' = [accounts EXCEPT ![c] = "ERASED"] /\ erasures' = [erasures EXCEPT ![c] = NoErasure]
      /\ purchases' = [o \in Purchases |-> IF o \in P THEN [purchases[o] EXCEPT !.personal = FALSE] ELSE purchases[o]]
      /\ UNCHANGED checkouts
  BY DEF commitErasure
<1>3. NoErasure \in Erasure /\ NoErasure.step = "none" /\ NoErasure.workOrders = {}
  BY DEF NoErasure, Erasure
<1>4. ASSUME NEW o \in Purchases
      PROVE  /\ purchases'[o] \in PurchaseRow /\ purchases'[o].status = purchases[o].status
             /\ purchases'[o].customer = purchases[o].customer /\ purchases'[o].reopened = purchases[o].reopened
             /\ purchases'[o].personal => purchases[o].personal /\ o \notin P
  BY <1>1, <1>2 DEF PrivacyTypes, PurchaseRow
<1>5. /\ accounts'[c] = "ERASED" /\ erasures'[c] = NoErasure
      /\ \A x \in Clients \ {c} : accounts'[x] = accounts[x] /\ erasures'[x] = erasures[x]
  BY <1>1, <1>2 DEF PrivacyTypes
<1>6. PrivacyTypes'
  <2>1. accounts' \in [Clients -> {"ACTIVE", "ERASED", "LAPSED"}] /\ erasures' \in [Clients -> Erasure]
    BY <1>1, <1>2, <1>3 DEF PrivacyTypes
  <2>2. purchases' \in [Purchases -> PurchaseRow]
    BY <1>2, <1>4
  <2> QED
    BY <1>1, <1>2, <1>4, <2>1, <2>2 DEF PrivacyTypes
<1> HIDE DEF P
<1>7. WorkOrdersSound'
  BY CommitRows DEF CounterDoes
<1>8. SharesHeld'
  <2>1. ASSUME NEW x \in Clients, Held(x), x # c
        PROVE  Held(x)'
    BY <1>5, <2>1 DEF Held
  <2>2. ASSUME NEW r \in StaffRequests, staffRequests'[r].names # NoClient
        PROVE  Held(staffRequests[r].names)'
    <3>1. Held(staffRequests'[r].names) /\ staffRequests'[r].names # c
      BY <2>2, CommitRows DEF CounterDoes
    <3>2. staffRequests'[r].names \in Clients
      BY <1>7, <2>2 DEF WorkOrdersSound, RequestOK, WorkRequest, NoRequest, ClientOrNone
    <3> QED
      BY <1>5, <3>1, <3>2 DEF Held
  <2>3. ASSUME NEW o \in Purchases, checkouts'[o] # NoClient
        PROVE  Held(checkouts[o])'
    BY <1>1, <1>2, <2>3, NobodyHolds, <1>5 DEF PrivacyInv, SharesHeld, PrivacyTypes, ClientOrNone, Held
  <2> QED
    BY <2>2, <2>3 DEF SharesHeld
<1>9. PurchasesFound'
  <2>1. \A o \in Purchases : /\ purchases'[o].status = purchases[o].status /\ purchases'[o].reopened = purchases[o].reopened
                             /\ purchases'[o].customer = purchases[o].customer /\ (purchases'[o].personal => purchases[o].personal)
    BY <1>4
  <2>2. ASSUME NEW x \in Clients \ {c}
        PROVE  /\ erasures'[x].step \in {"orders", "workOrders"} =>
                    \A o \in Purchases : purchases'[o].customer = x /\ purchases'[o].personal => o \in erasures'[x].purchases
               /\ erasures'[x].step = "concluded" =>
                    \A o \in Purchases : purchases'[o].customer = x /\ purchases'[o].status = "OPEN" => purchases'[o].reopened
    BY <1>5, <2>1 DEF PrivacyInv, PurchasesFound, OfClient
  <2>3. erasures'[c].step = "none"
    BY <1>3, <1>5
  <2> QED
    BY <2>2, <2>3 DEF PurchasesFound, OfClient
<1>10. PurchasesErased'
  <2>1. ASSUME NEW x \in Clients, accounts'[x] = "ERASED", NEW o \in Purchases, purchases'[o].customer = x, purchases'[o].personal
        PROVE  FALSE
    BY <1>4, <2>1, <1>1, <1>5 DEF OfClient, PrivacyInv, PurchasesErased
  <2> QED
    BY <2>1 DEF PurchasesErased, OfClient
<1>11. LapsedHasConcluded'
  <2>1. ASSUME NEW o \in Purchases, purchases'[o].status = "OPEN", accounts'[purchases'[o].customer] = "LAPSED"
        PROVE  purchases'[o].reopened
    <3>1. purchases[o].status = "OPEN" /\ purchases'[o].customer = purchases[o].customer /\ purchases[o].customer \in Clients
      BY <1>1, <1>4, <2>1 DEF PrivacyTypes
    <3>2. accounts[purchases[o].customer] = "LAPSED"
      BY <2>1, <3>1, <1>5
    <3> QED
      BY <1>4, <3>1, <3>2 DEF PrivacyInv, LapsedHasConcluded
  <2> QED
    BY <2>1 DEF LapsedHasConcluded
<1>12. ASSUME NEW x \in Clients, x # c, NEW w \in WorkOrderIds, workOrders'[w].customer = x, workOrders'[w].personal, ~Held(x)
       PROVE  workOrders[w].customer = x /\ workOrders[w].personal
  BY <1>12, CommitRows DEF CounterDoes, NoNewTexts
<1>13. WorkOrdersFound'
  <2>1. ASSUME NEW x \in Clients, erasures'[x].step = "workOrders", NEW w \in WorkOrderIds,
               workOrders'[w].customer = x, workOrders'[w].personal
        PROVE  w \in erasures'[x].workOrders
    BY <1>3, <1>5, <2>1, <1>12 DEF Held, PrivacyInv, WorkOrdersFound
  <2> QED
    BY <2>1 DEF WorkOrdersFound
<1>14. WorkOrdersErased'
  BY <1>5, <1>12, CommitRows DEF PrivacyInv, WorkOrdersErased, Held
<1>15. FoundClosed'
  <2>1. \A w \in WorkOrderIds : workOrders[w].status \in CLOSED => workOrders'[w].status \in CLOSED
    BY CommitRows DEF CounterDoes, Final
  <2>2. \A x \in Clients : erasures[x].workOrders \subseteq WorkOrderIds
    BY <1>1 DEF PrivacyTypes, Erasure
  <2>3. ASSUME NEW x \in Clients, NEW w \in erasures'[x].workOrders
        PROVE  workOrders'[w].status \in CLOSED
    BY <1>3, <1>5, <2>1, <2>2 DEF PrivacyInv, FoundClosed
  <2> QED
    BY <2>3 DEF FoundClosed
<1> QED
  BY <1>6, <1>7, <1>8, <1>9, <1>10, <1>11, <1>13, <1>14, <1>15 DEF PrivacyInv

\* So does the erasure of who has been away.
LEMMA LapseStep ==
  ASSUME PrivacyInv, NEW c \in Clients, commitLapse(c)
  PROVE  PrivacyInv'
<1>1. /\ accounts' = [accounts EXCEPT ![c] = "LAPSED"] /\ erasures' = [erasures EXCEPT ![c] = NoErasure]
      /\ UNCHANGED <<workOrdersVars, purchases, checkouts>> /\ erasures[c].step = "concluded" /\ PrivacyTypes
  BY DEF commitLapse, PrivacyInv
<1>2. NoErasure \in Erasure /\ NoErasure.step = "none" /\ NoErasure.workOrders = {}
  BY DEF NoErasure, Erasure
<1>3. \A x \in Clients : /\ x # c => accounts'[x] = accounts[x] /\ erasures'[x] = erasures[x]
                          /\ accounts'[c] = "LAPSED" /\ erasures'[c] = NoErasure
  BY <1>1 DEF PrivacyTypes
<1>4. PrivacyTypes' /\ WorkOrdersSound'
  BY <1>1, <1>2 DEF PrivacyInv, PrivacyTypes, WorkOrdersSound, RequestOK, RowOK, workOrdersVars
<1>5. SharesHeld'
  <2>1. \A r \in StaffRequests : staffRequests[r].names \in ClientOrNone /\ staffRequests[r].names # c
    BY <1>1, NobodyHolds DEF PrivacyInv, WorkOrdersSound, RequestOK, WorkRequest, NoRequest, ClientOrNone
  <2>2. \A o \in Purchases : checkouts[o] \in ClientOrNone /\ checkouts[o] # c
    BY <1>1, NobodyHolds DEF PrivacyTypes
  <2> QED
    BY <1>1, <1>3, <2>1, <2>2 DEF PrivacyInv, SharesHeld, Held, workOrdersVars, ClientOrNone
<1>6. PurchasesFound' /\ PurchasesErased'
  BY <1>1, <1>2, <1>3 DEF PrivacyInv, PurchasesFound, PurchasesErased, OfClient
<1>7. WorkOrdersFound' /\ WorkOrdersErased' /\ FoundClosed'
  BY <1>1, <1>2, <1>3 DEF PrivacyInv, WorkOrdersFound, WorkOrdersErased, FoundClosed, workOrdersVars
<1>8. LapsedHasConcluded'
  <2>1. ASSUME NEW o \in Purchases, purchases[o].status = "OPEN", accounts'[purchases[o].customer] = "LAPSED"
        PROVE  purchases[o].reopened
    BY <1>1, <2>1, <1>3 DEF PrivacyTypes, PrivacyInv, PurchasesFound, OfClient, LapsedHasConcluded
  <2> QED
    BY <1>1, <2>1 DEF LapsedHasConcluded
<1> QED
  BY <1>4, <1>5, <1>6, <1>7, <1>8 DEF PrivacyInv

-----------------------------------------------------------------------------
(* Every step.                                                             *)

\* Clients start with nothing to erase.
LEMMA PrivacyStarts == PrivacyInit => PrivacyInv
<1> SUFFICES ASSUME PrivacyInit PROVE PrivacyInv
  OBVIOUS
<1>1. /\ workOrders = [w \in WorkOrderIds |-> Unreceived] /\ staffRequests = [r \in StaffRequests |-> NoRequest]
      /\ accounts = [c \in Clients |-> "ACTIVE"] /\ erasures = [c \in Clients |-> NoErasure]
      /\ purchases = [o \in Purchases |-> NoOrder] /\ checkouts = [o \in Purchases |-> NoClient]
  BY DEF PrivacyInit, WorkOrdersInit
<1>2. NoErasure \in Erasure /\ NoErasure.step = "none" /\ NoErasure.workOrders = {}
  BY DEF NoErasure, Erasure
<1>3. NoOrder \in PurchaseRow /\ NoOrder.status = "NONE" /\ NoOrder.personal = FALSE
  BY DEF NoOrder, PurchaseRow, ClientOrNone
<1>4. NoRequest.names = NoClient
  BY DEF NoRequest
<1>5. WorkOrdersSound
  BY <1>1 DEF WorkOrdersSound, RowOK, RequestOK
<1>6. PrivacyTypes /\ SharesHeld
  BY <1>1, <1>2, <1>3, <1>4 DEF PrivacyTypes, SharesHeld, ClientOrNone
<1>7. PurchasesFound /\ PurchasesErased /\ LapsedHasConcluded
  BY <1>1, <1>2, <1>3 DEF PurchasesFound, PurchasesErased, LapsedHasConcluded, OfClient
<1>8. WorkOrdersFound /\ WorkOrdersErased /\ FoundClosed
  BY <1>1, <1>2 DEF WorkOrdersFound, WorkOrdersErased, FoundClosed
<1> QED
  BY <1>5, <1>6, <1>7, <1>8 DEF PrivacyInv

\* What a step leaves of a closed work order.
ClosedStays ==
  \A w \in WorkOrderIds : workOrders[w].status \in CLOSED =>
    /\ \A f \in {"status", "customer", "history", "sales"} : workOrders'[w][f] = workOrders[w][f]
    /\ workOrders'[w].personal => workOrders[w].personal
    /\ workOrders[w].anonymized => workOrders'[w].anonymized /\ ~workOrders'[w].personal

\* Work orders that stay final stay closed.
LEMMA FinalStays ==
  ASSUME \A w \in WorkOrderIds : Final(workOrders[w], workOrders'[w])
  PROVE  ClosedStays
  BY DEF Final, ClosedStays

\* Each step keeps the invariant, and closed work orders closed.
LEMMA PrivacyStep == PrivacyInv /\ [PrivacyNext]_privacyVars => PrivacyInv' /\ [ClosedStays]_workOrdersVars
<1> SUFFICES ASSUME PrivacyInv, [PrivacyNext]_privacyVars PROVE PrivacyInv' /\ [ClosedStays]_workOrdersVars
  OBVIOUS
<1>1. CASE UNCHANGED privacyVars
  <2>1. WorkOrdersSound' /\ WorkOrdersFound' /\ FoundClosed' /\ WorkOrdersErased' /\ UNCHANGED workOrdersVars
    BY <1>1 DEF PrivacyInv, WorkOrdersSound, RequestOK, RowOK, WorkOrdersFound, FoundClosed, WorkOrdersErased, workOrdersVars, privacyVars
  <2>2. PrivacyTypes' /\ SharesHeld' /\ PurchasesFound' /\ PurchasesErased' /\ LapsedHasConcluded'
    BY <1>1 DEF PrivacyInv, PrivacyTypes, SharesHeld, Held, PurchasesFound, PurchasesErased, LapsedHasConcluded, OfClient,
                workOrdersVars, privacyVars
  <2> QED
    BY <2>1, <2>2 DEF PrivacyInv
<1>2. CASE WorkOrdersNext /\ UNCHANGED <<purchases, checkouts>>
  BY <1>2, CounterStep, CounterSaved, FinalStays DEF WorkOrdersNext, CounterDoes
<1>3. ASSUME NEW o \in Purchases,
             (\E c \in Clients : startCheckout(o, c)) \/ placePurchase(o) \/ conclude(o) \/ reopen(o)
      PROVE  PrivacyInv' /\ [ClosedStays]_workOrdersVars
  BY <1>3, PurchaseSteps DEF startCheckout, placePurchase, conclude, reopen
<1>4. ASSUME NEW c \in Clients,
             \/ \E step \in {"account", "inactive"} : eraseAccount(c, step)
             \/ eraseOrders(c)
             \/ eraseWorkOrders(c)
             \/ checkOpenOrders(c)
      PROVE  PrivacyInv' /\ [ClosedStays]_workOrdersVars
  BY <1>4, ErasureSteps DEF eraseAccount, eraseOrders, eraseWorkOrders, checkOpenOrders
<1>5. ASSUME NEW c \in Clients, commitErasure(c)
      PROVE  PrivacyInv' /\ [ClosedStays]_workOrdersVars
  BY <1>5, CommitRows, CommitStep, FinalStays DEF CounterDoes
<1>6. ASSUME NEW c \in Clients, commitLapse(c)
      PROVE  PrivacyInv' /\ [ClosedStays]_workOrdersVars
  BY <1>6, LapseStep DEF commitLapse
<1> QED
  BY <1>1, <1>2, <1>3, <1>4, <1>5, <1>6 DEF PrivacyNext

\* However checkouts, the counter and anonymizations interleave, for any number of customers, orders and work orders:
\* the rows of a customer who was anonymized name nobody, an account that lapsed has no order under way except one paid
\* late, and no access link outlives the data of its guest (Anonymizations, customerContact, lockOfCustomer).
THEOREM ErasuresAlwaysHold == PrivacySpec /\ GuestAccessSpec => []ErasureHolds
<1>1. PrivacyInv => ErasureIsComplete
  BY DEF PrivacyInv, ErasureIsComplete, NothingLeft, PurchasesErased, WorkOrdersErased
<1>2. PrivacySpec => []ErasureIsComplete
  BY <1>1, PrivacyStarts, PrivacyStep, PTL DEF PrivacySpec
<1>3. ErasureIsComplete /\ LinksFollowGuests => ErasureHolds
  BY DEF ErasureHolds
<1> QED
  BY <1>2, <1>3, LinksAlwaysFollow, PTL

\* However many requests read the same work order, its history goes forward and ends where it is, and a work order that
\* closed keeps what it says and only loses its texts (moveTo, saveWorkOrder, the retention).
THEOREM WorkOrdersAlwaysEnd == PrivacySpec => WorkOrdersEnd
<1>1. PrivacyInv => HistoryMovesForward
  BY UnreceivedFields DEF PrivacyInv, WorkOrdersSound, RowOK, HistoryOK, HistoryMovesForward
<1>2. PrivacySpec => []HistoryMovesForward
  BY <1>1, PrivacyStarts, PrivacyStep, PTL DEF PrivacySpec
<1>3. PrivacySpec => [][ClosedStays]_workOrdersVars
  BY PrivacyStarts, PrivacyStep, PTL DEF PrivacySpec
<1>4. [][ClosedStays]_workOrdersVars => ClosedIsFinal
  BY PTL DEF ClosedIsFinal, ClosedStays
<1> QED
  BY <1>2, <1>3, <1>4 DEF WorkOrdersEnd

-----------------------------------------------------------------------------
(* The payment of an order: the inductive invariant.                       *)

Sold == {"PENDING_PAYMENT", "EXPIRED", "PAID", "CANCELLED", "REFUNDED"}
PayEvents == {"PaymentCaptured", "RefundCompleted"}
PayOps == OrderOps \cup {"registerManualRefund", "configure"}
PayRequest == [op : PayOps \cup {"none"}, at : {"idle", "asked", "read"}, saw : Payments \cup PaymentSettings \cup {NoRow}]

PaymentTypeOK ==
  /\ orderRow \in [status : Sold, paid : BOOLEAN] /\ orderHeld \in PayRequests \cup {NoRow}
  /\ paymentRow \in Payments \cup {NoRow} /\ settingsRow \in PaymentSettings
  /\ asking \in [PayRequests -> PayRequest]
  /\ captures \in {0, 1} /\ completions \in {0, 1} /\ delivering \subseteq PayEvents

\* The refund and the attempts of a payment go with its status.
PaymentSound(row) ==
  CASE row.status = "CAPTURED" -> row.refund \in {"NONE", "PENDING"} /\ row.attempts = <<"PENDING", "CAPTURED">>
    [] row.status = "REFUNDED" -> row.refund = "COMPLETED" /\ row.attempts = <<"PENDING", "CAPTURED">>
    [] OTHER -> row.refund = "NONE" /\ row.attempts = <<"PENDING">>

Collected == paymentRow # NoRow /\ paymentRow.status \in {"CAPTURED", "REFUNDED"}
GivenBack == paymentRow # NoRow /\ paymentRow.status = "REFUNDED"
Owed == paymentRow # NoRow /\ paymentRow.refund # "NONE"

MoneySound ==
  /\ paymentRow # NoRow => PaymentSound(paymentRow)
  /\ captures = 1 <=> Collected
  /\ completions = 1 <=> GivenBack
  /\ "RefundCompleted" \in delivering => completions = 1

\* An order that heard of its payment knows that it was paid, and owes it back if it was cancelled.
OrderSound ==
  /\ orderRow.status \in {"PENDING_PAYMENT", "EXPIRED"} => ~orderRow.paid
  /\ orderRow.status \in {"PAID", "REFUNDED"} => orderRow.paid
  /\ captures = 1 => orderRow.paid \/ "PaymentCaptured" \in delivering
  /\ orderRow.status = "CANCELLED" /\ orderRow.paid => Owed
  /\ orderRow.status = "REFUNDED" => GivenBack
  /\ Owed => orderRow.status \in {"CANCELLED", "REFUNDED"}

\* Who holds the order read its payment as it is, unless the refund of it was registered meanwhile; and a member of
\* the staff who is to save the settings saw them as they are, if they are of that version.
ReadsPayment(x) ==
  /\ x.saw \in Payments \cup {NoRow}
  /\ \/ x.saw = paymentRow
     \/ /\ x.saw # NoRow /\ x.saw.status = "CAPTURED" /\ x.saw.refund = "PENDING" /\ GivenBack
ReadsSettings(x) ==
  /\ x.saw \in PaymentSettings /\ x.saw.version <= settingsRow.version
  /\ x.saw.version = settingsRow.version => x.saw = settingsRow
AskSound(r) ==
  /\ asking[r].op \in OrderOps /\ asking[r].at = "read" => orderHeld = r /\ ReadsPayment(asking[r])
  /\ asking[r].op = "configure" => ReadsSettings(asking[r])

PaymentsInv == PaymentTypeOK /\ MoneySound /\ OrderSound /\ \A r \in PayRequests : AskSound(r)

-----------------------------------------------------------------------------
(* The lemmas about it.                                                    *)

\* The invariant says that the money of an order is collected and given back once, and owed as it should be.
LEMMA PaymentsInvImplies ==
  ASSUME PaymentsInv
  PROVE  CollectedOnce /\ RefundsAreOwed
<1>1. /\ captures \in {0, 1} /\ completions \in {0, 1} /\ paymentRow \in Payments \cup {NoRow}
      /\ paymentRow # NoRow => PaymentSound(paymentRow)
      /\ captures = 1 <=> Collected
      /\ completions = 1 <=> GivenBack
  BY DEF PaymentsInv, PaymentTypeOK, MoneySound
<1>2. CollectedOnce
  <2>1. captures <= 1 /\ completions <= captures
    BY <1>1 DEF Collected, GivenBack
  <2>2. ASSUME paymentRow # NoRow
        PROVE  /\ paymentRow.refund = "COMPLETED" <=> paymentRow.status = "REFUNDED"
               /\ paymentRow.attempts = IF captures = 1 THEN <<"PENDING", "CAPTURED">> ELSE <<"PENDING">>
    BY <1>1, <2>2 DEF Payments, PaymentSound, PaymentStatuses, Collected
  <2> QED
    BY <1>1, <2>1, <2>2 DEF CollectedOnce, Collected, GivenBack
<1>3. RefundsAreOwed
  <2>1. OrderSound
    BY DEF PaymentsInv
  <2>2. GivenBack => Owed
    BY <1>1 DEF GivenBack, Owed, PaymentSound
  <2>3. ASSUME orderRow.status \in {"CANCELLED", "REFUNDED"}, captures = 1
        PROVE  paymentRow.refund # "NONE" \/ "PaymentCaptured" \in delivering
    BY <2>1, <2>3, <2>2 DEF OrderSound, Owed
  <2> QED
    BY <2>1, <2>3 DEF OrderSound, RefundsAreOwed, Owed, GivenBack
<1> QED
  BY <1>2, <1>3

\* A request that ends leaves the order free, and what the others read stays true: while another holds the order its
\* payment changes only when its refund is registered.
LEMMA OthersStillRead ==
  ASSUME PaymentsInv, NEW r \in PayRequests, commits(r),
         \/ UNCHANGED paymentRow
         \/ orderHeld = r
         \/ /\ paymentRow # NoRow /\ paymentRow.status = "CAPTURED" /\ paymentRow.refund = "PENDING"
            /\ GivenBack',
         paymentRow' \in Payments \cup {NoRow},
         \/ UNCHANGED settingsRow
         \/ settingsRow' \in PaymentSettings /\ settingsRow'.version > settingsRow.version
  PROVE  /\ asking' \in [PayRequests -> PayRequest] /\ orderHeld' \in PayRequests \cup {NoRow}
         /\ \A q \in PayRequests : AskSound(q)'
<1>1. /\ asking \in [PayRequests -> PayRequest] /\ orderHeld \in PayRequests \cup {NoRow}
      /\ settingsRow \in PaymentSettings
      /\ paymentRow \in Payments \cup {NoRow}
  BY DEF PaymentsInv, PaymentTypeOK
<1>2. NotAsking \in PayRequest /\ NotAsking.op = "none"
  BY DEF NotAsking, PayRequest
<1>3. asking' \in [PayRequests -> PayRequest] /\ orderHeld' \in PayRequests \cup {NoRow}
  BY <1>1, <1>2 DEF commits
<1>4. ASSUME NEW q \in PayRequests
      PROVE  AskSound(q)'
  <2>1. CASE q = r
    BY <1>1, <1>2, <2>1 DEF commits, AskSound, OrderOps
  <2>2. CASE q # r
    <3>1. asking'[q] = asking[q]
      BY <1>1, <2>2 DEF commits
    <3> DEFINE x == asking[q]
    <3>2. AskSound(q) /\ x \in PayRequest
      BY <1>1 DEF PaymentsInv
    <3>3. ASSUME x.op \in OrderOps, x.at = "read"
          PROVE  orderHeld' = q /\ ReadsPayment(x)'
      <4>1. orderHeld = q /\ ReadsPayment(x)
        BY <3>2, <3>3 DEF AskSound
      <4>2. orderHeld # r /\ orderHeld' = q
        BY <2>2, <4>1 DEF commits
      <4>3. CASE UNCHANGED paymentRow
        BY <3>1, <4>1, <4>2, <4>3 DEF ReadsPayment, GivenBack
      <4>4. CASE /\ paymentRow # NoRow /\ paymentRow.status = "CAPTURED" /\ paymentRow.refund = "PENDING"
                 /\ GivenBack'
        \* What it read is the payment before, since no other refund of it was registered.
        BY <4>1, <4>4, <1>1, <3>1, <4>2 DEF ReadsPayment, GivenBack
      <4> QED
        BY <4>2, <4>3, <4>4
    <3>4. ASSUME x.op = "configure"
          PROVE  ReadsSettings(x)'
      <4>1. ReadsSettings(x)
        BY <3>2, <3>4 DEF AskSound
      <4>2. x.saw.version \in Nat /\ settingsRow.version \in Nat
        BY <1>1, <4>1 DEF ReadsSettings, PaymentSettings
      <4>3. CASE UNCHANGED settingsRow
        BY <3>1, <4>1, <4>3 DEF ReadsSettings
      <4>4. CASE settingsRow' \in PaymentSettings /\ settingsRow'.version > settingsRow.version
        BY <4>4, <3>1, <4>1, <4>2 DEF PaymentSettings, ReadsSettings
      <4> QED
        BY <4>3, <4>4
    <3> QED
      BY <3>1, <3>3, <3>4 DEF AskSound
  <2> QED
    BY <2>1, <2>2
<1> QED
  BY <1>3, <1>4

\* A save takes the version of a payment forward and nothing else.
LEMMA NextVersion ==
  ASSUME NEW row \in Payments
  PROVE  LET new == [row EXCEPT !.version = @ + 1] IN
         /\ new \in Payments /\ new.version = row.version + 1
         /\ new.status = row.status /\ new.refund = row.refund /\ new.attempts = row.attempts
  BY DEF Payments

\* What is appended to one element makes a pair.
LEMMA OneAppended ==
  ASSUME NEW T, NEW s \in Seq(T), NEW e \in T, Len(s) = 1
  PROVE  Append(s, e) = <<s[1], e>>
<1> DEFINE a == Append(s, e)
           b == <<s[1], e>>
<1>1. /\ a \in Seq(T) /\ Len(a) = Len(s) + 1 /\ (\A i \in 1..Len(s) : a[i] = s[i]) /\ a[Len(s) + 1] = e
  BY AppendProperties, ZenonT(30)
<1>2. s[1] \in T
  <2>1. 1 \in 1..Len(s)
    OBVIOUS
  <2> QED
    BY <2>1, ElementOfSeq
<1>3. b \in Seq(T) /\ Len(b) = 2 /\ b[1] = s[1] /\ b[2] = e
  BY <1>2
<1> HIDE DEF a, b
<1>4. Len(a) = Len(b) /\ \A i \in 1..Len(a) : a[i] = b[i]
  BY <1>1, <1>3
<1>5. a = b
  BY <1>1, <1>3, <1>4, SeqEqual
<1> QED
  BY <1>5 DEF a, b

\* The attempts of a payment that is collected.
LEMMA AttemptAppended == Append(<<"PENDING">>, "CAPTURED") = <<"PENDING", "CAPTURED">>
<1>1. <<"PENDING">> \in Seq(PaymentStatuses) /\ "CAPTURED" \in PaymentStatuses
  BY DEF PaymentStatuses
<1>2. Len(<<"PENDING">>) = 1 /\ <<"PENDING">>[1] = "PENDING"
  OBVIOUS
<1>3. ASSUME NEW s \in Seq(PaymentStatuses), Len(s) = 1, s[1] = "PENDING"
      PROVE  Append(s, "CAPTURED") = <<"PENDING", "CAPTURED">>
  BY <1>1, <1>3, OneAppended
<1> QED
  BY <1>1, <1>2, <1>3

\* A captured payment is a payment, with one more attempt.
LEMMA PaymentCaptured ==
  ASSUME NEW row \in Payments
  PROVE  LET new == captured(row) IN
         /\ new \in Payments /\ new.status = "CAPTURED" /\ new.refund = row.refund
         /\ new.attempts = Append(row.attempts, "CAPTURED")
<1>1. row.attempts \in PaymentAttempts
  BY DEF Payments
<1>2. Append(row.attempts, "CAPTURED") \in PaymentAttempts
  BY <1>1 DEF PaymentAttempts, PaymentStatuses
<1> DEFINE at == Append(row.attempts, "CAPTURED")
<1>3. captured(row) = [row EXCEPT !.status = "CAPTURED", !.attempts = at]
  BY DEF captured
<1> HIDE DEF at, captured
<1>4. captured(row) = [status |-> "CAPTURED", refund |-> row.refund, attempts |-> at, version |-> row.version]
  BY <1>3 DEF Payments
<1>5. captured(row) \in Payments
  BY <1>2, <1>4 DEF Payments, PaymentStatuses, at
<1> QED
  BY <1>4, <1>5 DEF at

\* A payment that is owed back, cancelled or given back.
LEMMA PaymentClosed ==
  ASSUME NEW row \in Payments
  PROVE  /\ LET new == refunding(row) IN
            new \in Payments /\ new.status = row.status /\ new.refund = "PENDING" /\ new.attempts = row.attempts
         /\ LET new == cancelled(row) IN
            new \in Payments /\ new.status = "CANCELLED" /\ new.refund = row.refund /\ new.attempts = row.attempts
         /\ LET new == [row EXCEPT !.refund = "COMPLETED", !.status = "REFUNDED"] IN
            new \in Payments /\ new.status = "REFUNDED" /\ new.refund = "COMPLETED" /\ new.attempts = row.attempts
<1>1. LET new == refunding(row) IN
      new \in Payments /\ new.status = row.status /\ new.refund = "PENDING" /\ new.attempts = row.attempts
  BY DEF refunding, Payments
<1>2. LET new == cancelled(row) IN
      new \in Payments /\ new.status = "CANCELLED" /\ new.refund = row.refund /\ new.attempts = row.attempts
  BY DEF cancelled, Payments, PaymentStatuses
<1>3. LET new == [row EXCEPT !.refund = "COMPLETED", !.status = "REFUNDED"] IN
      new \in Payments /\ new.status = "REFUNDED" /\ new.refund = "COMPLETED" /\ new.attempts = row.attempts
  BY DEF Payments, PaymentStatuses
<1> QED
  BY <1>1, <1>2, <1>3

\* What a request may do to the payment: nothing, start it, or save it collected, cancelled, owed back or given back.
nextVersion(row) == [row EXCEPT !.version = @ + 1]
Starts == paymentRow = NoRow /\ paymentRow' \in {newPayment, captured(newPayment)}
Collects == paymentRow # NoRow /\ paymentRow.status = "PENDING" /\ paymentRow' = nextVersion(captured(paymentRow))
Cancels == paymentRow # NoRow /\ paymentRow.status = "PENDING" /\ paymentRow' = nextVersion(cancelled(paymentRow))
Owes ==
  /\ paymentRow # NoRow /\ paymentRow.status = "CAPTURED" /\ paymentRow.refund = "NONE"
  /\ paymentRow' = nextVersion(refunding(paymentRow))
GivesBack ==
  /\ paymentRow # NoRow /\ paymentRow.refund = "PENDING"
  /\ paymentRow' = nextVersion([paymentRow EXCEPT !.refund = "COMPLETED", !.status = "REFUNDED"])
PaymentMoves == UNCHANGED paymentRow \/ Starts \/ Collects \/ Cancels \/ Owes \/ GivesBack

PaymentForward ==
  paymentRow # NoRow =>
    /\ paymentRow' # NoRow
    /\ paymentRow'.status # paymentRow.status =>
         <<paymentRow.status, paymentRow'.status>> \in
           {<<"PENDING", "CAPTURED">>, <<"PENDING", "CANCELLED">>, <<"CAPTURED", "REFUNDED">>}

\* Every such change leaves a payment whose refund and attempts go with its status, and goes forward.
LEMMA PaymentsMove ==
  ASSUME PaymentsInv, PaymentMoves
  PROVE  /\ paymentRow' \in Payments \cup {NoRow} /\ (paymentRow' # NoRow => PaymentSound(paymentRow'))
         /\ PaymentForward
<1>1. /\ paymentRow \in Payments \cup {NoRow} /\ (paymentRow # NoRow => PaymentSound(paymentRow))
      /\ NoRow \notin Payments
  BY PaymentRowsAssumption DEF PaymentsInv, PaymentTypeOK, MoneySound
<1>2. CASE UNCHANGED paymentRow
  BY <1>1, <1>2 DEF PaymentForward, PaymentSound
<1>3. CASE Starts
  <2>1. newPayment \in Payments /\ newPayment.status = "PENDING" /\ newPayment.refund = "NONE" /\ newPayment.attempts = <<"PENDING">>
    BY DEF PaymentAttempts, PaymentStatuses, newPayment, Payments
  <2>2. \A row \in {newPayment, captured(newPayment)} : row \in Payments /\ PaymentSound(row)
    <3>1. PaymentSound(newPayment)
      BY <2>1 DEF PaymentSound
    <3> DEFINE new == captured(newPayment)
    <3>2. /\ new \in Payments /\ new.status = "CAPTURED" /\ new.refund = newPayment.refund
          /\ new.attempts = Append(newPayment.attempts, "CAPTURED")
      BY <2>1, PaymentCaptured
    <3> HIDE DEF new
    <3>3. new.attempts = <<"PENDING", "CAPTURED">>
      BY <2>1, <3>2, AttemptAppended
    <3>4. PaymentSound(new)
      BY <2>1, <3>2, <3>3 DEF PaymentSound
    <3>5. new \in Payments
      BY <3>2
    <3> QED
      BY <2>1, <3>1, <3>4, <3>5 DEF new
  <2> QED
    BY <1>3, <2>2 DEF Starts, PaymentForward
<1>4. CASE paymentRow # NoRow /\ ~UNCHANGED paymentRow
  <2>1. paymentRow \in Payments /\ PaymentSound(paymentRow)
    BY <1>1, <1>4
  <2>2. paymentRow.status \in PaymentStatuses
    BY <2>1 DEF Payments
  <2>3. PICK row \in Payments :
          /\ paymentRow' = nextVersion(row)
          /\ PaymentSound(row)
          /\ row.status # paymentRow.status =>
               <<paymentRow.status, row.status>> \in
                 {<<"PENDING", "CAPTURED">>, <<"PENDING", "CANCELLED">>, <<"CAPTURED", "REFUNDED">>}
    <3>1. CASE Collects
      <4> DEFINE new == captured(paymentRow)
      <4>0. paymentRow.status = "PENDING" /\ paymentRow.refund = "NONE" /\ paymentRow.attempts = <<"PENDING">>
        BY <2>1, <3>1 DEF Collects, PaymentSound
      <4>1. new.attempts = <<"PENDING", "CAPTURED">>
        BY <2>1, <4>0, PaymentCaptured, AttemptAppended
      <4>2. /\ new \in Payments /\ PaymentSound(new)
            /\ <<paymentRow.status, new.status>> \in
                 {<<"PENDING", "CAPTURED">>, <<"PENDING", "CANCELLED">>, <<"CAPTURED", "REFUNDED">>}
               \/ new.status = paymentRow.status
        BY <2>1, <4>0, <4>1, PaymentCaptured DEF PaymentSound
      <4>3. paymentRow' = nextVersion(new)
        BY <3>1 DEF Collects
      <4> HIDE DEF new
      <4> QED
        BY <4>2, <4>3
    <3>2. CASE Cancels
      <4> DEFINE new == cancelled(paymentRow)
      <4>2. /\ new \in Payments /\ PaymentSound(new)
            /\ <<paymentRow.status, new.status>> \in
                 {<<"PENDING", "CAPTURED">>, <<"PENDING", "CANCELLED">>, <<"CAPTURED", "REFUNDED">>}
               \/ new.status = paymentRow.status
        BY <2>1, <3>2, PaymentClosed DEF Cancels, PaymentSound
      <4>3. paymentRow' = nextVersion(new)
        BY <3>2 DEF Cancels
      <4> HIDE DEF new
      <4> QED
        BY <4>2, <4>3
    <3>3. CASE Owes
      <4> DEFINE new == refunding(paymentRow)
      <4>2. /\ new \in Payments /\ PaymentSound(new)
            /\ <<paymentRow.status, new.status>> \in
                 {<<"PENDING", "CAPTURED">>, <<"PENDING", "CANCELLED">>, <<"CAPTURED", "REFUNDED">>}
               \/ new.status = paymentRow.status
        BY <2>1, <3>3, PaymentClosed, ZenonT(30) DEF Owes, PaymentSound
      <4>3. paymentRow' = nextVersion(new)
        BY <3>3 DEF Owes
      <4> HIDE DEF new
      <4> QED
        BY <4>2, <4>3
    <3>4. CASE GivesBack
      <4> DEFINE new == [paymentRow EXCEPT !.refund = "COMPLETED", !.status = "REFUNDED"]
      <4>1. paymentRow.status = "CAPTURED"
        BY <2>1, <2>2, <3>4 DEF GivesBack, PaymentSound, PaymentStatuses
      <4>2. /\ new \in Payments /\ PaymentSound(new)
            /\ <<paymentRow.status, new.status>> \in
                 {<<"PENDING", "CAPTURED">>, <<"PENDING", "CANCELLED">>, <<"CAPTURED", "REFUNDED">>}
               \/ new.status = paymentRow.status
        BY <2>1, <3>4, <4>1, PaymentClosed DEF GivesBack, PaymentSound
      <4>3. paymentRow' = nextVersion(new)
        BY <3>4 DEF GivesBack
      <4> HIDE DEF new
      <4> QED
        BY <4>2, <4>3
    <3> QED
      BY <1>4, <3>1, <3>2, <3>3, <3>4 DEF PaymentMoves, Starts
  <2>4. /\ paymentRow' \in Payments /\ paymentRow'.status = row.status /\ paymentRow'.refund = row.refund
        /\ paymentRow'.attempts = row.attempts
    BY <2>3, NextVersion DEF nextVersion
  <2> QED
    BY <1>1, <2>3, <2>4 DEF PaymentSound, PaymentForward
<1> QED
  BY <1>2, <1>3, <1>4 DEF PaymentMoves, Collects, Cancels, Owes, GivesBack

-----------------------------------------------------------------------------
(* The steps of the requests.                                              *)

\* Who holds the order and saves over what it read saves over the payment; and what it read to be owed back is.
LEMMA ReadIsCurrent ==
  ASSUME PaymentsInv, NEW r \in PayRequests, NEW op \in OrderOps, isReading(r, op)
  PROVE  /\ orderHeld = r /\ asking[r].saw \in Payments \cup {NoRow}
         /\ asking[r].saw = NoRow \/ asking[r].saw.status # "CAPTURED" \/ asking[r].saw.refund # "PENDING"
              => asking[r].saw = paymentRow
         /\ asking[r].saw # paymentRow =>
              asking[r].saw # NoRow /\ asking[r].saw.status = "CAPTURED" /\ asking[r].saw.refund = "PENDING" /\ GivenBack
BY DEF PaymentsInv, AskSound, isReading, ReadsPayment

\* Starting a refund owes what was collected, and no more.
LEMMA StartsRefund ==
  ASSUME PaymentsInv, NEW r \in PayRequests, NEW op \in OrderOps, isReading(r, op), startRefundOf(asking[r].saw)
  PROVE  /\ UNCHANGED paymentRow \/ Owes
         /\ Owed' /\ (Collected' <=> Collected) /\ (GivenBack' <=> GivenBack)
<1> DEFINE read == asking[r].saw
<1>1. /\ read \in Payments \cup {NoRow} /\ isRefundable(read)
      /\ read # paymentRow => read # NoRow /\ read.refund = "PENDING" /\ GivenBack
  BY ReadIsCurrent DEF startRefundOf
<1>2. paymentRow # NoRow => PaymentSound(paymentRow)
  BY DEF PaymentsInv, MoneySound
<1>3. CASE read.refund # "NONE"
  BY <1>3, <1>1, <1>2 DEF startRefundOf, Owed, GivenBack, PaymentSound, isRefundable, Collected
<1>4. CASE read.refund = "NONE"
  <2>1. /\ read = paymentRow /\ paymentRow # NoRow /\ paymentRow.status = "CAPTURED"
        /\ paymentRow' = nextVersion(refunding(paymentRow))
    BY <1>1, <1>4 DEF startRefundOf, isRefundable, savePayment, nextVersion
  <2>2. paymentRow \in Payments
    BY <1>1, <2>1
  <2>3. paymentRow'.refund = "PENDING" /\ paymentRow' \in Payments /\ paymentRow'.status = "CAPTURED"
    <3>1. /\ refunding(paymentRow) \in Payments /\ refunding(paymentRow).refund = "PENDING"
          /\ refunding(paymentRow).status = "CAPTURED"
      BY <2>1, <2>2, PaymentClosed
    <3> QED
      BY <2>1, <3>1, NextVersion DEF nextVersion
  <2> QED
    BY <1>4, <2>1, <2>3, PaymentRowsAssumption DEF Owed, Owes, GivenBack, Collected
<1> QED
  BY <1>3, <1>4

\* What a request commits keeps the invariant: a change of the payment that its count of captures and refunds follows.
LEMMA Committed ==
  ASSUME PaymentsInv, NEW r \in PayRequests, commits(r), PaymentMoves, UNCHANGED settingsRow,
         \/ UNCHANGED paymentRow
         \/ orderHeld = r
         \/ GivesBack,
         orderRow' \in [status : Sold, paid : BOOLEAN], captures' \in {0, 1}, completions' \in {0, 1},
         delivering' \subseteq PayEvents,
         captures' = 1 <=> Collected', completions' = 1 <=> GivenBack',
         "RefundCompleted" \in delivering' => completions' = 1,
         OrderSound'
  PROVE  PaymentsInv' /\ PaymentForward
<1>1. /\ paymentRow' \in Payments \cup {NoRow} /\ (paymentRow' # NoRow => PaymentSound(paymentRow'))
      /\ PaymentForward
  BY PaymentsMove
<1>2. paymentRow \in Payments \cup {NoRow} /\ settingsRow \in PaymentSettings /\ NoRow \notin Payments
      /\ (paymentRow # NoRow => PaymentSound(paymentRow))
  BY PaymentRowsAssumption DEF PaymentsInv, PaymentTypeOK, MoneySound
<1>3. ASSUME GivesBack
      PROVE  paymentRow # NoRow /\ paymentRow.status = "CAPTURED" /\ paymentRow.refund = "PENDING" /\ GivenBack'
  <2> DEFINE row == [paymentRow EXCEPT !.refund = "COMPLETED", !.status = "REFUNDED"]
  <2>1. paymentRow \in Payments /\ PaymentSound(paymentRow) /\ paymentRow.refund = "PENDING" /\ paymentRow' = nextVersion(row)
    BY <1>2, <1>3 DEF GivesBack
  <2>2. paymentRow.status = "CAPTURED"
    BY <2>1 DEF PaymentSound, Payments, PaymentStatuses
  <2>3. row \in Payments /\ row.status = "REFUNDED"
    BY <2>1, PaymentClosed
  <2> HIDE DEF row
  <2>4. paymentRow' \in Payments /\ paymentRow'.status = "REFUNDED"
    BY <2>1, <2>3, NextVersion DEF nextVersion
  <2> QED
    BY <1>2, <2>1, <2>2, <2>4 DEF GivenBack
<1>4. /\ asking' \in [PayRequests -> PayRequest] /\ orderHeld' \in PayRequests \cup {NoRow}
      /\ \A q \in PayRequests : AskSound(q)'
  BY <1>1, <1>3, OthersStillRead
<1>5. PaymentTypeOK'
  BY <1>1, <1>2, <1>4 DEF PaymentTypeOK
<1>6. MoneySound'
  BY <1>1 DEF MoneySound
<1> QED
  BY <1>1, <1>4, <1>5, <1>6 DEF PaymentsInv

\* The staff or an event asks, reads, looks at the settings or is refused: nothing of the money changes.
LEMMA RequestsGoOn ==
  ASSUME PaymentsInv, NEW r \in PayRequests,
         \/ \E op \in PayOps : askFor(r, op)
         \/ findByOrder(r) \/ refuse(r) \/ findSettings(r)
  PROVE  PaymentsInv' /\ PaymentForward /\ UNCHANGED settingsRow
<1> DEFINE moneyVars == <<orderRow, paymentRow, settingsRow, captures, completions, delivering>>
<1>1. UNCHANGED moneyVars
  BY DEF askFor, findByOrder, refuse, findSettings
<1>2. /\ PaymentTypeOK /\ MoneySound /\ OrderSound /\ \A q \in PayRequests : AskSound(q)
      /\ settingsRow \in PaymentSettings /\ settingsRow.version \in Nat
      /\ paymentRow \in Payments \cup {NoRow} /\ asking \in [PayRequests -> PayRequest]
      /\ orderHeld \in PayRequests \cup {NoRow} /\ NoRow \notin PayRequests
  BY PaymentRowsAssumption DEF PaymentsInv, PaymentTypeOK, PaymentSettings
<1>3. NotAsking \in PayRequest /\ NotAsking.op = "none"
  BY DEF NotAsking, PayRequest
<1>4. MoneySound' /\ OrderSound'
  BY <1>1, <1>2 DEF MoneySound, OrderSound, Collected, GivenBack, Owed, PaymentSound
<1>5. PICK x \in PayRequest :
      /\ asking' = [asking EXCEPT ![r] = x]
      /\ \/ orderHeld' = orderHeld
         \/ orderHeld = NoRow /\ orderHeld' = r
         \/ orderHeld = r /\ orderHeld' = NoRow
      /\ x.op \in OrderOps /\ x.at = "read" => orderHeld' = r /\ x.saw = paymentRow
      /\ x.op = "configure" => ReadsSettings(x)
  <2>1. CASE \E op \in PayOps : askFor(r, op)
    <3>1. PICK op \in PayOps : askFor(r, op)
      BY <2>1
    <3> DEFINE x == [op |-> op, at |-> "asked", saw |-> IF op = "configure" THEN settingsRow ELSE paymentRow]
    <3>2. x \in PayRequest /\ x.at = "asked" /\ (x.op = "configure" => x.saw = settingsRow)
      BY <1>2 DEF PayRequest
    <3>3. asking' = [asking EXCEPT ![r] = x] /\ orderHeld' = orderHeld
      BY <3>1 DEF askFor
    <3> HIDE DEF x
    <3>4. x.op = "configure" => ReadsSettings(x)
      BY <1>2, <3>2 DEF ReadsSettings
    <3> QED
      BY <3>2, <3>3, <3>4
  <2>2. CASE findByOrder(r)
    <3> DEFINE x == [asking[r] EXCEPT !.at = "read", !.saw = paymentRow]
    <3>1. asking[r] \in PayRequest /\ asking[r].op \in OrderOps
      BY <1>2, <2>2 DEF findByOrder
    <3>2. x \in PayRequest /\ x.op \in OrderOps /\ x.at = "read" /\ x.saw = paymentRow
      BY <1>2, <3>1 DEF PayRequest
    <3>3. asking' = [asking EXCEPT ![r] = x] /\ orderHeld' = r /\ orderHeld = NoRow
      BY <2>2 DEF findByOrder
    <3> HIDE DEF x
    <3> QED
      BY <3>2, <3>3 DEF OrderOps
  <2>3. CASE refuse(r)
    BY <1>2, <1>3, <2>3 DEF refuse, OrderOps
  <2>4. CASE findSettings(r)
    <3> DEFINE x == [asking[r] EXCEPT !.at = "read"]
    <3>1. asking[r] \in PayRequest /\ asking[r].op = "configure" /\ ReadsSettings(asking[r])
      BY <1>2, <2>4 DEF findSettings, AskSound
    <3>2. x \in PayRequest /\ x.op = "configure" /\ x.saw = asking[r].saw
      BY <3>1 DEF PayRequest
    <3>3. asking' = [asking EXCEPT ![r] = x] /\ orderHeld' = orderHeld
      BY <2>4 DEF findSettings
    <3> HIDE DEF x
    <3> QED
      BY <3>1, <3>2, <3>3 DEF ReadsSettings, OrderOps
  <2> QED
    BY <2>1, <2>2, <2>3, <2>4
<1>x. /\ x.op \in OrderOps /\ x.at = "read" => orderHeld' = r /\ x.saw = paymentRow
      /\ x.op = "configure" => ReadsSettings(x)
  BY <1>5
<1>6. asking' \in [PayRequests -> PayRequest] /\ asking'[r] = x /\ \A q \in PayRequests \ {r} : asking'[q] = asking[q]
  BY <1>2, <1>5
<1>7. orderHeld' \in PayRequests \cup {NoRow}
  BY <1>2, <1>5
<1>8. ASSUME NEW q \in PayRequests
      PROVE  AskSound(q)'
  <2>1. CASE q = r
    BY <1>1, <1>2, <1>x, <1>6, <2>1 DEF AskSound, ReadsPayment, ReadsSettings
  <2>2. CASE q # r
    BY <1>2, <1>6, <2>2, <1>5, <1>1 DEF AskSound, ReadsPayment, ReadsSettings, GivenBack
  <2> QED
    BY <2>1, <2>2
<1>9. PaymentForward
  BY <1>1 DEF PaymentForward
<1> QED
  BY <1>1, <1>2, <1>4, <1>6, <1>7, <1>8, <1>9 DEF PaymentsInv, PaymentTypeOK

\* A payment started or collected by whoever holds the order.
LEMMA PaymentStarted ==
  ASSUME PaymentsInv, NEW r \in PayRequests, startPayment(r)
  PROVE  PaymentsInv' /\ PaymentForward
<1> DEFINE read == asking[r].saw
<1>1. orderHeld = r /\ commits(r) /\ UNCHANGED <<orderRow, settingsRow, captures, completions, delivering>>
  BY ReadIsCurrent DEF startPayment, OrderOps
<1>2. PaymentTypeOK /\ MoneySound /\ OrderSound
  BY DEF PaymentsInv
<1>3. CASE UNCHANGED paymentRow
  BY <1>1, <1>2, <1>3, Committed DEF PaymentTypeOK, MoneySound, OrderSound, Collected, GivenBack, Owed, PaymentMoves
<1>4. CASE insertPayment(newPayment)
  <2>1. paymentRow = NoRow /\ paymentRow' = newPayment /\ newPayment.status = "PENDING" /\ newPayment.refund = "NONE"
    BY <1>4 DEF insertPayment, newPayment
  <2>2. PaymentMoves
    BY <2>1 DEF PaymentMoves, Starts
  <2>3. ~Collected /\ ~GivenBack /\ ~Owed /\ ~Collected' /\ ~GivenBack' /\ ~Owed'
    BY <2>1 DEF Collected, GivenBack, Owed
  <2>4. /\ captures' \in {0, 1} /\ completions' \in {0, 1} /\ delivering' \subseteq PayEvents
        /\ orderRow' \in [status : Sold, paid : BOOLEAN]
        /\ captures' = 1 <=> Collected'
        /\ completions' = 1 <=> GivenBack'
        /\ "RefundCompleted" \in delivering' => completions' = 1
    BY <1>1, <1>2, <2>3 DEF PaymentTypeOK, MoneySound
  <2>5. OrderSound'
    BY <1>1, <1>2, <2>3 DEF OrderSound
  <2> QED
    BY <1>1, <2>2, <2>4, <2>5, Committed
<1> QED
  BY <1>3, <1>4 DEF startPayment

\* Capturing keeps the invariant, and payments go forward.
LEMMA PaymentCollected ==
  ASSUME PaymentsInv, NEW r \in PayRequests, capture(r)
  PROVE  PaymentsInv' /\ PaymentForward
<1> DEFINE read == asking[r].saw
<1>1. /\ orderHeld = r /\ commits(r) /\ UNCHANGED <<orderRow, settingsRow, completions>>
      /\ captures' = captures + 1 /\ delivering' = delivering \cup {"PaymentCaptured"}
  BY ReadIsCurrent DEF capture, OrderOps
<1>2. /\ PaymentTypeOK /\ MoneySound /\ OrderSound /\ paymentRow \in Payments \cup {NoRow} /\ NoRow \notin Payments
      /\ completions \in {0, 1} /\ orderRow \in [status : Sold, paid : BOOLEAN] /\ captures \in {0, 1}
      /\ delivering \subseteq PayEvents
  BY PaymentRowsAssumption DEF PaymentsInv, PaymentTypeOK
<1>3. newPayment \in Payments /\ newPayment.status = "PENDING" /\ newPayment.refund = "NONE"
  BY DEF PaymentAttempts, PaymentStatuses, newPayment, Payments
<1>4. /\ PaymentMoves /\ ~Collected /\ ~Owed
      /\ paymentRow' \in Payments /\ paymentRow'.status = "CAPTURED" /\ paymentRow'.refund = "NONE"
  <2>1. CASE read = NoRow /\ insertPayment(captured(newPayment))
    BY <1>3, PaymentCaptured, <2>1 DEF insertPayment, PaymentMoves, Starts, Collected, Owed
  <2>2. CASE read # NoRow /\ isCapturable(read) /\ savePayment(read, captured(read))
    <3>1. read = paymentRow /\ paymentRow # NoRow /\ paymentRow.status = "PENDING"
      BY <2>2, ReadIsCurrent DEF capture, OrderOps, isCapturable
    <3>2. paymentRow \in Payments /\ paymentRow.refund = "NONE" /\ paymentRow' = nextVersion(captured(paymentRow))
      BY <1>2, <2>2, <3>1 DEF MoneySound, PaymentSound, savePayment, nextVersion
    <3>3. captured(paymentRow) \in Payments /\ captured(paymentRow).status = "CAPTURED" /\ captured(paymentRow).refund = "NONE"
      BY <3>2, PaymentCaptured
    <3>4. paymentRow' \in Payments /\ paymentRow'.status = "CAPTURED" /\ paymentRow'.refund = "NONE"
      BY <3>2, <3>3, NextVersion DEF nextVersion
    <3> QED
      BY <3>1, <3>2, <3>4 DEF PaymentMoves, Collects, Collected, Owed
  <2> QED
    BY <2>1, <2>2 DEF capture
<1>5. Collected' /\ ~GivenBack' /\ ~Owed' /\ ~GivenBack
  BY <1>2, <1>4 DEF Collected, GivenBack, Owed
<1>6. captures' = 1 /\ completions' = 0 /\ "RefundCompleted" \notin delivering'
  BY <1>1, <1>2, <1>4, <1>5 DEF MoneySound
<1>7. OrderSound'
  BY <1>1, <1>2, <1>4, <1>5, <1>6 DEF OrderSound
<1>8. delivering' \subseteq PayEvents
  BY <1>1, <1>2 DEF PayEvents
<1> QED
  BY <1>1, <1>2, <1>4, <1>5, <1>6, <1>7, <1>8, Committed

\* An order that is cancelled, or hears of its payment, owes back what was collected.
LEMMA OrderCancelled ==
  ASSUME PaymentsInv, NEW r \in PayRequests, cancelOrder(r)
  PROVE  PaymentsInv' /\ PaymentForward
<1> DEFINE read == asking[r].saw
<1>1. /\ orderHeld = r /\ commits(r) /\ UNCHANGED <<settingsRow, captures, completions, delivering>>
      /\ orderRow' = [orderRow EXCEPT !.status = "CANCELLED"] /\ isReading(r, "cancel") /\ "cancel" \in OrderOps
  BY ReadIsCurrent DEF cancelOrder, OrderOps
<1>2. /\ PaymentTypeOK /\ MoneySound /\ OrderSound /\ paymentRow \in Payments \cup {NoRow} /\ NoRow \notin Payments
      /\ orderRow \in [status : Sold, paid : BOOLEAN]
      /\ captures \in {0, 1} /\ completions \in {0, 1} /\ delivering \subseteq PayEvents
  BY PaymentRowsAssumption DEF PaymentsInv, PaymentTypeOK
<1>3. orderRow' \in [status : Sold, paid : BOOLEAN] /\ orderRow'.status = "CANCELLED" /\ orderRow'.paid = orderRow.paid
  BY <1>1, <1>2 DEF Sold
<1>4. /\ PaymentMoves /\ (Collected' <=> Collected) /\ (GivenBack' <=> GivenBack)
      /\ orderRow.paid => Owed'
  <2>1. CASE orderRow.status = "PAID"
    BY <2>1, <1>1, StartsRefund DEF cancelOrder, PaymentMoves
  <2>2. CASE orderRow.status # "PAID"
    <3>1. cancelPendingOf(read)
      BY <2>2 DEF cancelOrder
    <3>2. orderRow.paid => Owed
      BY <1>2, <2>2 DEF MoneySound, PaymentSound, GivenBack, Owed, OrderSound, Sold
    <3>3. CASE UNCHANGED paymentRow
      BY <3>2, <3>3 DEF PaymentMoves, Collected, GivenBack, Owed
    <3>4. CASE read # NoRow /\ read.status = "PENDING" /\ savePayment(read, cancelled(read))
      <4>1. read = paymentRow /\ paymentRow # NoRow /\ paymentRow.status = "PENDING"
        BY <1>1, <3>4, ReadIsCurrent
      <4>2. paymentRow \in Payments /\ paymentRow.refund = "NONE" /\ paymentRow' = nextVersion(cancelled(paymentRow))
        BY <1>2, <3>4, <4>1 DEF MoneySound, PaymentSound, savePayment, nextVersion
      <4>3. cancelled(paymentRow) \in Payments /\ cancelled(paymentRow).status = "CANCELLED"
        BY <4>2, PaymentClosed
      <4>4. paymentRow' \in Payments /\ paymentRow'.status = "CANCELLED"
        BY <4>2, <4>3, NextVersion DEF nextVersion
      <4>5. ~orderRow.paid
        BY <3>2, <4>2 DEF Owed
      <4> QED
        BY <4>1, <4>2, <4>4, <4>5 DEF PaymentMoves, Cancels, Collected, GivenBack
    <3> QED
      BY <3>1, <3>3, <3>4 DEF cancelPendingOf
  <2> QED
    BY <2>1, <2>2
<1>5. /\ captures' = 1 <=> Collected'
      /\ completions' = 1 <=> GivenBack'
      /\ "RefundCompleted" \in delivering' => completions' = 1
  BY <1>1, <1>2, <1>4 DEF MoneySound
<1>6. OrderSound'
  BY <1>1, <1>2, <1>3, <1>4 DEF OrderSound
<1> QED
  BY <1>1, <1>2, <1>3, <1>4, <1>5, <1>6, Committed

\* Recording a payment by hand does.
LEMMA PaymentRecorded ==
  ASSUME PaymentsInv, NEW r \in PayRequests, NEW noted \in BOOLEAN, recordPaymentOf(r, noted)
  PROVE  PaymentsInv' /\ PaymentForward
<1> DEFINE read == asking[r].saw
<1>1. /\ orderHeld = r /\ commits(r) /\ UNCHANGED <<settingsRow, captures, completions>>
      /\ isReading(r, "recordPayment") /\ "recordPayment" \in OrderOps
      /\ delivering' = IF noted THEN delivering \ {"PaymentCaptured"} ELSE delivering
  BY ReadIsCurrent DEF recordPaymentOf, OrderOps
<1>2. /\ PaymentTypeOK /\ MoneySound /\ OrderSound /\ paymentRow \in Payments \cup {NoRow} /\ NoRow \notin Payments
      /\ orderRow \in [status : Sold, paid : BOOLEAN]
      /\ captures \in {0, 1} /\ completions \in {0, 1} /\ delivering \subseteq PayEvents
  BY PaymentRowsAssumption DEF PaymentsInv, PaymentTypeOK
<1>3. /\ PaymentMoves /\ (Collected' <=> Collected) /\ (GivenBack' <=> GivenBack)
      /\ orderRow' \in [status : Sold, paid : BOOLEAN] /\ orderRow'.paid
      /\ \/ orderRow'.status = "PAID" /\ orderRow.status \in {"PENDING_PAYMENT", "EXPIRED"} /\ UNCHANGED paymentRow
         \/ orderRow'.status = "CANCELLED" /\ Owed'
         \/ UNCHANGED <<orderRow, paymentRow>>
  <2>1. CASE /\ orderRow.status \in {"PENDING_PAYMENT", "EXPIRED"}
             /\ orderRow' = [status |-> "PAID", paid |-> TRUE] /\ UNCHANGED paymentRow
    BY <2>1 DEF PaymentMoves, Collected, GivenBack, Sold
  <2>2. CASE /\ orderRow.status = "CANCELLED" /\ ~orderRow.paid
             /\ startRefundOf(read) /\ orderRow' = [orderRow EXCEPT !.paid = TRUE]
    BY <1>2, <2>2, <1>1, StartsRefund DEF PaymentMoves
  <2>3. CASE orderRow.paid /\ UNCHANGED <<orderRow, paymentRow>>
    BY <1>2, <2>3 DEF PaymentMoves, Collected, GivenBack
  <2> QED
    BY <2>1, <2>2, <2>3 DEF recordPaymentOf
<1>4. delivering' \subseteq delivering
  BY <1>1
<1>5. /\ captures' = 1 <=> Collected'
      /\ completions' = 1 <=> GivenBack'
      /\ "RefundCompleted" \in delivering' => completions' = 1
  BY <1>1, <1>2, <1>3, <1>4 DEF MoneySound
<1>6. OrderSound'
  <2>1. CASE orderRow'.status = "PAID" /\ orderRow.status \in {"PENDING_PAYMENT", "EXPIRED"} /\ UNCHANGED paymentRow
    BY <1>2, <2>1, <1>3 DEF OrderSound, Owed
  <2>2. CASE orderRow'.status = "CANCELLED" /\ Owed'
    BY <1>3, <2>2 DEF OrderSound
  <2>3. CASE UNCHANGED <<orderRow, paymentRow>>
    BY <1>2, <1>3, <2>3 DEF OrderSound, Owed
  <2> QED
    BY <1>3, <2>1, <2>2, <2>3
<1> QED
  BY <1>1, <1>2, <1>3, <1>4, <1>5, <1>6, Committed

\* Registering a refund by hand does.
LEMMA RefundRegistered ==
  ASSUME PaymentsInv, NEW r \in PayRequests, registerManualRefundOf(r)
  PROVE  PaymentsInv' /\ PaymentForward
<1> DEFINE row == [paymentRow EXCEPT !.refund = "COMPLETED", !.status = "REFUNDED"]
<1>1. /\ commits(r) /\ UNCHANGED <<orderRow, settingsRow, captures>>
      /\ completions' = completions + 1 /\ delivering' = delivering \cup {"RefundCompleted"}
      /\ paymentRow # NoRow /\ paymentRow.refund = "PENDING" /\ paymentRow' = nextVersion(row)
  BY DEF registerManualRefundOf, savePayment, nextVersion
<1>2. /\ MoneySound /\ OrderSound /\ paymentRow \in Payments /\ NoRow \notin Payments
      /\ orderRow \in [status : Sold, paid : BOOLEAN]
      /\ captures \in {0, 1} /\ completions \in {0, 1} /\ delivering \subseteq PayEvents
  BY <1>1, PaymentRowsAssumption DEF PaymentsInv, PaymentTypeOK
<1>3. row \in Payments /\ row.status = "REFUNDED" /\ row.refund = "COMPLETED"
  BY <1>2, PaymentClosed
<1>4. GivesBack /\ PaymentMoves
  BY <1>1 DEF GivesBack, PaymentMoves
<1> HIDE DEF row
<1>5. paymentRow' \in Payments /\ paymentRow'.status = "REFUNDED" /\ paymentRow'.refund = "COMPLETED"
  BY <1>1, <1>3, NextVersion DEF nextVersion
<1>6. paymentRow.status = "CAPTURED"
  BY <1>1, <1>2 DEF MoneySound, PaymentSound, Payments, PaymentStatuses
<1>7. Owed /\ Collected /\ ~GivenBack /\ Owed' /\ Collected' /\ GivenBack'
  BY <1>1, <1>2, <1>5, <1>6 DEF Owed, Collected, GivenBack
<1>8. captures' = 1 /\ completions' = 1
  BY <1>1, <1>2, <1>7 DEF MoneySound
<1>9. OrderSound'
  BY <1>1, <1>2, <1>7, <1>8 DEF OrderSound
<1>10. delivering' \subseteq PayEvents
  BY <1>1, <1>2 DEF PayEvents
<1> QED
  BY <1>1, <1>2, <1>4, <1>7, <1>8, <1>9, <1>10, Committed

\* Saving the settings does, over the row that was read.
LEMMA SettingsSaved ==
  ASSUME PaymentsInv, NEW r \in PayRequests, saveSettings(r)
  PROVE  PaymentsInv' /\ PaymentForward /\ asking[r].saw = settingsRow
<1>1. /\ commits(r) /\ UNCHANGED <<orderRow, paymentRow, captures, completions, delivering>>
      /\ settingsRow.version = asking[r].saw.version /\ asking[r].op = "configure"
      /\ settingsRow' = [enabled |-> ~asking[r].saw.enabled, version |-> settingsRow.version + 1]
  BY DEF saveSettings, isReading
<1>2. /\ PaymentTypeOK /\ MoneySound /\ OrderSound /\ AskSound(r) /\ settingsRow \in PaymentSettings
      /\ paymentRow \in Payments \cup {NoRow}
  BY DEF PaymentsInv, PaymentTypeOK
<1>3. asking[r].saw = settingsRow
  BY <1>1, <1>2 DEF AskSound, ReadsSettings
<1>4. settingsRow' \in PaymentSettings
  BY <1>2, <1>1 DEF PaymentSettings
<1>5. settingsRow'.version > settingsRow.version
  BY <1>1, <1>2 DEF PaymentSettings
<1>6. /\ asking' \in [PayRequests -> PayRequest] /\ orderHeld' \in PayRequests \cup {NoRow}
      /\ \A q \in PayRequests : AskSound(q)'
  BY <1>1, <1>2, <1>4, <1>5, OthersStillRead
<1>7. PaymentTypeOK' /\ MoneySound' /\ OrderSound'
  BY <1>1, <1>2, <1>4, <1>6 DEF PaymentTypeOK, MoneySound, OrderSound, Collected, GivenBack, Owed, PaymentSound
<1>8. PaymentForward
  BY <1>1 DEF PaymentForward
<1> QED
  BY <1>3, <1>6, <1>7, <1>8 DEF PaymentsInv

\* The order expires, or hears of its refund.
LEMMA OrderHears ==
  ASSUME PaymentsInv, expireOrder \/ \E noted \in BOOLEAN : recordRefundOf(noted)
  PROVE  PaymentsInv' /\ PaymentForward
<1>1. /\ UNCHANGED <<orderHeld, paymentRow, settingsRow, asking, captures, completions>>
      /\ delivering' \subseteq delivering /\ ("PaymentCaptured" \in delivering => "PaymentCaptured" \in delivering')
  BY DEF expireOrder, recordRefundOf
<1>2. /\ PaymentTypeOK /\ MoneySound /\ OrderSound /\ orderRow \in [status : Sold, paid : BOOLEAN]
      /\ \A q \in PayRequests : AskSound(q)
  BY DEF PaymentsInv, PaymentTypeOK
<1>3. /\ orderRow' \in [status : Sold, paid : BOOLEAN]
      /\ OrderSound'
  <2>1. CASE expireOrder
    BY <2>1, <1>2, <1>1 DEF expireOrder, Sold, OrderSound, Owed, GivenBack
  <2>2. CASE \E noted \in BOOLEAN : recordRefundOf(noted)
    <3>1. GivenBack
      BY <1>2, <2>2 DEF recordRefundOf, MoneySound
    <3>2. CASE orderRow.status = "CANCELLED" /\ orderRow.paid
      BY <2>2, <3>2, <1>2, <1>1, <3>1 DEF recordRefundOf, Sold, OrderSound, Owed, GivenBack
    <3>3. CASE ~(orderRow.status = "CANCELLED" /\ orderRow.paid)
      BY <2>2, <3>3, <1>1, <1>2 DEF recordRefundOf, OrderSound, Owed, GivenBack
    <3> QED
      BY <3>2, <3>3
  <2> QED
    BY <2>1, <2>2
<1>4. PaymentTypeOK' /\ MoneySound'
  BY <1>1, <1>2, <1>3 DEF PaymentTypeOK, MoneySound, Collected, GivenBack, PaymentSound
<1>5. \A q \in PayRequests : AskSound(q)'
  BY <1>1, <1>2 DEF AskSound, ReadsPayment, ReadsSettings, GivenBack
<1>6. PaymentForward
  BY <1>1 DEF PaymentForward
<1> QED
  BY <1>3, <1>4, <1>5, <1>6 DEF PaymentsInv

\* The money of an order is collected once, given back once and owed when it should be; whoever saves, saves over what
\* is there (PrismaPaymentRepository, StartPayment, PaymentRegistration, CancelOrder).
THEOREM PaymentsAlwaysHold == PaymentRowsSpec => PaymentsHold
<1>1. PaymentRowsInit => PaymentsInv
  <2> SUFFICES ASSUME PaymentRowsInit
               PROVE  PaymentsInv
    OBVIOUS
  <2>1. NotAsking \in PayRequest /\ NotAsking.op = "none"
    BY DEF NotAsking, PayRequest
  <2>2. PaymentTypeOK
    BY <2>1 DEF PaymentRowsInit, PaymentTypeOK, PaymentSettings, Sold, PayEvents
  <2>3. MoneySound /\ OrderSound
    BY DEF PaymentRowsInit, MoneySound, OrderSound, Collected, GivenBack, Owed
  <2>4. \A q \in PayRequests : AskSound(q)
    BY <2>1 DEF PaymentRowsInit, AskSound, OrderOps
  <2> QED
    BY <2>2, <2>3, <2>4 DEF PaymentsInv
<1>2. ASSUME PaymentsInv, PaymentRowsNext
      PROVE  /\ PaymentsInv' /\ PaymentForward
             /\ settingsRow' # settingsRow => \E r \in PayRequests : asking[r].saw = settingsRow
  <2>1. CASE expireOrder \/ \E noted \in BOOLEAN : recordRefundOf(noted)
    BY <1>2, <2>1, OrderHears DEF expireOrder, recordRefundOf
  <2>2. ASSUME NEW r \in PayRequests,
               \/ \E op \in OrderOps \cup {"registerManualRefund", "configure"} : askFor(r, op)
               \/ findByOrder(r) \/ refuse(r) \/ findSettings(r)
        PROVE  PaymentsInv' /\ PaymentForward /\ UNCHANGED settingsRow
    BY <1>2, <2>2, RequestsGoOn DEF PayOps
  <2>3. ASSUME NEW r \in PayRequests, saveSettings(r)
        PROVE  PaymentsInv' /\ PaymentForward /\ asking[r].saw = settingsRow
    BY <1>2, <2>3, SettingsSaved
  <2>4. ASSUME NEW r \in PayRequests,
               startPayment(r) \/ capture(r) \/ cancelOrder(r) \/ registerManualRefundOf(r)
        PROVE  PaymentsInv' /\ PaymentForward /\ UNCHANGED settingsRow
    BY <2>4, <1>2, PaymentStarted, PaymentCollected, OrderCancelled, RefundRegistered DEF startPayment, capture, cancelOrder,
       registerManualRefundOf
  <2>5. ASSUME NEW r \in PayRequests, NEW noted \in BOOLEAN, recordPaymentOf(r, noted)
        PROVE  PaymentsInv' /\ PaymentForward /\ UNCHANGED settingsRow
    BY <2>5, <1>2, PaymentRecorded DEF recordPaymentOf
  <2> QED
    BY <1>2, <2>1, <2>2, <2>3, <2>4, <2>5 DEF PaymentRowsNext
<1>3. ASSUME PaymentsInv, UNCHANGED paymentRowsVars
      PROVE  PaymentsInv'
  <2>1. /\ UNCHANGED <<orderRow, orderHeld, paymentRow, settingsRow, asking, captures, completions, delivering>>
    BY <1>3 DEF paymentRowsVars
  <2>2. PaymentTypeOK' /\ MoneySound' /\ OrderSound'
    BY <1>3, <2>1
    DEF PaymentsInv, PaymentTypeOK, MoneySound, OrderSound, Collected, GivenBack, Owed, PaymentSound
  <2>3. \A q \in PayRequests : AskSound(q)'
    BY <1>3, <2>1 DEF PaymentsInv, AskSound, ReadsPayment, ReadsSettings, GivenBack
  <2> QED
    BY <2>2, <2>3 DEF PaymentsInv
<1>4. PaymentsInv => CollectedOnce /\ RefundsAreOwed
  BY PaymentsInvImplies
<1>5. PaymentsInv /\ [PaymentRowsNext]_paymentRowsVars => PaymentsInv'
  BY <1>2, <1>3
<1> DEFINE GoesForward ==
             /\ paymentRow # NoRow /\ paymentRow'.status # paymentRow.status =>
                  <<paymentRow.status, paymentRow'.status>> \in
                    {<<"PENDING", "CAPTURED">>, <<"PENDING", "CANCELLED">>, <<"CAPTURED", "REFUNDED">>}
             /\ settingsRow' # settingsRow => \E r \in PayRequests : asking[r].saw = settingsRow
<1>6. PaymentsInv /\ PaymentRowsNext => GoesForward
  BY <1>2 DEF PaymentForward
<1>7. PaymentsInv /\ [PaymentRowsNext]_paymentRowsVars => [GoesForward]_paymentRowsVars
  BY <1>6
<1> QED
  BY <1>1, <1>4, <1>5, <1>7, PTL DEF PaymentRowsSpec, PaymentsHold, RowsMoveForward

-----------------------------------------------------------------------------
(* The shipment of an order and the shipping method.                       *)

\* A row and the pages of it that the staff saw: one of the same version shows the row as it is.
SeenRow(row, seen) ==
  seen = Nothing \/ (row # Nothing /\ seen.version \in Nat /\ seen.version <= row.version
                     /\ (seen.version = row.version => seen = row))

ParcelTypeOK == parcel \in ShipmentRow \cup {Nothing} /\ parcelSeen \in [Members -> ShipmentRow \cup {Nothing}]
ParcelInv ==
  /\ ParcelTypeOK /\ ParcelAddsUp
  /\ parcel = Nothing => announced = << >>
  /\ \A m \in Members : SeenRow(parcel, parcelSeen[m])

AnyMethod == [flatFee : Fees, least : DeliveryDays, most : DeliveryDays, version : Nat]
MethodInv ==
  /\ method \in AnyMethod /\ validSettings(method)
  /\ methodSeen \in [Members -> AnyMethod \cup {Nothing}] /\ configuring \in [Members -> AnyMethod \cup {Nothing}]
  /\ \A m \in Members : SeenRow(method, methodSeen[m])
  /\ \A m \in Members : configuring[m] # Nothing =>
       /\ validSettings(configuring[m]) /\ methodSeen[m] # Nothing /\ configuring[m].version = methodSeen[m].version

\* A shipment starts as a row of its table.
LEMMA NewShipmentIsARow == newShipment \in ShipmentRow
<1>1. "PENDING" \in ShipmentStatuses /\ {} \in SUBSET ShipmentStatuses
  BY DEF ShipmentStatuses
<1> QED
  BY <1>1 DEF newShipment, ShipmentRow

\* A row saved in its next version: what the others saw of it is old.
LEMMA SavedOver ==
  ASSUME ParcelInv, parcel # Nothing, NEW row \in ShipmentRow, row.version = parcel.version,
         saveShipment(row), UNCHANGED parcelSeen
  PROVE  /\ ParcelTypeOK' /\ parcel' \in ShipmentRow /\ parcel' # Nothing
         /\ parcel'.status = row.status /\ parcel'.tracking = row.tracking /\ parcel'.ownDelivery = row.ownDelivery
         /\ parcel'.dated = row.dated /\ parcel'.address = row.address /\ parcel'.blocked = row.blocked
         /\ \A m \in Members : SeenRow(parcel, parcelSeen[m])'
<1>1. parcel \in ShipmentRow /\ parcelSeen \in [Members -> ShipmentRow \cup {Nothing}] /\ Nothing \notin ShipmentRow
  BY ShipmentsAssumption DEF ParcelInv, ParcelTypeOK
<1>2. row.version \in Nat
  BY DEF ShipmentRow
<1>3. parcel' = [row EXCEPT !.version = row.version + 1]
  BY DEF saveShipment
<1>4. /\ parcel' \in ShipmentRow /\ parcel'.version = row.version + 1
      /\ parcel'.status = row.status /\ parcel'.tracking = row.tracking /\ parcel'.dated = row.dated
  BY <1>2, <1>3 DEF ShipmentRow
<1>5. parcel'.ownDelivery = row.ownDelivery /\ parcel'.address = row.address /\ parcel'.blocked = row.blocked
  BY <1>3 DEF ShipmentRow
<1>6. ASSUME NEW m \in Members
      PROVE  SeenRow(parcel, parcelSeen[m])'
  BY <1>1, <1>2, <1>4 DEF ParcelInv, SeenRow
<1> QED
  BY <1>1, <1>4, <1>5, <1>6 DEF ParcelTypeOK

\* The staff acts on what it saw.
LEMMA SeenIsCurrent ==
  ASSUME ParcelInv, NEW m \in Members, isVersionSeen(m), parcel # Nothing
  PROVE  parcelSeen[m] = parcel
BY DEF ParcelInv, isVersionSeen, SeenRow

ParcelStep ==
  parcel # Nothing =>
    /\ parcel' # Nothing /\ (parcel.address \/ ~parcel'.address) /\ (parcel.blocked => parcel'.blocked)
    /\ parcel'.tracking # parcel.tracking \/ parcel'.status \notin {parcel.status, "CANCELLED"} =>
         \E m \in Members : parcelSeen[m] = parcel

\* A saved shipment has told of each of its moves, and has the dates of each.
LEMMA SavedRowAddsUp ==
  ASSUME ParcelInv, parcel # Nothing, NEW row \in ShipmentRow, row.version = parcel.version,
         saveShipment(row), UNCHANGED parcelSeen,
         announced' = Told[row.status], row.dated = PathTo[row.status],
         "DISPATCHED" \in row.dated => row.ownDelivery = (row.tracking = NoTracking)
  PROVE  ParcelInv'
<1>1. /\ ParcelTypeOK' /\ parcel' \in ShipmentRow /\ parcel' # Nothing
      /\ parcel'.status = row.status /\ parcel'.tracking = row.tracking /\ parcel'.ownDelivery = row.ownDelivery
      /\ parcel'.dated = row.dated
      /\ \A m \in Members : SeenRow(parcel, parcelSeen[m])'
  BY SavedOver
<1>2. "DISPATCHED" \in parcel'.dated => maySetOff(parcel.ownDelivery)'
  BY <1>1 DEF maySetOff
<1>3. ParcelAddsUp'
  BY <1>1, <1>2 DEF ParcelAddsUp
<1> QED
  BY <1>1, <1>3 DEF ParcelInv

\* What the shipment is before a step.
LEMMA ParcelNow ==
  ASSUME ParcelInv, parcel # Nothing
  PROVE  /\ parcel \in ShipmentRow /\ parcel.status \in ShipmentStatuses /\ parcel.dated = PathTo[parcel.status]
         /\ "DISPATCHED" \in parcel.dated => parcel.ownDelivery = (parcel.tracking = NoTracking)
         /\ announced = Told[parcel.status]
<1>1. parcel \in ShipmentRow
  BY DEF ParcelInv, ParcelAddsUp
<1> QED
  BY <1>1 DEF ParcelInv, ParcelAddsUp, maySetOff, ShipmentRow

\* The steps of a shipment leave the dates and the announcements of the status they lead to.
LEMMA PathsGoOn ==
  /\ PathTo["CANCELLED"] = PathTo["PENDING"] \cup {"CANCELLED"} /\ Told["CANCELLED"] = Told["PENDING"]
  /\ PathTo["DISPATCHED"] = PathTo["PENDING"] \cup {"DISPATCHED"} /\ PathTo["PENDING"] = {}
  /\ PathTo["DELIVERED"] = PathTo["DISPATCHED"] \cup {"DELIVERED"}
  /\ PathTo["DELIVERY_FAILED"] = PathTo["DISPATCHED"] \cup {"DELIVERY_FAILED"}
  /\ Told["DELIVERY_FAILED"] = Told["DISPATCHED"] /\ Told["PENDING"] = << >>
  /\ PathTo["RETURNED"] = PathTo["DELIVERY_FAILED"] \cup {"RETURNED"}
  /\ "DISPATCHED" \in PathTo["DISPATCHED"] /\ "DISPATCHED" \in PathTo["DELIVERY_FAILED"]
  /\ "DISPATCHED" \notin PathTo["CANCELLED"]
BY DEF PathTo, Told, ShipmentStatuses

\* What is told of a shipment goes on from what was told.
LEMMA AnnouncementsGoOn ==
  /\ Append(Told["PENDING"], "DISPATCHED") = Told["DISPATCHED"]
  /\ Append(Told["DISPATCHED"], "DELIVERED") = Told["DELIVERED"]
  /\ Append(Told["DELIVERY_FAILED"], "RETURNED") = Told["RETURNED"]
<1>1. /\ Told["PENDING"] = << >> /\ Told["DISPATCHED"] = <<"DISPATCHED">> /\ Told["DELIVERY_FAILED"] = <<"DISPATCHED">>
      /\ Told["DELIVERED"] = <<"DISPATCHED", "DELIVERED">> /\ Told["RETURNED"] = <<"DISPATCHED", "RETURNED">>
  BY DEF Told, ShipmentStatuses
<1>2. Append(<< >>, "DISPATCHED") = <<"DISPATCHED">>
  OBVIOUS
<1>3. ASSUME NEW e \in ShipmentStatuses
      PROVE  Append(<<"DISPATCHED">>, e) = <<"DISPATCHED", e>>
  <2>1. <<"DISPATCHED">> \in Seq(ShipmentStatuses)
    BY DEF ShipmentStatuses
  <2>2. Len(<<"DISPATCHED">>) = 1 /\ <<"DISPATCHED">>[1] = "DISPATCHED"
    OBVIOUS
  <2>3. ASSUME NEW s \in Seq(ShipmentStatuses), Len(s) = 1, s[1] = "DISPATCHED"
        PROVE  Append(s, e) = <<"DISPATCHED", e>>
    BY <1>3, <2>3, OneAppended
  <2> QED
    BY <2>1, <2>2, <2>3
<1>4. "DELIVERED" \in ShipmentStatuses /\ "RETURNED" \in ShipmentStatuses
  BY DEF ShipmentStatuses
<1> QED
  BY <1>1, <1>2, <1>3, <1>4

\* The order asks for the shipment or cancels it, forgets its address or blocks it.
LEMMA OrderMovesParcel ==
  ASSUME ParcelInv, createShipment \/ cancelShipmentOf \/ anonymizeShipmentsOf \/ blockShipmentsOf
  PROVE  ParcelInv' /\ ParcelStep
<1>1. CASE createShipment /\ parcel = Nothing
  <2>1. parcel' = newShipment /\ parcel' # Nothing /\ UNCHANGED <<parcelSeen, announced>>
    BY <1>1, NewShipmentIsARow, ShipmentsAssumption DEF createShipment, insert
  <2>2. announced' = << >> /\ \A m \in Members : parcelSeen'[m] = Nothing
    BY <1>1, <2>1 DEF ParcelInv, SeenRow
  <2>3. newShipment.status = "PENDING" /\ newShipment.dated = {}
    BY DEF newShipment
  <2>4. ParcelAddsUp'
    BY <2>1, <2>2, <2>3, NewShipmentIsARow, PathsGoOn DEF ParcelAddsUp
  <2> QED
    BY <1>1, <2>1, <2>2, <2>4, NewShipmentIsARow DEF ParcelInv, ParcelTypeOK, SeenRow, ParcelStep
<1>2. CASE createShipment /\ parcel # Nothing
  <2>1. UNCHANGED <<parcel, parcelSeen, announced>>
    BY <1>2 DEF createShipment, insert
  <2> QED
    BY <2>1 DEF ParcelInv, ParcelTypeOK, ParcelAddsUp, maySetOff, SeenRow, ParcelStep
<1>3. CASE cancelShipmentOf
  <2> DEFINE row == [parcel EXCEPT !.status = "CANCELLED", !.dated = @ \cup {"CANCELLED"}]
  <2>1. /\ parcel # Nothing /\ parcel.status = "PENDING" /\ saveShipment(row) /\ UNCHANGED <<parcelSeen, announced>>
    BY <1>3 DEF cancelShipmentOf
  <2>2. parcel \in ShipmentRow /\ parcel.dated = PathTo["PENDING"] /\ announced = Told["PENDING"]
    BY <2>1, ParcelNow
  <2>3. /\ row \in ShipmentRow /\ row.version = parcel.version /\ row.status = "CANCELLED"
        /\ row.dated = parcel.dated \cup {"CANCELLED"}
    BY <2>2 DEF ShipmentRow, ShipmentStatuses
  <2>4. row.tracking = parcel.tracking /\ row.address = parcel.address /\ row.blocked = parcel.blocked
    BY <2>2 DEF ShipmentRow
  <2> HIDE DEF row
  <2>5. row.dated = PathTo[row.status] /\ "DISPATCHED" \notin row.dated /\ announced' = Told[row.status]
    BY <2>1, <2>2, <2>3, PathsGoOn
  <2>6. ParcelInv'
    BY <2>1, <2>3, <2>5, SavedRowAddsUp
  <2> QED
    BY <2>1, <2>3, <2>4, <2>6, SavedOver DEF ParcelStep
<1>4. CASE anonymizeShipmentsOf \/ blockShipmentsOf
  <2>1. PICK row \in ShipmentRow :
          /\ saveShipment(row) /\ row.version = parcel.version /\ row.status = parcel.status /\ row.dated = parcel.dated
          /\ row.ownDelivery = parcel.ownDelivery /\ row.tracking = parcel.tracking
          /\ (parcel.address \/ ~row.address) /\ (parcel.blocked => row.blocked)
    <3>1. parcel \in ShipmentRow
      BY <1>4, ParcelNow DEF anonymizeShipmentsOf, blockShipmentsOf, Concluded
    <3>2. CASE anonymizeShipmentsOf
      <4> DEFINE row == [parcel EXCEPT !.address = FALSE]
      <4>1. /\ row \in ShipmentRow /\ row.version = parcel.version /\ row.status = parcel.status /\ row.dated = parcel.dated
            /\ row.ownDelivery = parcel.ownDelivery /\ row.tracking = parcel.tracking
            /\ ~row.address /\ row.blocked = parcel.blocked
        BY <3>1 DEF ShipmentRow
      <4>2. saveShipment(row)
        BY <3>2 DEF anonymizeShipmentsOf
      <4> HIDE DEF row
      <4> QED
        BY <4>1, <4>2
    <3>3. CASE blockShipmentsOf
      <4> DEFINE row == [parcel EXCEPT !.blocked = TRUE]
      <4>1. /\ row \in ShipmentRow /\ row.version = parcel.version /\ row.status = parcel.status /\ row.dated = parcel.dated
            /\ row.ownDelivery = parcel.ownDelivery /\ row.tracking = parcel.tracking
            /\ row.address = parcel.address /\ row.blocked
        BY <3>1 DEF ShipmentRow
      <4>2. saveShipment(row)
        BY <3>3 DEF blockShipmentsOf
      <4> HIDE DEF row
      <4> QED
        BY <4>1, <4>2
    <3> QED
      BY <1>4, <3>2, <3>3
  <2>2. parcel # Nothing /\ UNCHANGED <<parcelSeen, announced>>
    BY <1>4 DEF anonymizeShipmentsOf, blockShipmentsOf, Concluded
  <2>3. /\ announced' = Told[row.status] /\ row.dated = PathTo[row.status]
        /\ "DISPATCHED" \in row.dated => row.ownDelivery = (row.tracking = NoTracking)
    BY <2>1, <2>2, ParcelNow
  <2>4. ParcelInv'
    BY <2>1, <2>2, <2>3, SavedRowAddsUp
  <2> QED
    BY <2>1, <2>2, <2>4, SavedOver DEF ParcelStep
<1> QED
  BY <1>1, <1>2, <1>3, <1>4

\* A member of the staff moves the shipment from the status it saw.
LEMMA ShipmentChanged ==
  ASSUME ParcelInv, NEW m \in Members, NEW from \in ShipmentStatuses, NEW to \in ShipmentStatuses \ {"CANCELLED"},
         NEW own \in BOOLEAN, changeShipment(m, from, to, own),
         announced' = Told[to], PathTo[to] = PathTo[from] \cup {to}, own = (parcel.tracking = NoTracking)
  PROVE  ParcelInv' /\ ParcelStep
<1> DEFINE row == [parcel EXCEPT !.status = to, !.dated = @ \cup {to}, !.ownDelivery = own]
<1>1. isVersionSeen(m) /\ parcel.status = from /\ saveShipment(row) /\ UNCHANGED parcelSeen
  BY DEF changeShipment
<1>2. parcel # Nothing
  BY <1>1 DEF isVersionSeen, ParcelInv, SeenRow
<1>3. parcelSeen[m] = parcel
  BY <1>1, <1>2, SeenIsCurrent
<1>4. parcel \in ShipmentRow /\ parcel.dated = PathTo[from]
  BY <1>1, <1>2, ParcelNow
<1>5. /\ row \in ShipmentRow /\ row.version = parcel.version /\ row.status = to /\ row.dated = parcel.dated \cup {to}
      /\ row.tracking = parcel.tracking
  BY <1>4 DEF ShipmentRow
<1>6. row.ownDelivery = own /\ row.address = parcel.address /\ row.blocked = parcel.blocked
  BY <1>4 DEF ShipmentRow
<1> HIDE DEF row
<1>7. /\ row.dated = PathTo[row.status] /\ announced' = Told[row.status]
      /\ "DISPATCHED" \in row.dated => row.ownDelivery = (row.tracking = NoTracking)
  BY <1>4, <1>5, <1>6
<1>8. ParcelInv'
  BY <1>1, <1>2, <1>5, <1>7, SavedRowAddsUp
<1>9. parcel' # Nothing /\ parcel'.address = row.address /\ parcel'.blocked = row.blocked
  BY <1>1, <1>2, <1>5, SavedOver
<1>10. ParcelStep
  BY <1>3, <1>6, <1>9 DEF ParcelStep
<1> QED
  BY <1>8, <1>10

\* Each move of a shipment keeps the invariant, and is one its status allows.
LEMMA StaffMovesParcel ==
  ASSUME ParcelInv, NEW m \in Members,
         \/ \E own \in BOOLEAN : dispatchShipment(m, own)
         \/ deliverShipment(m) \/ failShipment(m) \/ returnShipment(m)
  PROVE  ParcelInv' /\ ParcelStep
<1>1. parcel # Nothing /\ parcel \in ShipmentRow /\ parcel.ownDelivery \in BOOLEAN
  <2>1. parcel # Nothing
    BY DEF dispatchShipment, deliverShipment, failShipment, returnShipment, changeShipment, isVersionSeen, ParcelInv, SeenRow
  <2> QED
    BY <2>1, ParcelNow DEF ShipmentRow
<1>2. /\ announced = Told[parcel.status] /\ parcel.dated = PathTo[parcel.status]
      /\ "DISPATCHED" \in parcel.dated => parcel.ownDelivery = (parcel.tracking = NoTracking)
  BY <1>1, ParcelNow
<1>3. \A s \in {"PENDING", "DISPATCHED", "DELIVERED", "DELIVERY_FAILED", "RETURNED"} :
        s \in ShipmentStatuses /\ (s # "CANCELLED" => s \in ShipmentStatuses \ {"CANCELLED"})
  BY DEF ShipmentStatuses
<1>4. ASSUME NEW own \in BOOLEAN, dispatchShipment(m, own)
      PROVE  ParcelInv' /\ ParcelStep
  <2>1. /\ changeShipment(m, "PENDING", "DISPATCHED", own) /\ own = (parcel.tracking = NoTracking)
        /\ announced' = Append(announced, "DISPATCHED") /\ parcel.status = "PENDING"
    BY <1>4 DEF dispatchShipment, maySetOff, announce, changeShipment
  <2>2. announced' = Told["DISPATCHED"]
    BY <1>2, <2>1, AnnouncementsGoOn
  <2> QED
    BY <1>3, <1>4, <2>1, <2>2, PathsGoOn, ShipmentChanged
<1>8. PICK own \in BOOLEAN : own = parcel.ownDelivery
  BY <1>1
<1>5. CASE deliverShipment(m)
  <2>1. /\ changeShipment(m, "DISPATCHED", "DELIVERED", own)
        /\ announced' = Append(announced, "DELIVERED") /\ parcel.status = "DISPATCHED"
    BY <1>5, <1>8 DEF deliverShipment, announce, changeShipment
  <2>2. announced' = Told["DELIVERED"] /\ own = (parcel.tracking = NoTracking)
    BY <1>2, <1>8, <2>1, AnnouncementsGoOn, PathsGoOn
  <2> QED
    BY <1>1, <1>3, <2>1, <2>2, PathsGoOn, ShipmentChanged
<1>6. CASE failShipment(m)
  <2>1. /\ changeShipment(m, "DISPATCHED", "DELIVERY_FAILED", own)
        /\ announced' = announced /\ parcel.status = "DISPATCHED"
    BY <1>6, <1>8 DEF failShipment, changeShipment
  <2>2. announced' = Told["DELIVERY_FAILED"] /\ own = (parcel.tracking = NoTracking)
    BY <1>2, <1>8, <2>1, PathsGoOn
  <2> QED
    BY <1>1, <1>3, <2>1, <2>2, PathsGoOn, ShipmentChanged
<1>7. CASE returnShipment(m)
  <2>1. /\ changeShipment(m, "DELIVERY_FAILED", "RETURNED", own)
        /\ announced' = Append(announced, "RETURNED") /\ parcel.status = "DELIVERY_FAILED"
    BY <1>7, <1>8 DEF returnShipment, announce, changeShipment
  <2>2. announced' = Told["RETURNED"] /\ own = (parcel.tracking = NoTracking)
    BY <1>2, <1>8, <2>1, AnnouncementsGoOn, PathsGoOn
  <2> QED
    BY <1>1, <1>3, <2>1, <2>2, PathsGoOn, ShipmentChanged
<1> QED
  BY <1>4, <1>5, <1>6, <1>7

\* A tracking number is recorded, corrected or removed by who saw the shipment.
LEMMA TrackingChanged ==
  ASSUME ParcelInv, NEW m \in Members, removeTracking(m) \/ \E tracking \in Trackings : recordTracking(m, tracking)
  PROVE  ParcelInv' /\ ParcelStep
<1>1. PICK tracking \in Trackings \cup {NoTracking} :
        /\ isVersionSeen(m) /\ saveShipment([parcel EXCEPT !.tracking = tracking]) /\ UNCHANGED <<parcelSeen, announced>>
        /\ parcel.status = "PENDING" \/ (parcel.status = "DISPATCHED" /\ ~parcel.ownDelivery /\ tracking # NoTracking)
  BY ShipmentsAssumption DEF removeTracking, recordTracking
<1> DEFINE row == [parcel EXCEPT !.tracking = tracking]
<1>2. parcel # Nothing
  BY <1>1 DEF isVersionSeen, ParcelInv, SeenRow
<1>3. parcelSeen[m] = parcel
  BY <1>1, <1>2, SeenIsCurrent
<1>4. /\ parcel \in ShipmentRow /\ parcel.dated = PathTo[parcel.status] /\ announced = Told[parcel.status]
      /\ "DISPATCHED" \in parcel.dated => parcel.ownDelivery = (parcel.tracking = NoTracking)
  BY <1>2, ParcelNow
<1>5. /\ row \in ShipmentRow /\ row.version = parcel.version /\ row.status = parcel.status /\ row.dated = parcel.dated
      /\ row.tracking = tracking
  BY <1>4 DEF ShipmentRow
<1>6. row.ownDelivery = parcel.ownDelivery /\ row.address = parcel.address /\ row.blocked = parcel.blocked
  BY <1>4 DEF ShipmentRow
<1>7. saveShipment(row)
  BY <1>1
<1> HIDE DEF row
<1>8. "DISPATCHED" \in row.dated => row.ownDelivery = (row.tracking = NoTracking)
  BY <1>4, <1>5, PathsGoOn, <1>1, <1>6 DEF ShipmentRow
<1>9. row.dated = PathTo[row.status] /\ announced' = Told[row.status]
  BY <1>1, <1>4, <1>5
<1>10. ParcelInv'
  BY <1>1, <1>2, <1>5, <1>7, <1>8, <1>9, SavedRowAddsUp
<1>11. parcel' # Nothing /\ parcel'.address = row.address /\ parcel'.blocked = row.blocked
  BY <1>1, <1>2, <1>5, <1>7, SavedOver
<1>12. ParcelStep
  BY <1>3, <1>6, <1>11 DEF ParcelStep
<1> QED
  BY <1>10, <1>12

\* Looking at a shipment changes nothing of it.
LEMMA ParcelSeenAgain ==
  ASSUME ParcelInv, NEW m \in Members, seeShipment(m)
  PROVE  ParcelInv' /\ ParcelStep
<1>1. parcel # Nothing /\ parcelSeen' = [parcelSeen EXCEPT ![m] = parcel] /\ UNCHANGED <<parcel, announced>>
  BY DEF seeShipment
<1>2. parcel \in ShipmentRow /\ parcel.version \in Nat /\ parcelSeen \in [Members -> ShipmentRow \cup {Nothing}]
  BY <1>1, ParcelNow DEF ShipmentRow, ParcelInv, ParcelTypeOK
<1>3. ParcelTypeOK'
  BY <1>1, <1>2 DEF ParcelTypeOK
<1>4. ASSUME NEW q \in Members
      PROVE  SeenRow(parcel, parcelSeen[q])'
  BY <1>1, <1>2 DEF SeenRow, ParcelInv
<1>5. ParcelAddsUp' /\ ParcelStep /\ (parcel' = Nothing => announced' = << >>)
  BY <1>1 DEF ParcelInv, ParcelAddsUp, maySetOff, ParcelStep
<1> QED
  BY <1>3, <1>4, <1>5 DEF ParcelInv

\* Each step on a shipment keeps the invariant.
LEMMA ParcelSteps ==
  ASSUME ParcelInv, ParcelNext
  PROVE  ParcelInv' /\ ParcelStep
<1>1. CASE createShipment \/ cancelShipmentOf \/ anonymizeShipmentsOf \/ blockShipmentsOf
  BY <1>1, OrderMovesParcel
<1>2. ASSUME NEW m \in Members,
             \/ seeShipment(m) \/ removeTracking(m)
             \/ \E tracking \in Trackings : recordTracking(m, tracking)
             \/ \E own \in BOOLEAN : dispatchShipment(m, own)
             \/ deliverShipment(m) \/ failShipment(m) \/ returnShipment(m)
      PROVE  ParcelInv' /\ ParcelStep
  BY <1>2, ParcelSeenAgain, TrackingChanged, StaffMovesParcel
<1> QED
  BY <1>1, <1>2 DEF ParcelNext

\* An edit of the shipping method replaces the method that its author saw.
MethodStep == method' # method => \E m \in Members : methodSeen[m] = method /\ validSettings(method')

\* Each step on a shipping method keeps its invariant.
LEMMA MethodSteps ==
  ASSUME MethodInv, MethodNext
  PROVE  MethodInv' /\ MethodStep
<1>1. /\ method \in AnyMethod /\ validSettings(method) /\ method.version \in Nat /\ Nothing \notin AnyMethod
      /\ methodSeen \in [Members -> AnyMethod \cup {Nothing}] /\ configuring \in [Members -> AnyMethod \cup {Nothing}]
      /\ \A m \in Members : SeenRow(method, methodSeen[m])
  BY ShipmentsAssumption DEF MethodInv, AnyMethod
<1>2. ASSUME NEW m \in Members, seeMethod(m)
      PROVE  MethodInv' /\ MethodStep
  <2>1. /\ configuring[m] = Nothing /\ methodSeen' = [methodSeen EXCEPT ![m] = method]
        /\ method' = method /\ configuring' = configuring
    BY <1>2 DEF seeMethod
  <2>2. methodSeen' \in [Members -> AnyMethod \cup {Nothing}]
    BY <1>1, <2>1
  <2>3. ASSUME NEW q \in Members
        PROVE  /\ SeenRow(method, methodSeen[q])'
               /\ configuring'[q] # Nothing =>
                    /\ validSettings(configuring'[q]) /\ methodSeen'[q] # Nothing
                    /\ configuring'[q].version = methodSeen'[q].version
    BY <1>1, <2>1 DEF SeenRow, MethodInv
  <2> QED
    BY <1>1, <2>1, <2>2, <2>3 DEF MethodInv, MethodStep, validSettings
<1>3. ASSUME NEW m \in Members, NEW settings \in MethodRow(method.version), configure(m, settings)
      PROVE  MethodInv' /\ MethodStep
  <2>1. /\ methodSeen[m] # Nothing /\ methodSeen[m].version = method.version /\ validSettings(settings)
        /\ configuring' = [configuring EXCEPT ![m] = settings] /\ method' = method /\ methodSeen' = methodSeen
    BY <1>3 DEF configure
  <2>2. settings \in AnyMethod /\ settings.version = method.version
    BY <1>1, <1>3 DEF MethodRow, AnyMethod
  <2>3. configuring' \in [Members -> AnyMethod \cup {Nothing}]
    BY <1>1, <2>1, <2>2
  <2>4. ASSUME NEW q \in Members, configuring'[q] # Nothing
        PROVE  /\ validSettings(configuring'[q]) /\ methodSeen'[q] # Nothing
               /\ configuring'[q].version = methodSeen'[q].version
    BY <1>1, <2>1, <2>2, <2>4 DEF MethodInv
  <2>5. \A q \in Members : SeenRow(method, methodSeen[q])'
    BY <1>1, <2>1 DEF SeenRow
  <2> QED
    BY <1>1, <2>1, <2>3, <2>4, <2>5 DEF MethodInv, MethodStep, validSettings
<1>4. ASSUME NEW m \in Members, saveMethod(m)
      PROVE  MethodInv' /\ MethodStep
  <2>1. /\ configuring[m] # Nothing /\ configuring' = [configuring EXCEPT ![m] = Nothing] /\ methodSeen' = methodSeen
        /\ method' = IF configuring[m].version = method.version THEN [configuring[m] EXCEPT !.version = @ + 1] ELSE method
    BY <1>4 DEF saveMethod
  <2>2. configuring' \in [Members -> AnyMethod \cup {Nothing}]
    BY <1>1, <2>1
  <2>3. \A q \in Members : configuring'[q] # Nothing => configuring'[q] = configuring[q]
    BY <1>1, <2>1
  <2>4. CASE method' = method
    BY <1>1, <2>1, <2>4, <2>2, <2>3 DEF SeenRow, MethodInv, MethodStep, validSettings
  <2>5. CASE method' # method
    <3> DEFINE edit == configuring[m]
    <3>1. /\ edit \in AnyMethod /\ edit.version = method.version /\ method' = [edit EXCEPT !.version = @ + 1]
          /\ validSettings(edit) /\ methodSeen[m] # Nothing /\ methodSeen[m].version = method.version
      BY <1>1, <2>1, <2>5 DEF MethodInv
    <3>2. methodSeen[m] = method
      BY <1>1, <3>1 DEF SeenRow
    <3>3. method' \in AnyMethod /\ method'.version = method.version + 1 /\ method'.least = edit.least /\ method'.most = edit.most
      <4> HIDE DEF edit
      <4> QED
        BY <3>1 DEF AnyMethod
    <3>4. validSettings(method)' /\ validSettings(method')
      BY <3>1, <3>3 DEF validSettings
    <3>5. \A q \in Members : SeenRow(method, methodSeen[q])'
      BY <1>1, <2>1, <3>3 DEF SeenRow
    <3> QED
      BY <1>1, <2>1, <2>2, <2>3, <3>2, <3>3, <3>4, <3>5 DEF MethodInv, MethodStep
  <2> QED
    BY <2>4, <2>5
<1> QED
  BY <1>2, <1>3, <1>4 DEF MethodNext

\* Staff and order move a shipment only as it is, its dates and announcements tell its way, and an edit of the method
\* replaces what its author saw (Shipment, PrismaShipmentRepository, ShippingMethodSettings).
THEOREM ShipmentsAlwaysHold == ShipmentsSpec => ShipmentsHold
<1> DEFINE Inv == ParcelInv /\ MethodInv
<1>1. ShipmentsInit => Inv
  <2> SUFFICES ASSUME ShipmentsInit
               PROVE  Inv
    OBVIOUS
  <2>1. ParcelInv
    BY DEF ShipmentsInit, ParcelInv, ParcelTypeOK, ParcelAddsUp, SeenRow
  <2>2. method \in AnyMethod /\ validSettings(method)
    BY DEF ShipmentsInit, MethodRow, AnyMethod, validSettings
  <2>3. MethodInv
    BY <2>2 DEF ShipmentsInit, MethodInv, SeenRow
  <2> QED
    BY <2>1, <2>3
<1>2. ParcelInv /\ UNCHANGED parcelVars => ParcelInv' /\ ParcelStep
  BY DEF parcelVars, ParcelInv, ParcelTypeOK, ParcelAddsUp, maySetOff, SeenRow, ParcelStep
<1>3. MethodInv /\ UNCHANGED shippingMethodVars => MethodInv' /\ MethodStep
  BY DEF shippingMethodVars, MethodInv, SeenRow, validSettings, MethodStep
<1>4. ParcelNext => UNCHANGED shippingMethodVars
  BY DEF ParcelNext, createShipment, cancelShipmentOf, anonymizeShipmentsOf, blockShipmentsOf, seeShipment, recordTracking,
         removeTracking, dispatchShipment, deliverShipment, failShipment, returnShipment, changeShipment, shippingMethodVars
<1>5. MethodNext => UNCHANGED parcelVars
  BY DEF MethodNext, seeMethod, configure, saveMethod, parcelVars
<1>6. Inv /\ [ShipmentsNext]_shipmentVars => Inv' /\ ParcelStep /\ MethodStep
  BY <1>3, <1>4, ParcelSteps, <1>2, <1>5, MethodSteps DEF shipmentVars, ShipmentsNext
<1>7. Inv => ParcelAddsUp
  BY DEF ParcelInv
<1> DEFINE P ==
             parcel # Nothing =>
               /\ parcel' # Nothing /\ (parcel.address \/ ~parcel'.address) /\ (parcel.blocked => parcel'.blocked)
               /\ parcel'.tracking # parcel.tracking \/ parcel'.status \notin {parcel.status, "CANCELLED"} =>
                    \E m \in Members : parcelSeen[m] = parcel
           M == method' # method => \E m \in Members : methodSeen[m] = method /\ validSettings(method')
<1>8. Inv /\ [ShipmentsNext]_shipmentVars => [P]_shipmentVars /\ [M]_shipmentVars
  BY <1>6 DEF ParcelStep, MethodStep
<1> QED
  BY <1>1, <1>6, <1>7, <1>8, PTL DEF ShipmentsSpec, ShipmentsHold, ParcelsMoveAsSeen, MethodEditsAreKept

\* What follows a sale: its payment and its shipment, which share no row.
THEOREM SalesAlwaysHold == PaymentRowsSpec /\ ShipmentsSpec => SalesHold
BY PaymentsAlwaysHold, ShipmentsAlwaysHold DEF SalesHold

-----------------------------------------------------------------------------
(* Accounts: the inductive invariant.                                      *)

\* A token has a later id than its session, and a session has one customer.
TokensSound ==
  /\ refreshTokens \in [TokenIds -> TokenRow \cup {None}] /\ lastToken \in 0..MaxTokens
  /\ ended \subseteq 1..lastToken /\ raced \subseteq TokenIds
  /\ \A t \in TokenIds : refreshTokens[t] # None => t <= lastToken /\ SessionOf(t) <= lastToken
  /\ \A t, x \in TokenIds : refreshTokens[t] # None /\ refreshTokens[x] # None /\ SessionOf(t) = SessionOf(x) =>
       refreshTokens[t].user = refreshTokens[x].user
  /\ SessionsEnd

\* A link of recovery that works went to the address the account has, unless it crossed a change of it.
LinksSound ==
  /\ resetLinks \in [LinkIds -> LinkRow \cup {None}] /\ verifyLinks \in [LinkIds -> LinkRow \cup {None}]
  /\ \A l \in LinkIds : isUsableLink(resetLinks[l]) /\ ~resetLinks[l].crossed =>
       resetLinks[l].sentTo = account[resetLinks[l].user].email

\* The accounts in use have an address, which those of nobody and the anonymized ones lack.
PeopleSound ==
  /\ account \in [Users -> Account]
  /\ \A u \in Users : /\ account[u].status \in {"ACTIVE", "SUSPENDED"} <=> account[u].email # None
                      /\ account[u].email = None => ~account[u].verified
  /\ late \subseteq Users /\ proven \subseteq Users \X Emails /\ crossed \subseteq Users
  /\ VerifiedIsProven

BooksSound ==
  /\ book \in [Users -> [saved : SUBSET AddressIds, default : AddressIds \cup {None}]]
  /\ \A u \in Users : book[u].default \in book[u].saved \cup {None} /\ Cardinality(book[u].saved) <= AddressLimit

\* What a request x locked, and what the statement that ends sessions will miss: a renewal tells that it raced.
JobTokens(x) ==
  /\ x.kind = "refresh" => /\ x.item \in TokenIds /\ refreshTokens[x.item] # None /\ refreshTokens[x.item].user = x.user
                           /\ ~refreshTokens[x.item].revoked /\ refreshTokens[x.item].next = None
  /\ x.kind = "reuse" => x.item \in TokenIds /\ refreshTokens[x.item] # None
  /\ x.kind = "signOut" => x.item \in 1..lastToken
  /\ x.kind \in {"reuse", "signOut"} =>
       \A t \in TokenIds : Live(t) /\ SessionOf(t) = (IF x.kind = "reuse" THEN SessionOf(x.item) ELSE x.item) =>
         t \in x.targets \/ SessionOf(t) \in raced
  /\ x.saving /\ x.kind \in {"resetPassword", "suspend", "anonymize", "changePassword"} =>
       \A t \in TokenIds : Live(t) /\ refreshTokens[t].user = x.user /\ (x.kind = "changePassword" => SessionOf(t) # x.item) =>
         t \in x.targets \/ SessionOf(t) \in raced
  /\ x.saving /\ x.kind = "anonymize" =>
       \A t \in TokenIds : refreshTokens[t] # None /\ refreshTokens[t].user = x.user => t \in x.targets \/ x.user \in late

\* The link a request uses stays pending, and went to the address it is about.
JobLinks(x) ==
  /\ x.kind = "resetPassword" =>
       x.item \in LinkIds /\ isUsableLink(resetLinks[x.item]) /\ resetLinks[x.item].user = x.user
  /\ x.kind = "confirmEmail" =>
       /\ x.item \in LinkIds /\ isUsableLink(verifyLinks[x.item]) /\ verifyLinks[x.item].user = x.user
       /\ verifyLinks[x.item].sentTo = account[x.user].email

\* The status a use case read: true while its copy is fresh, which it is when it is saved.
ReadStatus(kind) == IF kind = "reactivate" THEN {"SUSPENDED"} ELSE IF kind = "anonymize" THEN {"ACTIVE", "SUSPENDED"} ELSE {"ACTIVE"}
JobAccount(x) ==
  /\ x.saving => x.kind \in Saves /\ x.fresh
  /\ x.kind \in Saves /\ x.fresh => account[x.user].status \in ReadStatus(x.kind)
JobShape(x) ==
  /\ x \in Job
  /\ x.kind # "idle" => x.user \in Users
  /\ x.kind \in {"changeEmail", "requestReset", "resendVerification"} => x.email \in Emails

\* Two requests never hold the same row.
NotBoth(x, y) ==
  /\ x.kind \in {"refresh", "reuse"} /\ y.kind \in {"refresh", "reuse"} => x.item # y.item
  /\ x.kind = "resetPassword" /\ y.kind = "resetPassword" => x.item # y.item
  /\ x.kind = "confirmEmail" /\ y.kind = "confirmEmail" => x.item # y.item
  /\ x.saving /\ y.saving => x.user # y.user

JobsSound ==
  /\ job \in [Requests -> Job]
  /\ \A q \in Requests : JobShape(job[q]) /\ JobTokens(job[q]) /\ JobLinks(job[q]) /\ JobAccount(job[q])
  /\ \A q, r \in Requests : q # r => NotBoth(job[q], job[r])

AccountsInv ==
  /\ TokensSound /\ LinksSound /\ PeopleSound /\ BooksSound /\ JobsSound
  /\ AnonymizedLeavesNothing /\ offered \in Scenarios

-----------------------------------------------------------------------------
(* Accounts: what happens to tokens.                                       *)

\* No token comes, none is live again, and those that stay are of the same session.
Shrunk ==
  /\ refreshTokens' \in [TokenIds -> TokenRow \cup {None}] /\ lastToken' = lastToken
  /\ \A t \in TokenIds : refreshTokens'[t] # None =>
       /\ refreshTokens[t] # None
       /\ refreshTokens'[t].user = refreshTokens[t].user /\ refreshTokens'[t].session = refreshTokens[t].session
       /\ refreshTokens'[t].next = refreshTokens[t].next
       /\ refreshTokens[t].revoked => refreshTokens'[t].revoked

\* A live token is a row that was not revoked.
LEMMA LiveTokens ==
  ASSUME refreshTokens \in [TokenIds -> TokenRow \cup {None}]
  PROVE  \A t \in TokenIds : Live(t) <=> refreshTokens[t] # None /\ ~refreshTokens[t].revoked
BY DEF Live, Stored

\* So it is after a step.
LEMMA LiveTokensNext ==
  ASSUME refreshTokens' \in [TokenIds -> TokenRow \cup {None}]
  PROVE  \A t \in TokenIds : Live(t)' <=> refreshTokens'[t] # None /\ ~refreshTokens'[t].revoked
BY DEF Live, Stored

\* Tokens that are only revoked or deleted stay sound.
LEMMA TokensShrink ==
  ASSUME TokensSound, Shrunk, raced' = raced, ended \subseteq ended', ended' \subseteq 1..lastToken,
         \A t \in TokenIds : refreshTokens'[t] # None /\ ~refreshTokens'[t].revoked /\ refreshTokens[t].session \in ended' => refreshTokens[t].session \in raced
  PROVE  TokensSound'
<1>1. \A t \in TokenIds : Live(t)' => Live(t) /\ refreshTokens'[t].session = refreshTokens[t].session /\ refreshTokens'[t] # None /\ ~refreshTokens'[t].revoked
  BY LiveTokens, LiveTokensNext DEF TokensSound, Shrunk, TokenRow
<1>2. SessionsEnd'
  BY <1>1 DEF SessionsEnd, OneLiveToken, EndedUnlessRaced, SessionOf, TokensSound
<1>3. \A t \in TokenIds : refreshTokens'[t] # None => t <= lastToken /\ refreshTokens'[t].session <= lastToken
  BY DEF Shrunk, TokensSound, SessionOf
<1>4. \A t, x \in TokenIds : refreshTokens'[t] # None /\ refreshTokens'[x] # None /\ refreshTokens'[t].session = refreshTokens'[x].session =>
       refreshTokens'[t].user = refreshTokens'[x].user
  BY DEF Shrunk, TokensSound, SessionOf
<1> QED BY <1>2, <1>3, <1>4 DEF TokensSound, SessionOf, Shrunk

\* A request is as it was, when what it holds stays.
LEMMA JobShrinks ==
  ASSUME TokensSound, Shrunk, raced' = raced, late \subseteq late', NEW x \in Job, JobTokens(x),
         x.kind \in {"refresh", "reuse"} => refreshTokens'[x.item] # None,
         x.kind = "refresh" => ~refreshTokens'[x.item].revoked
  PROVE  JobTokens(x)'
<1>1. \A t \in TokenIds : Live(t)' => Live(t) /\ refreshTokens'[t].session = refreshTokens[t].session /\ refreshTokens'[t].user = refreshTokens[t].user
  BY LiveTokens, LiveTokensNext DEF TokensSound, Shrunk
<1>2. x.kind = "refresh" => /\ x.item \in TokenIds /\ refreshTokens'[x.item] # None /\ refreshTokens'[x.item].user = x.user
                           /\ ~refreshTokens'[x.item].revoked /\ refreshTokens'[x.item].next = None
  BY DEF JobTokens, Shrunk
<1>3. x.kind = "reuse" => x.item \in TokenIds /\ refreshTokens'[x.item] # None /\ refreshTokens'[x.item].session = refreshTokens[x.item].session
  BY DEF JobTokens, Shrunk
<1>4. x.kind = "signOut" => x.item \in 1..lastToken'
  BY DEF JobTokens, Shrunk
<1>5. x.kind \in {"reuse", "signOut"} =>
       \A t \in TokenIds : Live(t)' /\ refreshTokens'[t].session = (IF x.kind = "reuse" THEN refreshTokens'[x.item].session ELSE x.item) =>
         t \in x.targets \/ refreshTokens'[t].session \in raced'
  BY <1>1, <1>3 DEF JobTokens, SessionOf
<1>6. x.saving /\ x.kind \in {"resetPassword", "suspend", "anonymize", "changePassword"} =>
       \A t \in TokenIds : Live(t)' /\ refreshTokens'[t].user = x.user /\ (x.kind = "changePassword" => refreshTokens'[t].session # x.item) =>
         t \in x.targets \/ refreshTokens'[t].session \in raced'
  BY <1>1 DEF JobTokens, SessionOf
<1>7. x.saving /\ x.kind = "anonymize" =>
       \A t \in TokenIds : refreshTokens'[t] # None /\ refreshTokens'[t].user = x.user => t \in x.targets \/ x.user \in late'
  BY DEF JobTokens, Shrunk
<1> QED BY <1>2, <1>3, <1>4, <1>5, <1>6, <1>7 DEF JobTokens, SessionOf

\* Revoking some tokens only takes.
LEMMA RevokedShrink ==
  ASSUME TokensSound, NEW targets, refreshTokens' = revokeLive(targets), lastToken' = lastToken
  PROVE  /\ Shrunk
         /\ \A t \in TokenIds : /\ t \in targets /\ refreshTokens'[t] # None => refreshTokens'[t].revoked
                                /\ t \notin targets => refreshTokens'[t] = refreshTokens[t]
<1>1. \A t \in TokenIds : Live(t) <=> refreshTokens[t] # None /\ ~refreshTokens[t].revoked
  BY LiveTokens DEF TokensSound
<1>2. \A t \in TokenIds : refreshTokens[t] \in TokenRow \cup {None}
  BY DEF TokensSound
<1>3. refreshTokens' = [t \in TokenIds |-> IF t \in targets /\ Live(t) THEN [refreshTokens[t] EXCEPT !.revoked = TRUE] ELSE refreshTokens[t]]
  BY DEF revokeLive
<1>4. ASSUME NEW t \in TokenIds
      PROVE  /\ refreshTokens'[t] \in TokenRow \cup {None}
             /\ refreshTokens'[t] # None =>
                 /\ refreshTokens[t] # None
                 /\ refreshTokens'[t].user = refreshTokens[t].user /\ refreshTokens'[t].session = refreshTokens[t].session
                 /\ refreshTokens'[t].next = refreshTokens[t].next
                 /\ refreshTokens[t].revoked => refreshTokens'[t].revoked
             /\ t \in targets /\ refreshTokens'[t] # None => refreshTokens'[t].revoked
             /\ t \notin targets => refreshTokens'[t] = refreshTokens[t]
  <2>1. CASE t \in targets /\ Live(t)
    <3>1. refreshTokens[t] \in TokenRow /\ refreshTokens[t] # None
      BY <1>1, <1>2, <2>1
    <3>2. refreshTokens'[t] = [refreshTokens[t] EXCEPT !.revoked = TRUE]
      BY <1>3, <2>1
    <3> QED BY <2>1, <3>1, <3>2 DEF TokenRow
  <2>2. CASE ~(t \in targets /\ Live(t))
    BY <1>3, <2>2, <1>1, <1>2
  <2> QED BY <2>1, <2>2
<1>5. refreshTokens' \in [TokenIds -> TokenRow \cup {None}]
  BY <1>3, <1>4
<1> QED BY <1>4, <1>5 DEF Shrunk

\* Deleting some tokens only takes.
LEMMA DeletedShrink ==
  ASSUME TokensSound, NEW targets, lastToken' = lastToken,
         refreshTokens' = [t \in TokenIds |-> IF t \in targets THEN None ELSE refreshTokens[t]]
  PROVE  /\ Shrunk
         /\ \A t \in TokenIds : /\ t \in targets => refreshTokens'[t] = None
                                /\ t \notin targets => refreshTokens'[t] = refreshTokens[t]
BY DEF Shrunk, TokensSound

\* A token that expires only takes.
LEMMA ExpiredShrink ==
  ASSUME TokensSound, NEW t \in TokenIds, refreshTokens[t] # None, lastToken' = lastToken,
         refreshTokens' = [refreshTokens EXCEPT ![t].expired = TRUE]
  PROVE  /\ Shrunk
         /\ \A x \in TokenIds : x # t => refreshTokens'[x] = refreshTokens[x]
         /\ refreshTokens'[t] # None /\ refreshTokens'[t].revoked = refreshTokens[t].revoked
<1> DEFINE row == [refreshTokens[t] EXCEPT !.expired = TRUE]
<1>1. refreshTokens' = [refreshTokens EXCEPT ![t] = row]
  OBVIOUS
<1>2. refreshTokens[t] \in TokenRow
  BY DEF TokensSound
<1>3. row \in TokenRow /\ row.user = refreshTokens[t].user /\ row.session = refreshTokens[t].session
      /\ row.next = refreshTokens[t].next /\ row.revoked = refreshTokens[t].revoked
  BY <1>2 DEF TokenRow
<1> HIDE DEF row
<1> QED BY <1>1, <1>2, <1>3, NoneIsNoRow DEF Shrunk, TokensSound

\* A sign-in opens a session: of it, nobody ended anything but if it raced.
LEMMA TokenOpened ==
  ASSUME AccountsAssumption, TokensSound, NEW u \in Users, lastToken + 1 \in TokenIds, lastToken' = lastToken + 1,
         refreshTokens' = [refreshTokens EXCEPT ![lastToken + 1] = newRefreshToken(u, lastToken + 1)],
         \/ ended' = ended /\ raced' = raced
         \/ ended' = ended \cup {lastToken + 1} /\ raced' = raced \cup {lastToken + 1}
  PROVE  TokensSound'
<1> DEFINE n == lastToken + 1
           row == newRefreshToken(u, n)
<1>1. n \in TokenIds /\ lastToken \in Nat /\ n = lastToken + 1 /\ MaxTokens \in Nat /\ lastToken' = n
  BY DEF TokensSound, AccountsAssumption
<1>2. row \in TokenRow /\ row.user = u /\ row.session = n /\ ~row.revoked
  BY <1>1 DEF newRefreshToken, TokenRow
<1>3. refreshTokens' = [refreshTokens EXCEPT ![n] = row]
  OBVIOUS
<1>4. refreshTokens[n] = None
  BY <1>1 DEF TokensSound
<1> HIDE DEF n, row
<1>5. /\ refreshTokens' \in [TokenIds -> TokenRow \cup {None}] /\ refreshTokens'[n] = row
      /\ \A t \in TokenIds \ {n} : refreshTokens'[t] = refreshTokens[t]
  BY <1>1, <1>2, <1>3 DEF TokensSound
<1>6. \A t \in TokenIds \ {n} : refreshTokens[t] # None => refreshTokens[t].session # n /\ t <= n /\ refreshTokens[t].session <= n
  <2>1. ASSUME NEW t \in TokenIds \ {n}, refreshTokens[t] # None
        PROVE  refreshTokens[t].session # n /\ t <= n /\ refreshTokens[t].session <= n
    BY <2>1, <1>1 DEF TokensSound, SessionOf, TokenIds, TokenRow
  <2> QED BY <2>1
<1>7. ended' \subseteq 1..n /\ raced' \subseteq TokenIds /\ n \in 0..MaxTokens
  <2>1. ended \subseteq 1..n
    BY <1>1 DEF TokensSound
  <2>2. n \in 1..n /\ n \in 0..MaxTokens
    BY <1>1 DEF TokenIds
  <2>3. raced \subseteq TokenIds
    BY DEF TokensSound
  <2> QED BY <1>1, <2>1, <2>2, <2>3 DEF n
<1>8. /\ \A t \in TokenIds : refreshTokens'[t] # None => t <= n /\ refreshTokens'[t].session <= n
      /\ \A t, x \in TokenIds : refreshTokens'[t] # None /\ refreshTokens'[x] # None /\ refreshTokens'[t].session = refreshTokens'[x].session =>
           refreshTokens'[t].user = refreshTokens'[x].user
  BY <1>1, <1>2, <1>5, <1>6 DEF TokensSound, SessionOf
<1>9. \A t \in TokenIds \ {n} : Live(t)' <=> Live(t)
  BY <1>5, LiveTokens, LiveTokensNext DEF TokensSound
<1>10. \A t, x \in TokenIds : Live(t)' /\ Live(x)' /\ refreshTokens'[t].session = refreshTokens'[x].session => t = x
  BY LiveTokens, <1>2, <1>5, <1>6, <1>9 DEF TokensSound, SessionsEnd, OneLiveToken, SessionOf
<1>11. \A t \in TokenIds : Live(t)' => refreshTokens'[t].session \notin ended' \ raced'
  BY LiveTokens, <1>6, <1>1, <1>2, <1>5, <1>9 DEF TokensSound, SessionsEnd, EndedUnlessRaced, SessionOf, n
<1> QED BY <1>1, <1>5, <1>7, <1>8, <1>10, <1>11 DEF TokensSound, SessionOf, SessionsEnd, OneLiveToken, EndedUnlessRaced

\* For the other requests, which are about other sessions.
LEMMA JobOpened ==
  ASSUME AccountsAssumption, TokensSound, NEW u \in Users, lastToken + 1 \in TokenIds, lastToken' = lastToken + 1,
         refreshTokens' = [refreshTokens EXCEPT ![lastToken + 1] = newRefreshToken(u, lastToken + 1)],
         raced \subseteq raced', late \subseteq late', NEW x \in Job, JobTokens(x),
         x.saving => x.user # u
  PROVE  JobTokens(x)'
<1> DEFINE n == lastToken + 1
           row == newRefreshToken(u, n)
<1>1. n \in TokenIds /\ lastToken \in Nat /\ n = lastToken + 1 /\ MaxTokens \in Nat /\ lastToken' = n
  BY DEF TokensSound, AccountsAssumption
<1>2. row \in TokenRow /\ row.user = u /\ row.session = n /\ ~row.revoked
  BY <1>1 DEF newRefreshToken, TokenRow
<1>3. refreshTokens' = [refreshTokens EXCEPT ![n] = row]
  OBVIOUS
<1>4. refreshTokens[n] = None
  BY <1>1 DEF TokensSound
<1> HIDE DEF n, row
<1>5. /\ refreshTokens' \in [TokenIds -> TokenRow \cup {None}] /\ refreshTokens'[n] = row
      /\ \A t \in TokenIds \ {n} : refreshTokens'[t] = refreshTokens[t]
  BY <1>1, <1>2, <1>3 DEF TokensSound
<1>6. \A t \in TokenIds \ {n} : Live(t)' <=> Live(t)
  BY <1>5, LiveTokens, LiveTokensNext DEF TokensSound
<1>7. x.kind = "refresh" => /\ x.item \in TokenIds /\ refreshTokens'[x.item] # None /\ refreshTokens'[x.item].user = x.user
                           /\ ~refreshTokens'[x.item].revoked /\ refreshTokens'[x.item].next = None
  BY <1>4, <1>5 DEF JobTokens
<1>8. x.kind = "reuse" => x.item \in TokenIds /\ refreshTokens'[x.item] # None /\ refreshTokens'[x.item] = refreshTokens[x.item] /\ x.item # n
  BY <1>4, <1>5 DEF JobTokens
<1>9. x.kind = "signOut" => x.item \in 1..lastToken' /\ x.item # n
  BY <1>1 DEF JobTokens
<1>10. x.kind = "reuse" => refreshTokens[x.item].session # n
  BY <1>8, <1>1 DEF JobTokens, TokensSound, SessionOf, TokenRow, TokenIds
<1>11. x.kind \in {"reuse", "signOut"} =>
       \A t \in TokenIds : Live(t)' /\ refreshTokens'[t].session = (IF x.kind = "reuse" THEN refreshTokens'[x.item].session ELSE x.item) =>
         t \in x.targets \/ refreshTokens'[t].session \in raced'
  BY <1>2, <1>5, <1>6, <1>8, <1>10, <1>9 DEF JobTokens, SessionOf
<1>12. x.saving /\ x.kind \in {"resetPassword", "suspend", "anonymize", "changePassword"} =>
       \A t \in TokenIds : Live(t)' /\ refreshTokens'[t].user = x.user /\ (x.kind = "changePassword" => refreshTokens'[t].session # x.item) =>
         t \in x.targets \/ refreshTokens'[t].session \in raced'
  BY <1>2, <1>5, <1>6 DEF JobTokens, SessionOf
<1>13. x.saving /\ x.kind = "anonymize" =>
       \A t \in TokenIds : refreshTokens'[t] # None /\ refreshTokens'[t].user = x.user => t \in x.targets \/ x.user \in late'
  BY <1>2, <1>5 DEF JobTokens
<1> QED BY <1>7, <1>8, <1>9, <1>11, <1>12, <1>13 DEF JobTokens, SessionOf

\* A renewal: the token it was given is spent, and a new one of its session takes its place.
Renewed(t, u) ==
  /\ t \in TokenIds /\ refreshTokens[t] # None /\ refreshTokens[t].user = u /\ ~refreshTokens[t].revoked /\ u \in Users
  /\ lastToken + 1 \in TokenIds /\ lastToken' = lastToken + 1
  /\ refreshTokens' = [refreshTokens EXCEPT ![t].revoked = TRUE, ![t].next = lastToken + 1, ![lastToken + 1] = newRefreshToken(u, SessionOf(t))]

\* A rotation revokes the token and adds one of the same session.
LEMMA RenewedRows ==
  ASSUME AccountsAssumption, TokensSound, NEW t, NEW u, Renewed(t, u)
  PROVE  /\ lastToken + 1 # t /\ lastToken + 1 \in TokenIds /\ lastToken \in Nat /\ refreshTokens[lastToken + 1] = None
         /\ refreshTokens' \in [TokenIds -> TokenRow \cup {None}]
         /\ refreshTokens'[t].revoked /\ refreshTokens'[t] # None /\ refreshTokens'[t].user = u /\ refreshTokens'[t].session = refreshTokens[t].session
         /\ refreshTokens'[lastToken + 1].user = u /\ refreshTokens'[lastToken + 1].session = refreshTokens[t].session
         /\ \A x \in TokenIds \ {t, lastToken + 1} : refreshTokens'[x] = refreshTokens[x]
<1> DEFINE n == lastToken + 1
           old == [refreshTokens[t] EXCEPT !.revoked = TRUE, !.next = n]
           new == newRefreshToken(u, SessionOf(t))
<1>1. n \in TokenIds /\ lastToken \in Nat /\ n = lastToken + 1 /\ t \in TokenIds
  BY DEF TokensSound, AccountsAssumption, Renewed
<1>2. refreshTokens[n] = None
  BY <1>1 DEF TokensSound
<1>3. n # t
  BY <1>2 DEF Renewed
<1>4. refreshTokens[t] \in TokenRow
  BY <1>1 DEF TokensSound, Renewed
<1>5. old \in TokenRow /\ old.revoked /\ old.user = refreshTokens[t].user /\ old.session = refreshTokens[t].session
  BY <1>1, <1>4 DEF TokenRow
<1>6. new \in TokenRow /\ new.user = u /\ new.session = refreshTokens[t].session
  BY <1>4 DEF newRefreshToken, TokenRow, SessionOf, Renewed
<1>7. refreshTokens' = [refreshTokens EXCEPT ![t] = old, ![n] = new]
  BY <1>1, <1>3 DEF Renewed, TokensSound
<1>8. n = lastToken + 1
  OBVIOUS
<1> HIDE DEF old, new, n
<1>9. refreshTokens'[t] = old /\ refreshTokens'[n] = new /\ refreshTokens' \in [TokenIds -> TokenRow \cup {None}]
      /\ \A x \in TokenIds \ {t, n} : refreshTokens'[x] = refreshTokens[x]
  BY <1>1, <1>3, <1>5, <1>6, <1>7 DEF TokensSound
<1>10. refreshTokens[t].user = u
  BY DEF Renewed
<1> QED BY <1>1, <1>2, <1>3, <1>5, <1>6, <1>8, <1>9, <1>10, NoneIsNoRow

\* A rotation keeps the tokens sound.
LEMMA TokensRenewed ==
  ASSUME AccountsAssumption, TokensSound, NEW t, NEW u, Renewed(t, u), ended' = ended, raced \subseteq raced', raced' \subseteq TokenIds
  PROVE  TokensSound'
<1> DEFINE n == lastToken + 1
<1>0. lastToken' = n /\ t \in TokenIds /\ refreshTokens[t] # None /\ ~refreshTokens[t].revoked /\ refreshTokens[t].user = u
  BY DEF Renewed
<1>1. /\ n # t /\ n \in TokenIds /\ lastToken \in Nat /\ n = lastToken + 1 /\ refreshTokens[n] = None
      /\ refreshTokens' \in [TokenIds -> TokenRow \cup {None}]
      /\ refreshTokens'[t].revoked /\ refreshTokens'[t] # None /\ refreshTokens'[t].user = u /\ refreshTokens'[t].session = refreshTokens[t].session
      /\ refreshTokens'[n].user = u /\ refreshTokens'[n].session = refreshTokens[t].session
      /\ \A x \in TokenIds \ {t, n} : refreshTokens'[x] = refreshTokens[x]
  BY RenewedRows
<1> HIDE DEF n
<1>2. \A x \in TokenIds : x # t /\ Live(x)' => x = n \/ (x # n /\ Live(x) /\ refreshTokens[x] # None /\ refreshTokens'[x] = refreshTokens[x])
  BY <1>1, LiveTokens, LiveTokensNext DEF TokensSound
<1>3. ~Live(t)' /\ Live(t)
  BY <1>0, <1>1, LiveTokens, LiveTokensNext DEF TokensSound
<1>4. \A x, y \in TokenIds : Live(x)' /\ Live(y)' /\ refreshTokens'[x].session = refreshTokens'[y].session => x = y
  BY <1>0, <1>1, <1>2, <1>3 DEF TokensSound, SessionsEnd, OneLiveToken, SessionOf
<1>5. \A x \in TokenIds : Live(x)' => refreshTokens'[x].session \notin ended' \ raced'
  BY <1>0, <1>1, <1>2, <1>3, ZenonT(30) DEF TokensSound, SessionsEnd, EndedUnlessRaced, SessionOf
<1>6. ended' \subseteq 1..n /\ n \in 0..MaxTokens
  BY <1>1 DEF TokensSound, TokenIds
<1>7. \A x \in TokenIds : refreshTokens'[x] # None => x <= n /\ refreshTokens'[x].session <= n
  <2>1. ASSUME NEW x \in TokenIds, refreshTokens[x] # None
        PROVE  x <= n /\ refreshTokens[x].session <= n
    BY <2>1, <1>1 DEF TokensSound, SessionOf, TokenIds, TokenRow
  <2>2. n <= n
    BY <1>1
  <2> QED BY <1>0, <1>1, <2>1, <2>2
<1>8. \A x, y \in TokenIds : refreshTokens'[x] # None /\ refreshTokens'[y] # None /\ refreshTokens'[x].session = refreshTokens'[y].session =>
       refreshTokens'[x].user = refreshTokens'[y].user
  <2>1. ASSUME NEW x \in TokenIds, refreshTokens'[x] # None
        PROVE  \E o \in TokenIds : /\ refreshTokens[o] # None /\ refreshTokens'[x].user = refreshTokens[o].user
                                   /\ refreshTokens'[x].session = refreshTokens[o].session
    BY <1>0, <1>1, <2>1
  <2> QED BY <2>1 DEF TokensSound, SessionOf
<1> QED BY <1>0, <1>1, <1>4, <1>5, <1>6, <1>7, <1>8 DEF TokensSound, SessionOf, SessionsEnd, OneLiveToken, EndedUnlessRaced

\* Another request that ends sessions misses the new token only if it raced.
LEMMA JobRenewed ==
  ASSUME AccountsAssumption, TokensSound, NEW t, NEW u, Renewed(t, u), raced \subseteq raced', late \subseteq late',
         NEW x \in Job, JobTokens(x), x.kind \in {"refresh", "reuse"} => x.item # t,
         x.kind \in Saves \cup {"reuse", "signOut"} /\ t \in x.targets => refreshTokens[t].session \in raced' /\ (x.kind = "anonymize" => u \in late')
  PROVE  JobTokens(x)'
<1> DEFINE n == lastToken + 1
<1>0. lastToken' = n /\ t \in TokenIds /\ refreshTokens[t] # None /\ ~refreshTokens[t].revoked /\ refreshTokens[t].user = u
  BY DEF Renewed
<1>1. /\ n # t /\ n \in TokenIds /\ lastToken \in Nat /\ n = lastToken + 1 /\ refreshTokens[n] = None
      /\ refreshTokens' \in [TokenIds -> TokenRow \cup {None}]
      /\ refreshTokens'[t].revoked /\ refreshTokens'[t] # None /\ refreshTokens'[t].user = u /\ refreshTokens'[t].session = refreshTokens[t].session
      /\ refreshTokens'[n].user = u /\ refreshTokens'[n].session = refreshTokens[t].session
      /\ \A y \in TokenIds \ {t, n} : refreshTokens'[y] = refreshTokens[y]
  BY RenewedRows
<1> HIDE DEF n
<1>2. \A y \in TokenIds : y # t /\ Live(y)' => y = n \/ (y # n /\ Live(y) /\ refreshTokens[y] # None /\ refreshTokens'[y] = refreshTokens[y])
  BY <1>1, LiveTokens, LiveTokensNext DEF TokensSound
<1>3. ~Live(t)' /\ Live(t)
  BY <1>0, <1>1, LiveTokens, LiveTokensNext DEF TokensSound
<1>4. x.kind = "refresh" => /\ x.item \in TokenIds /\ refreshTokens'[x.item] # None /\ refreshTokens'[x.item].user = x.user
                           /\ ~refreshTokens'[x.item].revoked /\ refreshTokens'[x.item].next = None
  BY <1>1 DEF JobTokens
<1>5. x.kind = "reuse" => x.item \in TokenIds /\ refreshTokens'[x.item] # None /\ refreshTokens'[x.item] = refreshTokens[x.item]
  BY <1>1 DEF JobTokens
<1>6. x.kind = "signOut" => x.item \in 1..lastToken'
  BY <1>0, <1>1 DEF JobTokens
<1>7. ASSUME x.kind \in {"reuse", "signOut"}, NEW y \in TokenIds, Live(y)',
             refreshTokens'[y].session = (IF x.kind = "reuse" THEN refreshTokens'[x.item].session ELSE x.item)
      PROVE  y \in x.targets \/ refreshTokens'[y].session \in raced'
  <2>1. CASE y = n
    BY <1>1, <1>5, <1>7, <2>1, <1>0, <1>3 DEF JobTokens, SessionOf
  <2>2. CASE y # n
    BY <1>2, <1>3, <1>5, <1>7, <2>2 DEF JobTokens, SessionOf
  <2> QED BY <2>1, <2>2
<1>8. ASSUME x.saving, x.kind \in {"resetPassword", "suspend", "anonymize", "changePassword"}, NEW y \in TokenIds, Live(y)',
             refreshTokens'[y].user = x.user, x.kind = "changePassword" => refreshTokens'[y].session # x.item
      PROVE  y \in x.targets \/ refreshTokens'[y].session \in raced'
  <2>1. CASE y = n
    BY <1>0, <1>1, <1>3, <1>8, <2>1 DEF JobTokens, SessionOf, Saves
  <2>2. CASE y # n
    BY <1>2, <1>3, <1>8, <2>2 DEF JobTokens, SessionOf
  <2> QED BY <2>1, <2>2
<1>9. ASSUME x.saving, x.kind = "anonymize", NEW y \in TokenIds, refreshTokens'[y] # None, refreshTokens'[y].user = x.user
      PROVE  y \in x.targets \/ x.user \in late'
  <2>1. CASE y \in {t, n}
    <3>1. x.user = u
      BY <1>1, <1>9, <2>1
    <3>2. t \in x.targets \/ x.user \in late
      BY <1>0, <1>9, <3>1 DEF JobTokens
    <3> QED BY <1>9, <3>1, <3>2 DEF Saves
  <2>2. CASE y \notin {t, n}
    BY <1>1, <1>9, <2>2 DEF JobTokens
  <2> QED BY <2>1, <2>2
<1> QED BY <1>4, <1>5, <1>6, <1>7, <1>8, <1>9 DEF JobTokens, SessionOf

-----------------------------------------------------------------------------
(* Accounts: what happens to links.                                        *)

Links == [LinkIds -> LinkRow \cup {None}]

\* A link that does not work stays as it is, or goes.
SpentStay(rows, next) ==
  \A l \in LinkIds : rows[l] # None /\ rows[l].state # "pending" => next[l] \in {rows[l], None}

\* Invalidating links uses up those that were usable.
LEMMA LinksInvalidated ==
  ASSUME NEW rows \in Links, NEW targets
  PROVE  /\ invalidate(rows, targets) \in Links
         /\ \A l \in LinkIds : \/ invalidate(rows, targets)[l] = rows[l] /\ (l \in targets => ~isUsableLink(rows[l]))
                               \/ l \in targets /\ isUsableLink(rows[l]) /\ ~isUsableLink(invalidate(rows, targets)[l])
         /\ \A l \in LinkIds : invalidate(rows, targets)[l] # None => rows[l] # None /\ invalidate(rows, targets)[l].user = rows[l].user
<1> DEFINE next == invalidate(rows, targets)
<1>1. next = [l \in LinkIds |-> IF l \in targets /\ isUsableLink(rows[l]) THEN [rows[l] EXCEPT !.state = "invalidated"] ELSE rows[l]]
  BY DEF invalidate
<1> HIDE DEF next
<1>2. ASSUME NEW l \in LinkIds
      PROVE  /\ next[l] \in LinkRow \cup {None}
             /\ \/ next[l] = rows[l] /\ (l \in targets => ~isUsableLink(rows[l]))
                \/ l \in targets /\ isUsableLink(rows[l]) /\ ~isUsableLink(next[l])
             /\ next[l] # None => rows[l] # None /\ next[l].user = rows[l].user
  <2>1. rows[l] \in LinkRow \cup {None}
    BY DEF Links
  <2>2. CASE l \in targets /\ isUsableLink(rows[l])
    BY <1>1, <2>1, <2>2 DEF isUsableLink, LinkRow
  <2>3. CASE ~(l \in targets /\ isUsableLink(rows[l]))
    BY <1>1, <2>1, <2>3
  <2> QED BY <2>2, <2>3
<1>3. next \in Links
  BY <1>1, <1>2 DEF Links
<1> QED BY <1>2, <1>3 DEF next

\* A new link took the id l, and those it replaces no longer work.
IssuedAs(l, rows, next, targets, u, address) ==
  /\ rows[l] = None /\ next[l].user = u /\ next[l].sentTo = address /\ next[l] # None
  /\ next[l].crossed <=> account[u].email # address
  /\ \A m \in LinkIds \ {l} : \/ next[m] = rows[m] /\ (m \in targets => ~isUsableLink(rows[m]))
                              \/ m \in targets /\ isUsableLink(rows[m]) /\ ~isUsableLink(next[m])

\* Issuing a link adds one, and uses up those before it.
LEMMA LinkIssued ==
  ASSUME NEW rows \in Links, NEW targets, NEW u \in Users, NEW address \in Emails, NEW next \in issue(rows, targets, u, address)
  PROVE  /\ next \in Links
         /\ \E l \in LinkIds : IssuedAs(l, rows, next, targets, u, address)
         /\ \A m \in LinkIds : next[m] # None => next[m].user = u \/ (rows[m] # None /\ next[m].user = rows[m].user)
<1> DEFINE free == {x \in LinkIds : rows[x] = None}
           row == [user |-> u, sentTo |-> address, state |-> "pending", crossed |-> account[u].email # address]
<1>1. PICK l \in free : next = [invalidate(rows, targets) EXCEPT ![l] = row]
  BY DEF issue
<1>2. /\ invalidate(rows, targets) \in Links
      /\ \A m \in LinkIds : \/ invalidate(rows, targets)[m] = rows[m] /\ (m \in targets => ~isUsableLink(rows[m]))
                            \/ m \in targets /\ isUsableLink(rows[m]) /\ ~isUsableLink(invalidate(rows, targets)[m])
      /\ \A m \in LinkIds : invalidate(rows, targets)[m] # None => rows[m] # None /\ invalidate(rows, targets)[m].user = rows[m].user
  BY LinksInvalidated
<1>3. row \in LinkRow /\ row.user = u /\ row.sentTo = address /\ (row.crossed <=> account[u].email # address)
  BY DEF LinkRow
<1> HIDE DEF row
<1>4. next \in Links /\ next[l] = row /\ \A m \in LinkIds \ {l} : next[m] = invalidate(rows, targets)[m]
  BY <1>1, <1>2, <1>3 DEF Links
<1>5. IssuedAs(l, rows, next, targets, u, address)
  BY <1>1, <1>2, <1>3, <1>4, NoneIsNoRow DEF IssuedAs
<1> QED BY <1>1, <1>2, <1>3, <1>4, <1>5, NoneIsNoRow

\* A link that was used is not usable.
LEMMA LinkMarked ==
  ASSUME NEW rows \in Links, NEW l \in LinkIds, rows[l] # None
  PROVE  /\ markUsed(rows, l) \in Links
         /\ ~isUsableLink(markUsed(rows, l)[l])
         /\ \A m \in LinkIds \ {l} : markUsed(rows, l)[m] = rows[m]
<1> DEFINE row == [rows[l] EXCEPT !.state = "used"]
<1>1. rows[l] \in LinkRow
  BY DEF Links
<1>2. row \in LinkRow /\ row.state = "used"
  BY <1>1 DEF LinkRow
<1>3. markUsed(rows, l) = [rows EXCEPT ![l] = row]
  BY DEF markUsed
<1> HIDE DEF row
<1> QED BY <1>2, <1>3 DEF Links, isUsableLink

Lapsed(rows, l) == [rows EXCEPT ![l].state = "expired"]
\* A link that lapsed is not usable.
LEMMA LinkExpired ==
  ASSUME NEW rows \in Links, NEW l \in LinkIds, rows[l] # None
  PROVE  /\ Lapsed(rows, l) \in Links
         /\ ~isUsableLink(Lapsed(rows, l)[l])
         /\ \A m \in LinkIds \ {l} : Lapsed(rows, l)[m] = rows[m]
<1> DEFINE row == [rows[l] EXCEPT !.state = "expired"]
<1>1. rows[l] \in LinkRow
  BY DEF Links
<1>2. row \in LinkRow /\ row.state = "expired"
  BY <1>1 DEF LinkRow
<1>3. Lapsed(rows, l) = [rows EXCEPT ![l] = row]
  BY DEF Lapsed
<1> HIDE DEF row
<1> QED BY <1>2, <1>3 DEF Links, isUsableLink

\* Deleting the links of somebody leaves those of others.
LEMMA LinksWithout ==
  ASSUME NEW rows \in Links, NEW u
  PROVE  /\ without(rows, u) \in Links
         /\ \A l \in LinkIds : without(rows, u)[l] = IF rows[l] # None /\ rows[l].user = u THEN None ELSE rows[l]
BY DEF without, Stored, Links

\* A request keeps the link it locked, and the address of its account.
LEMMA JobLinksStay ==
  ASSUME NEW x \in Job, JobLinks(x),
         x.kind = "resetPassword" => resetLinks'[x.item] = resetLinks[x.item],
         x.kind = "confirmEmail" => verifyLinks'[x.item] = verifyLinks[x.item] /\ account'[x.user].email = account[x.user].email
  PROVE  JobLinks(x)'
BY DEF JobLinks, isUsableLink

-----------------------------------------------------------------------------
(* Accounts: what happens to requests.                                     *)

\* The same request, but that what it read may be outdated.
SameRequest(y, x) ==
  /\ y \in Job /\ y.kind = x.kind /\ y.user = x.user /\ y.item = x.item /\ y.email = x.email
  /\ (y.saving <=> x.saving) /\ y.targets = x.targets /\ (y.fresh => x.fresh)

\* A request that waits for nothing is idle.
LEMMA IdleJob ==
  /\ Idle \in Job /\ Idle.kind = "idle" /\ ~Idle.saving /\ Idle.user = None
BY DEF Idle, Job, Kinds, Saves

\* The end of a request leaves the others as they were, but stale when they read the row it saved.
LEMMA RequestsAfter ==
  ASSUME JobsSound, NEW p \in Requests, NEW u, job' \in {done(p), saved(p, u), ends(p, u)}
  PROVE  /\ job' \in [Requests -> Job] /\ job'[p] = Idle
         /\ \A q \in Requests \ {p} : SameRequest(job'[q], job[q]) /\ (job[q].user # u => job'[q] = job[q])
                                      /\ (job' # done(p) /\ job[q].user = u => ~job'[q].fresh)
                                      /\ (job' = done(p) => job'[q] = job[q])
<1>1. \A q \in Requests : job[q] \in Job
  BY DEF JobsSound
<1>2. CASE job' = done(p)
  BY <1>1, <1>2, IdleJob DEF done, JobsSound, SameRequest
<1>3. CASE job' # done(p) /\ job' = saved(p, u)
  <2>1. job'[p] = Idle
    BY <1>3 DEF saved
  <2>2. ASSUME NEW q \in Requests \ {p}
        PROVE  /\ SameRequest(job'[q], job[q]) /\ (job[q].user # u => job'[q] = job[q])
               /\ (job[q].user = u => ~job'[q].fresh)
    BY <1>3, <1>1 DEF saved, Job, SameRequest
  <2>3. job' \in [Requests -> Job]
    BY <1>3, <2>1, <2>2, IdleJob DEF saved, SameRequest
  <2> QED BY <1>3, <2>1, <2>2, <2>3
<1>4. CASE job' # done(p) /\ job' = ends(p, u)
  <2>1. job'[p] = Idle
    BY <1>4 DEF ends
  <2>2. ASSUME NEW q \in Requests \ {p}
        PROVE  /\ SameRequest(job'[q], job[q]) /\ (job[q].user # u => job'[q] = job[q])
               /\ (job[q].user = u => ~job'[q].fresh)
    BY <1>4, <1>1 DEF ends, Job, SameRequest
  <2>3. job' \in [Requests -> Job]
    BY <1>4, <2>1, <2>2, IdleJob DEF ends, SameRequest
  <2> QED BY <1>4, <2>1, <2>2, <2>3
<1> QED BY <1>2, <1>3, <1>4

\* A request ends: the others keep what they hold, and know what they read if it still is true.
LEMMA RequestEnds ==
  ASSUME JobsSound, NEW p \in Requests, NEW u, NEW J, J = job,
         \/ job' = done(p)
         \/ job[p].saving /\ job[p].user = u /\ job' \in {saved(p, u), ends(p, u)},
         \A q \in Requests \ {p} : JobTokens(J[q])' /\ JobLinks(J[q])',
         \A q \in Requests \ {p} : J[q].kind \in Saves /\ J[q].fresh /\ (J[q].user = u => job' = done(p)) =>
           account'[J[q].user].status \in ReadStatus(J[q].kind)
  PROVE  JobsSound'
<1>1. /\ job' \in [Requests -> Job] /\ job'[p] = Idle
      /\ \A q \in Requests \ {p} : SameRequest(job'[q], J[q]) /\ (J[q].user # u => job'[q] = J[q])
                                      /\ (job' # done(p) /\ J[q].user = u => ~job'[q].fresh)
                                      /\ (job' = done(p) => job'[q] = J[q])
  BY RequestsAfter
<1>2. ASSUME NEW q \in Requests, NEW y, y = job'[q]
      PROVE  JobShape(y) /\ JobTokens(y)' /\ JobLinks(y)' /\ JobAccount(y)'
  <2>1. CASE q = p
    BY <1>1, <1>2, <2>1, IdleJob DEF JobShape, JobTokens, JobLinks, JobAccount, Saves
  <2>2. CASE q # p
    <3>1. SameRequest(y, J[q]) /\ J[q] \in Job
      BY <1>1, <1>2, <2>2 DEF JobsSound
    <3>2. JobShape(y)
      BY <3>1, <2>2 DEF SameRequest, JobShape, JobsSound
    <3>3. JobTokens(y)'
      BY <3>1, <2>2 DEF SameRequest, JobTokens
    <3>4. JobLinks(y)'
      BY <3>1, <2>2 DEF SameRequest, JobLinks
    <3>5. JobAccount(J[q])
      BY DEF JobsSound
    <3>6. y.saving => y.kind \in Saves /\ y.fresh
      <4>1. SUFFICES ASSUME y.saving PROVE y.kind \in Saves /\ y.fresh
        OBVIOUS
      <4>2. J[q].saving /\ J[q].kind \in Saves /\ J[q].fresh /\ y.kind = J[q].kind
        BY <3>1, <3>5, <4>1 DEF SameRequest, JobAccount
      <4>3. CASE job' = done(p)
        BY <1>1, <1>2, <2>2, <4>2, <4>3
      <4>4. CASE job' # done(p)
        BY <2>2, <4>2, <4>4, <1>1, <1>2 DEF JobsSound, NotBoth
      <4> QED BY <4>3, <4>4
    <3>7. y.kind \in Saves /\ y.fresh => account'[y.user].status \in ReadStatus(y.kind)
      BY <1>1, <1>2, <2>2, <3>1 DEF SameRequest
    <3> QED BY <3>2, <3>3, <3>4, <3>6, <3>7 DEF JobAccount
  <2> QED BY <2>1, <2>2
<1>3. ASSUME NEW q \in Requests, NEW r \in Requests, q # r
      PROVE  NotBoth(job'[q], job'[r])
  <2>1. CASE q = p \/ r = p
    BY <1>1, <2>1, IdleJob DEF NotBoth
  <2>2. CASE q # p /\ r # p
    BY <1>1, <2>2, <1>3 DEF JobsSound, SameRequest, NotBoth
  <2> QED BY <2>1, <2>2
<1>4. \A q \in Requests : JobShape(job'[q]) /\ JobTokens(job[q])' /\ JobLinks(job[q])' /\ JobAccount(job[q])'
  BY <1>2 DEF JobShape, JobTokens, JobLinks, JobAccount, Live, Stored, SessionOf, isUsableLink
<1> QED BY <1>1, <1>3, <1>4 DEF JobsSound, JobShape

\* A request begins or goes on: the tables stay.
LEMMA RequestGoesOn ==
  ASSUME AccountsInv, UNCHANGED <<tables, history>>, NEW p \in Requests, NEW x \in Job, job' = [job EXCEPT ![p] = x],
         JobShape(x), JobTokens(x), JobLinks(x), JobAccount(x), \A q \in Requests \ {p} : NotBoth(x, job[q]) /\ NotBoth(job[q], x)
  PROVE  AccountsInv'
<1>1. job' \in [Requests -> Job] /\ job'[p] = x /\ \A q \in Requests \ {p} : job'[q] = job[q]
  BY DEF AccountsInv, JobsSound
<1>2. \A q \in Requests : JobShape(job'[q])
  BY <1>1 DEF AccountsInv, JobsSound
<1>3. \A q \in Requests : JobTokens(job[q])'
  <2>1. \A q \in Requests : JobTokens(job[q])
    BY DEF AccountsInv, JobsSound
  <2> QED BY <1>1, <2>1 DEF JobTokens, tables, history, Live, Stored, SessionOf
<1>4. \A q \in Requests : JobLinks(job[q])'
  BY <1>1 DEF AccountsInv, JobsSound, JobLinks, tables, isUsableLink
<1>5. \A q \in Requests : JobAccount(job[q])'
  BY <1>1 DEF AccountsInv, JobsSound, JobAccount, tables
<1>6. \A q, r \in Requests : q # r => NotBoth(job'[q], job'[r])
  BY <1>1 DEF AccountsInv, JobsSound
<1>7. JobsSound'
  BY <1>1, <1>2, <1>3, <1>4, <1>5, <1>6 DEF JobsSound, JobShape, NotBoth
<1>8. TokensSound' /\ LinksSound' /\ PeopleSound' /\ BooksSound'
  BY DEF AccountsInv, tables, history, TokensSound, LinksSound, PeopleSound, BooksSound, SessionsEnd, OneLiveToken, EndedUnlessRaced,
     Live, Stored, SessionOf, isUsableLink, VerifiedIsProven
<1>9. AnonymizedLeavesNothing' /\ (offered \in Scenarios)'
  BY DEF AccountsInv, tables, history, AnonymizedLeavesNothing, TokensOf, Stored
<1> QED BY <1>7, <1>8, <1>9 DEF AccountsInv

\* A request that starts keeps the invariant.
LEMMA BeginKeeps ==
  ASSUME AccountsInv, NEW p \in Requests, NEW kind \in Kinds, NEW u \in Users, NEW item \in TokenIds \cup LinkIds \cup {None},
         NEW email \in Emails \cup {None}, NEW targets \in SUBSET (TokenIds \cup LinkIds), begin(p, kind, u, item, email, targets),
         kind # "idle", kind \in Saves => account[u].status \in ReadStatus(kind),
         kind \in {"changeEmail", "requestReset", "resendVerification"} => email \in Emails,
         \A x \in Job : x.kind = kind /\ x.item = item /\ x.user = u /\ x.targets = targets /\ ~x.saving => JobTokens(x) /\ JobLinks(x),
         kind \in {"refresh", "reuse"} => ~TokenLocked(p, item),
         kind = "resetPassword" => ~LinkLocked(p, "resetPassword", item),
         kind = "confirmEmail" => ~LinkLocked(p, "confirmEmail", item)
  PROVE  AccountsInv'
<1> DEFINE x == [Idle EXCEPT !.kind = kind, !.user = u, !.item = item, !.email = email, !.targets = targets]
<1>1. /\ x \in Job /\ x.kind = kind /\ x.user = u /\ x.item = item /\ x.email = email /\ x.targets = targets
      /\ ~x.saving /\ x.fresh
  BY DEF Idle, Job
<1>2. job' = [job EXCEPT ![p] = x] /\ UNCHANGED <<tables, history>>
  BY DEF begin
<1> HIDE DEF x
<1>3. JobShape(x) /\ JobTokens(x) /\ JobLinks(x) /\ JobAccount(x)
  BY <1>1 DEF JobShape, JobAccount
<1>4. \A q \in Requests \ {p} : NotBoth(x, job[q]) /\ NotBoth(job[q], x)
  BY <1>1 DEF NotBoth, TokenLocked, LinkLocked, Holds
<1> QED BY <1>1, <1>2, <1>3, <1>4, RequestGoesOn

\* What the use cases that only read an account begin with.
PlainKinds == {"signIn", "rectify", "suspend", "reactivate", "anonymize", "changePassword", "changeEmail", "requestReset", "resendVerification", "addAddress"}
\* So does one that starts from what it read of the account.
LEMMA PlainBegins ==
  ASSUME AccountsInv, NEW p \in Requests, NEW kind \in PlainKinds, NEW u \in Users, NEW item \in TokenIds \cup {None},
         NEW email \in Emails \cup {None}, NEW targets \in SUBSET LinkIds, begin(p, kind, u, item, email, targets),
         kind \in Saves => account[u].status \in ReadStatus(kind),
         kind \in {"changeEmail", "requestReset", "resendVerification"} => email \in Emails
  PROVE  AccountsInv'
<1>1. \A x \in Job : x.kind = kind /\ ~x.saving => JobTokens(x) /\ JobLinks(x)
  BY DEF JobTokens, JobLinks, PlainKinds
<1>2. kind \in Kinds /\ kind \notin {"idle", "refresh", "reuse", "resetPassword", "confirmEmail"}
  BY DEF PlainKinds, Kinds, Saves
<1> QED BY <1>1, <1>2, BeginKeeps

\* The requests that read an account to save it do.
LEMMA PlainKeep ==
  ASSUME AccountsInv, NEW p \in Requests, NEW u \in Users,
         \/ signIn(p, u) \/ rectify(p, u) \/ suspend(p, u) \/ reactivateCustomer(p, u) \/ anonymize(p, u)
         \/ requestPasswordReset(p, u) \/ resendEmailVerification(p, u)
         \/ \E e \in Emails : changeEmail(p, u, e)
         \/ \E s \in TokenIds : changePassword(p, u, s) \/ addAddress(p, u, s)
  PROVE  AccountsInv'
<1>1. account[u].status = "ACTIVE" => account[u].email \in Emails
  BY DEF AccountsInv, PeopleSound, Account
<1>2. CASE signIn(p, u)
  BY <1>2, PlainBegins DEF signIn, PlainKinds, Saves
<1>3. CASE rectify(p, u)
  BY <1>3, PlainBegins DEF rectify, PlainKinds, Saves, ReadStatus, canSignIn
<1>4. CASE suspend(p, u)
  BY <1>4, PlainBegins DEF suspend, PlainKinds, Saves, ReadStatus
<1>5. CASE reactivateCustomer(p, u)
  BY <1>5, PlainBegins DEF reactivateCustomer, PlainKinds, Saves, ReadStatus
<1>6. CASE anonymize(p, u)
  BY <1>6, PlainBegins DEF anonymize, PlainKinds, Saves, ReadStatus
<1>7. CASE requestPasswordReset(p, u)
  <2>1. PendingOf(resetLinks, u) \in SUBSET LinkIds
    BY DEF PendingOf, Stored, AccountsInv, LinksSound
  <2> QED BY <1>1, <1>7, <2>1, PlainBegins DEF requestPasswordReset, PlainKinds, Saves, canSignIn
<1>8. CASE resendEmailVerification(p, u)
  <2>1. PendingOf(verifyLinks, u) \in SUBSET LinkIds
    BY DEF PendingOf, Stored, AccountsInv, LinksSound
  <2> QED BY <1>1, <1>8, <2>1, PlainBegins DEF resendEmailVerification, PlainKinds, Saves, canSignIn
<1>9. CASE \E e \in Emails : changeEmail(p, u, e)
  BY <1>9, PlainBegins DEF changeEmail, PlainKinds, Saves, ReadStatus, canSignIn
<1>10. CASE \E s \in TokenIds : changePassword(p, u, s) \/ addAddress(p, u, s)
  <2>1. PICK s \in TokenIds : changePassword(p, u, s) \/ addAddress(p, u, s)
    BY <1>10
  <2>2. CASE changePassword(p, u, s)
    BY <2>2, PlainBegins DEF changePassword, PlainKinds, Saves, ReadStatus, canSignIn, ResolveSignedInAccount
  <2>3. CASE addAddress(p, u, s)
    BY <2>3, PlainBegins DEF addAddress, PlainKinds, Saves, ReadStatus, canSignIn, ResolveSignedInAccount
  <2> QED BY <2>1, <2>2, <2>3
<1> QED BY <1>2, <1>3, <1>4, <1>5, <1>6, <1>7, <1>8, <1>9, <1>10

\* A refresh that starts does.
LEMMA RefreshKeeps ==
  ASSUME AccountsInv, NEW p \in Requests, NEW t \in TokenIds, refreshSession(p, t)
  PROVE  AccountsInv'
<1> DEFINE u == refreshTokens[t].user
           others == {x \in TokensOf(u) : Live(x) /\ SessionOf(x) = SessionOf(t)}
<1>1. refreshTokens[t] # None /\ refreshTokens[t] \in TokenRow /\ u \in Users
  BY DEF refreshSession, Stored, AccountsInv, TokensSound, TokenRow
<1>2. others \in SUBSET TokenIds /\ {} \in SUBSET TokenIds
  BY DEF TokensOf, Stored, AccountsInv, TokensSound
<1>3. \A x \in TokenIds : Live(x) /\ SessionOf(x) = SessionOf(t) => x \in others
  BY <1>1 DEF TokensOf, Live, Stored, AccountsInv, TokensSound, SessionOf
<1>4. ~TokenLocked(p, t)
  BY DEF refreshSession
<1>5. CASE refreshTokenState(t) = "usable" /\ begin(p, "refresh", u, t, None, {})
  BY <1>5, <1>1, <1>2, <1>4, BeginKeeps DEF refreshTokenState, JobTokens, JobLinks, Kinds, Saves
<1>6. CASE begin(p, "reuse", u, t, None, others)
  <2>2. \A x \in Job : x.kind = "reuse" /\ x.item = t /\ x.user = u /\ x.targets = others /\ ~x.saving => JobTokens(x) /\ JobLinks(x)
    BY <1>1, <1>3 DEF JobTokens, JobLinks
  <2>3. "reuse" \in Kinds /\ "reuse" \notin Saves
    BY DEF Kinds, Saves
  <2> HIDE DEF others, u
  <2> QED BY <1>1, <1>2, <1>4, <1>6, <2>2, <2>3, BeginKeeps
<1> QED BY <1>5, <1>6 DEF refreshSession

\* Signing out does.
LEMMA SignOutKeeps ==
  ASSUME AccountsInv, NEW p \in Requests, NEW u \in Users, NEW t \in TokenIds, signOut(p, u, t)
  PROVE  AccountsInv'
<1> DEFINE others == {x \in TokensOf(u) : Live(x) /\ SessionOf(x) = SessionOf(t)}
           s == SessionOf(t)
<1>1. refreshTokens[t] # None /\ refreshTokens[t] \in TokenRow /\ refreshTokens[t].user = u
  BY DEF signOut, TokensOf, Stored, AccountsInv, TokensSound, TokenRow
<1>2. others \in SUBSET TokenIds
  BY DEF TokensOf, Stored, AccountsInv, TokensSound
<1>3. \A x \in TokenIds : Live(x) /\ SessionOf(x) = SessionOf(t) => x \in others
  BY <1>1 DEF TokensOf, Live, Stored, AccountsInv, TokensSound, SessionOf
<1>4. s \in TokenIds /\ s \in 1..lastToken
  BY <1>1 DEF SessionOf, TokenRow, AccountsInv, TokensSound, TokenIds
<1>5. \A x \in Job : x.kind = "signOut" /\ x.item = s /\ x.user = u /\ x.targets = others /\ ~x.saving => JobTokens(x) /\ JobLinks(x)
  BY <1>3, <1>4 DEF JobTokens, JobLinks
<1>6. "signOut" \in Kinds /\ "signOut" \notin Saves
  BY DEF Kinds, Saves
<1>7. begin(p, "signOut", u, s, None, others)
  BY DEF signOut
<1> HIDE DEF s, others
<1> QED BY <1>1, <1>2, <1>4, <1>5, <1>6, <1>7, BeginKeeps

\* A request that starts from a link does.
LEMMA LinkBegins ==
  ASSUME AccountsInv, NEW p \in Requests, NEW l \in LinkIds, resetPassword(p, l) \/ confirmEmail(p, l)
  PROVE  AccountsInv'
<1>1. CASE resetPassword(p, l)
  <2> DEFINE u == resetLinks[l].user
  <2>1. isUsableLink(resetLinks[l]) /\ u \in Users
    BY <1>1 DEF resetPassword, isUsableLink, AccountsInv, LinksSound, LinkRow
  <2>2. \A x \in Job : x.kind = "resetPassword" /\ x.item = l /\ x.user = u /\ ~x.saving => JobTokens(x) /\ JobLinks(x)
    BY <2>1 DEF JobTokens, JobLinks
  <2>3. "resetPassword" \in Kinds /\ account[u].status \in ReadStatus("resetPassword")
    BY <1>1 DEF Kinds, Saves, ReadStatus, resetPassword, canSignIn
  <2>4. begin(p, "resetPassword", u, l, None, {}) /\ ~LinkLocked(p, "resetPassword", l)
    BY <1>1 DEF resetPassword
  <2> HIDE DEF u
  <2> QED BY <2>1, <2>2, <2>3, <2>4, BeginKeeps
<1>2. CASE confirmEmail(p, l)
  <2> DEFINE u == verifyLinks[l].user
             e == verifyLinks[l].sentTo
  <2>1. isUsableLink(verifyLinks[l]) /\ u \in Users /\ e \in Emails /\ account[u].email = e
    BY <1>2 DEF confirmEmail, isUsableLink, AccountsInv, LinksSound, LinkRow
  <2>2. \A x \in Job : x.kind = "confirmEmail" /\ x.item = l /\ x.user = u /\ ~x.saving => JobTokens(x) /\ JobLinks(x)
    BY <2>1 DEF JobTokens, JobLinks
  <2>3. "confirmEmail" \in Kinds /\ account[u].status \in ReadStatus("confirmEmail")
    BY <1>2 DEF Kinds, Saves, ReadStatus, confirmEmail, canSignIn
  <2>4. begin(p, "confirmEmail", u, l, e, {}) /\ ~LinkLocked(p, "confirmEmail", l)
    BY <1>2 DEF confirmEmail
  <2> HIDE DEF u, e
  <2> QED BY <2>1, <2>2, <2>3, <2>4, BeginKeeps
<1> QED BY <1>1, <1>2

\* A request that ends without a change keeps the invariant.
LEMMA RequestDrops ==
  ASSUME AccountsInv, UNCHANGED <<tables, history>>, NEW p \in Requests, job' = done(p)
  PROVE  AccountsInv'
<1>1. Idle \in Job /\ JobShape(Idle) /\ JobTokens(Idle) /\ JobLinks(Idle) /\ JobAccount(Idle)
  BY IdleJob DEF JobShape, JobTokens, JobLinks, JobAccount, Saves
<1>2. \A q \in Requests \ {p} : NotBoth(Idle, job[q]) /\ NotBoth(job[q], Idle)
  BY IdleJob DEF NotBoth
<1>3. job' = [job EXCEPT ![p] = Idle]
  BY DEF done
<1> QED BY <1>1, <1>2, <1>3, RequestGoesOn

\* Who holds the row of an account.
LEMMA RowHolders ==
  ASSUME AccountsInv, NEW p \in Requests, NEW u, ~RowLocked(p, u), NEW q \in Requests \ {p}, job[q].saving
  PROVE  job[q].user # u
BY DEF RowLocked, AccountsInv, JobsSound, JobAccount

\* A request that got the row it locks keeps the invariant.
LEMMA SavingBegins ==
  ASSUME AccountsInv, UNCHANGED <<tables, history>>, NEW p \in Requests, NEW kind \in Saves, NEW x \in Job, JobShape(x), JobLinks(x),
         x.kind = kind, x.saving, x.fresh, account[x.user].status \in ReadStatus(kind), job' = [job EXCEPT ![p] = x], ~RowLocked(p, x.user),
         kind \in {"resetPassword", "suspend", "changePassword"} =>
           \A t \in TokensOf(x.user) : Live(t) /\ (kind = "changePassword" => SessionOf(t) # x.item) => t \in x.targets,
         kind = "anonymize" => TokensOf(x.user) \subseteq x.targets,
         kind = "resetPassword" \/ kind = "confirmEmail" => job[p].kind = kind /\ job[p].item = x.item
  PROVE  AccountsInv'
<1>1. refreshTokens \in [TokenIds -> TokenRow \cup {None}]
  BY DEF AccountsInv, TokensSound
<1>2. \A t \in TokenIds : refreshTokens[t] # None /\ refreshTokens[t].user = x.user => t \in TokensOf(x.user)
  BY <1>1 DEF TokensOf, Stored
<1>3. kind \notin {"refresh", "reuse", "signOut"}
  BY DEF Saves
<1>4. JobTokens(x)
  BY <1>1, LiveTokens, <1>2, <1>3 DEF JobTokens
<1>5. JobAccount(x)
  BY DEF JobAccount
<1>6. ASSUME NEW q \in Requests \ {p}
      PROVE  NotBoth(x, job[q]) /\ NotBoth(job[q], x)
  BY RowHolders, <1>3 DEF AccountsInv, JobsSound, NotBoth
<1> QED BY <1>4, <1>5, <1>6, RequestGoesOn

\* Saving over a newer version fails, and keeps the invariant either way.
LEMMA SaveKeeps ==
  ASSUME AccountsInv, NEW p \in Requests, save(p)
  PROVE  AccountsInv'
<1> DEFINE x == [job[p] EXCEPT !.saving = TRUE, !.targets = Targets(p)]
           kind == job[p].kind
<1>1. UNCHANGED <<tables, history>> /\ kind \in Saves /\ ~RowLocked(p, job[p].user)
  BY DEF save
<1>2. CASE job' = done(p)
  BY <1>1, <1>2, RequestDrops
<1>3. CASE job' = [job EXCEPT ![p].saving = TRUE, ![p].targets = Targets(p)] /\ Unchanged(p)
  <2>1. job[p] \in Job /\ JobShape(job[p]) /\ JobLinks(job[p]) /\ JobAccount(job[p])
    BY DEF AccountsInv, JobsSound
  <2>2. Targets(p) \in SUBSET (TokenIds \cup LinkIds)
    BY DEF TokensOf, Stored, AccountsInv, TokensSound, Targets
  <2>3. /\ x \in Job /\ x.saving /\ x.targets = Targets(p) /\ x.kind = kind /\ x.user = job[p].user /\ x.item = job[p].item
        /\ x.email = job[p].email /\ x.fresh = job[p].fresh
    BY <2>1, <2>2 DEF Job
  <2>4. job' = [job EXCEPT ![p] = x]
    BY <1>3 DEF AccountsInv, JobsSound
  <2>5. job[p].fresh
    BY <1>3 DEF Unchanged
  <2>6. account[job[p].user].status \in ReadStatus(kind)
    BY <1>1, <2>1, <2>5 DEF JobAccount
  <2>7. kind \in {"resetPassword", "suspend", "changePassword"} =>
           \A t \in TokensOf(job[p].user) : Live(t) /\ (kind = "changePassword" => SessionOf(t) # job[p].item) => t \in Targets(p)
    BY DEF Targets, Holds
  <2>8. kind = "anonymize" => TokensOf(job[p].user) \subseteq Targets(p)
    BY DEF Targets, Holds
  <2> HIDE DEF x
  <2>9. JobShape(x) /\ JobLinks(x)
    BY <2>1, <2>3 DEF JobShape, JobLinks
  <2> QED BY <1>1, <2>3, <2>4, <2>5, <2>6, <2>7, <2>8, <2>9, SavingBegins
<1> QED BY <1>2, <1>3 DEF save

\* The job that anonymizes who has been away keeps the invariant.
LEMMA InactiveKeeps ==
  ASSUME AccountsInv, NEW p \in Requests, NEW u \in Users, anonymizeInactive(p, u)
  PROVE  AccountsInv'
<1> DEFINE x == [Idle EXCEPT !.kind = "anonymize", !.user = u, !.saving = TRUE, !.targets = TokensOf(u)]
<1>1. TokensOf(u) \subseteq TokenIds
  BY DEF TokensOf, Stored, AccountsInv, TokensSound
<1>2. x \in Job /\ x.kind = "anonymize" /\ x.user = u /\ x.saving /\ x.fresh /\ x.targets = TokensOf(u)
  BY <1>1 DEF Idle, Job, Kinds, Saves
<1>3. job' = [job EXCEPT ![p] = x] /\ UNCHANGED <<tables, history>> /\ ~RowLocked(p, u) /\ account[u].status \in ReadStatus("anonymize")
  BY DEF anonymizeInactive, ReadStatus
<1>4. "anonymize" \in Saves
  BY DEF Saves
<1> HIDE DEF x
<1>5. JobShape(x) /\ JobLinks(x)
  BY <1>2 DEF JobShape, JobLinks
<1> QED BY <1>2, <1>3, <1>4, <1>5, SavingBegins

\* A request the database aborts leaves no trace.
LEMMA AbortKeeps ==
  ASSUME AccountsInv, NEW p \in Requests, NEW q \in Requests, abortDeadlocked(p, q)
  PROVE  AccountsInv'
BY RequestDrops DEF abortDeadlocked

-----------------------------------------------------------------------------
(* Accounts: the actions that write.                                       *)

\* A change of the activity of an account touches nothing else of it.
LEMMA ActivityOnly ==
  ASSUME PeopleSound, NEW u \in Users, NEW b \in BOOLEAN, account' = [account EXCEPT ![u].active = b]
  PROVE  /\ account' \in [Users -> Account]
         /\ \A v \in Users : account'[v].status = account[v].status /\ account'[v].email = account[v].email
                             /\ account'[v].verified = account[v].verified
<1> DEFINE row == [account[u] EXCEPT !.active = b]
<1>1. account[u] \in Account
  BY DEF PeopleSound
<1>2. row \in Account /\ row.status = account[u].status /\ row.email = account[u].email /\ row.verified = account[u].verified
  BY <1>1 DEF Account
<1>3. account' = [account EXCEPT ![u] = row]
  OBVIOUS
<1> HIDE DEF row
<1> QED BY <1>2, <1>3 DEF PeopleSound

\* Steps that leave status, address and links leave who was proven and who was anonymized.
LEMMA SamePeople ==
  ASSUME PeopleSound, LinksSound, UNCHANGED <<resetLinks, verifyLinks, proven, crossed>>, late' \subseteq Users,
         account' \in [Users -> Account],
         \A v \in Users : account'[v].status = account[v].status /\ account'[v].email = account[v].email
                             /\ account'[v].verified = account[v].verified
  PROVE  PeopleSound' /\ LinksSound'
<1>1. PeopleSound'
  BY DEF PeopleSound, VerifiedIsProven
<1>2. \A l \in LinkIds : isUsableLink(resetLinks[l]) => resetLinks[l].user \in Users
  BY DEF LinksSound, isUsableLink, LinkRow
<1>3. LinksSound'
  BY <1>2 DEF LinksSound, isUsableLink
<1> QED BY <1>1, <1>3

\* What is gone of the anonymized.
Absent(u) ==
  /\ \A t \in TokenIds : refreshTokens[t] # None => refreshTokens[t].user # u
  /\ book[u].saved = {}
  /\ \A l \in LinkIds : (resetLinks[l] # None => resetLinks[l].user # u) /\ (verifyLinks[l] # None => verifyLinks[l].user # u)
\* Nothing is left of an anonymized account when it is absent from each table.
LEMMA AbsentNow == ASSUME TokensSound PROVE AnonymizedLeavesNothing <=> \A u \in Users : account[u].status = "ANONYMIZED" /\ u \notin late => Absent(u)
BY DEF TokensSound, AnonymizedLeavesNothing, TokensOf, Stored, Absent
\* So it is after a step.
LEMMA AbsentNext == ASSUME TokensSound' PROVE AnonymizedLeavesNothing' <=> \A u \in Users : account'[u].status = "ANONYMIZED" /\ u \notin late' => Absent(u)'
BY DEF TokensSound, AnonymizedLeavesNothing, TokensOf, Stored, Absent

\* A sign-in that ends keeps the invariant.
LEMMA SignInEndKeeps ==
  ASSUME AccountsAssumption, AccountsInv, NEW p \in Requests, signInEnd(p)
  PROVE  AccountsInv'
<1> DEFINE u == job[p].user
           n == lastToken + 1
<1>0. PICK J : J = job
  OBVIOUS
<1>1. u \in Users /\ ~RowLocked(p, u) /\ n \in TokenIds
  BY DEF signInEnd, Holds, AccountsInv, JobsSound, JobShape
<1>2. /\ refreshTokens' = [refreshTokens EXCEPT ![n] = newRefreshToken(u, n)] /\ lastToken' = n
      /\ account' = [account EXCEPT ![u].active = TRUE]
      /\ late' = late \cup (IF account[u].status = "ANONYMIZED" THEN {u} ELSE {})
      /\ job' = done(p) /\ UNCHANGED <<book, resetLinks, verifyLinks, proven, crossed, offered>>
      /\ raced \subseteq raced'
  BY DEF signInEnd
<1>3. \/ ended' = ended /\ raced' = raced
      \/ ended' = ended \cup {n} /\ raced' = raced \cup {n}
  BY DEF signInEnd
<1>4. /\ account' \in [Users -> Account]
      /\ \A v \in Users : account'[v].status = account[v].status /\ account'[v].email = account[v].email
                             /\ account'[v].verified = account[v].verified
  BY <1>1, <1>2, ActivityOnly DEF AccountsInv
<1>5. late \subseteq late' /\ late' \subseteq Users
  BY <1>1, <1>2 DEF AccountsInv, PeopleSound
<1> HIDE DEF u
<1>6. TokensSound'
  BY <1>1, <1>2, <1>3, TokenOpened DEF AccountsInv
<1>7. PeopleSound' /\ LinksSound'
  BY <1>2, <1>4, <1>5, SamePeople DEF AccountsInv
<1>8. ASSUME NEW q \in Requests \ {p}
      PROVE  JobTokens(J[q])' /\ JobLinks(J[q])' /\ (J[q].kind \in Saves /\ J[q].fresh => account'[J[q].user].status \in ReadStatus(J[q].kind))
  <2>1. J[q] \in Job /\ JobShape(J[q]) /\ JobTokens(J[q]) /\ JobLinks(J[q]) /\ JobAccount(J[q])
    BY <1>0 DEF AccountsInv, JobsSound
  <2>2. J[q].saving => J[q].user # u
    BY <1>0, <1>1, RowHolders
  <2>3. JobTokens(J[q])'
    BY <1>1, <1>2, <1>5, <2>1, <2>2, JobOpened DEF AccountsInv
  <2>4. J[q].kind # "idle" => J[q].user \in Users
    BY <2>1 DEF JobShape
  <2>5. JobLinks(J[q])'
    BY <1>2, <1>4, <2>1, <2>4, JobLinksStay
  <2>6. J[q].kind \in Saves => J[q].user \in Users
    BY <2>4 DEF Saves
  <2> QED BY <1>4, <2>1, <2>3, <2>5, <2>6 DEF JobAccount
<1>9. JobsSound'
  BY <1>8, <1>0, <1>2, RequestEnds DEF AccountsInv
<1>10. AnonymizedLeavesNothing'
  <2>1. ASSUME NEW v \in Users, account'[v].status = "ANONYMIZED", v \notin late'
        PROVE  Absent(v)'
    <3>1. v # u /\ account[v].status = "ANONYMIZED" /\ v \notin late
      BY <1>1, <1>2, <1>4, <1>5, <2>1
    <3>2. Absent(v)
      BY <3>1, AbsentNow DEF AccountsInv
    <3>3. refreshTokens'[n].user = u /\ \A t \in TokenIds \ {n} : refreshTokens'[t] = refreshTokens[t]
      BY <1>1, <1>2 DEF newRefreshToken, AccountsInv, TokensSound
    <3> QED BY <1>2, <3>1, <3>2, <3>3 DEF Absent
  <2> QED BY <1>6, <2>1, AbsentNext
<1>11. BooksSound' /\ offered' \in Scenarios
  BY <1>2 DEF AccountsInv, BooksSound
<1> QED BY <1>6, <1>7, <1>9, <1>10, <1>11 DEF AccountsInv

\* A rotation that ends does.
LEMMA RotateKeeps ==
  ASSUME AccountsAssumption, AccountsInv, NEW p \in Requests, rotate(p)
  PROVE  AccountsInv'
<1> DEFINE u == job[p].user
           t == job[p].item
           n == lastToken + 1
           missing == {q \in Requests : job[q].kind \in Saves \cup {"reuse", "signOut"} /\ t \in job[q].targets}
<1>0. PICK J : J = job
  OBVIOUS
<1>1. /\ u \in Users /\ t \in TokenIds /\ refreshTokens[t] # None /\ refreshTokens[t].user = u /\ ~refreshTokens[t].revoked
      /\ refreshTokens[t].session \in TokenIds
  BY DEF rotate, Holds, AccountsInv, JobsSound, JobShape, JobTokens, TokensSound, TokenRow
<1>2. Renewed(t, u) /\ n \in TokenIds
  BY <1>1 DEF rotate, Renewed
<1>3. /\ account' = [account EXCEPT ![u].active = TRUE]
      /\ raced' = raced \cup (IF missing # {} THEN {refreshTokens[t].session} ELSE {})
      /\ late' = late \cup (IF \E q \in missing : Holds(q, "anonymize") THEN {u} ELSE {})
      /\ job' = done(p) /\ UNCHANGED <<book, resetLinks, verifyLinks, ended, proven, crossed, offered>>
  BY DEF rotate, SessionOf
<1>4. /\ account' \in [Users -> Account]
      /\ \A v \in Users : account'[v].status = account[v].status /\ account'[v].email = account[v].email
                             /\ account'[v].verified = account[v].verified
  BY <1>1, <1>3, ActivityOnly DEF AccountsInv
<1>5. late \subseteq late' /\ late' \subseteq Users /\ raced \subseteq raced' /\ raced' \subseteq TokenIds
  BY <1>1, <1>3 DEF AccountsInv, PeopleSound, TokensSound
<1>6. \A q \in Requests : job[q].kind \in Saves \cup {"reuse", "signOut"} /\ t \in job[q].targets =>
        refreshTokens[t].session \in raced' /\ (job[q].kind = "anonymize" => u \in late')
  BY <1>3 DEF Holds
<1>7. job[p].kind = "refresh"
  BY DEF rotate, Holds
<1>8. TokensSound'
  BY <1>2, <1>3, <1>5, TokensRenewed DEF AccountsInv
<1> HIDE DEF u, t, missing
<1>9. PeopleSound' /\ LinksSound'
  BY <1>3, <1>4, <1>5, SamePeople DEF AccountsInv
<1>10. ASSUME NEW q \in Requests \ {p}
      PROVE  JobTokens(J[q])' /\ JobLinks(J[q])' /\ (J[q].kind \in Saves /\ J[q].fresh => account'[J[q].user].status \in ReadStatus(J[q].kind))
  <2>1. J[q] \in Job /\ JobShape(J[q]) /\ JobTokens(J[q]) /\ JobLinks(J[q]) /\ JobAccount(J[q]) /\ NotBoth(J[p], J[q])
    BY <1>0 DEF AccountsInv, JobsSound
  <2>2. J[q].kind \in {"refresh", "reuse"} => J[q].item # t
    BY <1>0, <1>7, <2>1 DEF NotBoth, t
  <2>3. J[q].kind \in Saves \cup {"reuse", "signOut"} /\ t \in J[q].targets => refreshTokens[t].session \in raced' /\ (J[q].kind = "anonymize" => u \in late')
    BY <1>0, <1>6
  <2>4. JobTokens(J[q])'
    BY <1>2, <1>5, <2>1, <2>2, <2>3, JobRenewed DEF AccountsInv
  <2>5. J[q].kind # "idle" => J[q].user \in Users
    BY <2>1 DEF JobShape
  <2>6. JobLinks(J[q])'
    BY <1>3, <1>4, <2>1, <2>5, JobLinksStay
  <2>7. J[q].kind \in Saves => J[q].user \in Users
    BY <2>5 DEF Saves
  <2> QED BY <1>4, <2>1, <2>4, <2>6, <2>7 DEF JobAccount
<1>11. JobsSound'
  BY <1>10, <1>0, <1>3, RequestEnds DEF AccountsInv
<1>12. AnonymizedLeavesNothing'
  <2>1. ASSUME NEW v \in Users, account'[v].status = "ANONYMIZED", v \notin late'
        PROVE  Absent(v)'
    <3>1. account[v].status = "ANONYMIZED" /\ v \notin late
      BY <1>4, <1>5, <2>1
    <3>2. Absent(v)
      BY <3>1, AbsentNow DEF AccountsInv
    <3>3. v # u
      BY <1>1, <3>2 DEF Absent
    <3>4. refreshTokens'[n].user = u /\ refreshTokens'[t].user = u /\ \A x \in TokenIds \ {t, n} : refreshTokens'[x] = refreshTokens[x]
      BY <1>2, RenewedRows DEF AccountsInv
    <3> QED BY <1>3, <3>2, <3>3, <3>4 DEF Absent
  <2> QED BY <1>8, <2>1, AbsentNext
<1>13. BooksSound' /\ offered' \in Scenarios
  BY <1>3 DEF AccountsInv, BooksSound
<1> QED BY <1>8, <1>9, <1>11, <1>12, <1>13 DEF AccountsInv

\* A statement that revokes or deletes the tokens it saw puts an end to their sessions.
LEMMA TargetsEnd ==
  ASSUME AccountsInv, NEW p \in Requests, NEW J, J = job, NEW targets, NEW E, Shrunk, raced' = raced, late \subseteq late',
         \A t \in TokenIds : /\ t \in targets /\ refreshTokens'[t] # None => refreshTokens'[t].revoked
                             /\ t \notin targets => refreshTokens'[t] = refreshTokens[t],
         \A t \in targets : ~TokenLocked(p, t),
         ended' = ended \cup E, E \subseteq 1..lastToken,
         \A t \in TokenIds : Live(t) /\ SessionOf(t) \in E => t \in targets \/ SessionOf(t) \in raced
  PROVE  TokensSound' /\ \A q \in Requests \ {p} : JobTokens(J[q])'
<1>1. \A t \in TokenIds : refreshTokens'[t] # None /\ ~refreshTokens'[t].revoked =>
        t \notin targets /\ Live(t) /\ refreshTokens'[t] = refreshTokens[t]
  BY LiveTokens DEF AccountsInv, TokensSound
<1>2. \A t \in TokenIds : refreshTokens'[t] # None /\ ~refreshTokens'[t].revoked /\ refreshTokens[t].session \in ended' => refreshTokens[t].session \in raced
  BY <1>1 DEF AccountsInv, TokensSound, SessionsEnd, EndedUnlessRaced, SessionOf
<1>3. ended \subseteq ended' /\ ended' \subseteq 1..lastToken
  BY DEF AccountsInv, TokensSound
<1>4. TokensSound'
  BY <1>2, <1>3, TokensShrink DEF AccountsInv
<1>5. ASSUME NEW q \in Requests \ {p}
      PROVE  JobTokens(J[q])'
  BY JobShrinks DEF AccountsInv, JobsSound, TokenLocked, JobTokens
<1> QED BY <1>4, <1>5

\* Nothing but tokens and sessions changes.
LEMMA AbsentAfter ==
  ASSUME AccountsInv, Shrunk, TokensSound', UNCHANGED <<resetLinks, verifyLinks, late>>,
         \A u \in Users : book'[u].saved \subseteq book[u].saved,
         \A u \in Users : account'[u].status = "ANONYMIZED" => account[u].status = "ANONYMIZED"
  PROVE  AnonymizedLeavesNothing'
<1>1. ASSUME NEW v \in Users, account'[v].status = "ANONYMIZED", v \notin late'
      PROVE  Absent(v)'
  BY <1>1, AbsentNow DEF AccountsInv, Absent, Shrunk
<1> QED BY <1>1, AbsentNext

\* Revoking a session does.
LEMMA RevokeSessionKeeps ==
  ASSUME AccountsInv, NEW p \in Requests, revokeSession(p)
  PROVE  AccountsInv'
<1> DEFINE s == IF Holds(p, "reuse") THEN SessionOf(job[p].item) ELSE job[p].item
           targets == job[p].targets
<1>0. PICK J : J = job
  OBVIOUS
<1>1. /\ job[p].kind \in {"reuse", "signOut"} /\ \A x \in targets : ~TokenLocked(p, x)
      /\ refreshTokens' = revokeLive(targets) /\ ended' = ended \cup {s} /\ job' = done(p)
      /\ UNCHANGED <<account, book, lastToken, resetLinks, verifyLinks, raced, late, proven, crossed, offered>>
  BY DEF revokeSession
<1>2. JobTokens(job[p])
  BY DEF AccountsInv, JobsSound
<1>3. s \in 1..lastToken
  <2>1. CASE job[p].kind = "reuse"
    <3>1. s = SessionOf(job[p].item) /\ job[p].item \in TokenIds /\ refreshTokens[job[p].item] # None
      BY <1>2, <2>1 DEF Holds, JobTokens
    <3>2. s \in TokenIds /\ s <= lastToken
      BY <3>1 DEF AccountsInv, TokensSound, TokenRow, SessionOf
    <3> QED BY <3>2 DEF TokenIds, AccountsInv, TokensSound
  <2>2. CASE job[p].kind = "signOut"
    BY <1>2, <2>2 DEF Holds, JobTokens
  <2> QED BY <1>1, <2>1, <2>2
<1>4. \A t \in TokenIds : Live(t) /\ SessionOf(t) = s => t \in targets \/ SessionOf(t) \in raced
  BY <1>1, <1>2 DEF JobTokens, Holds
<1> HIDE DEF s, targets
<1>5. /\ Shrunk
      /\ \A t \in TokenIds : /\ t \in targets /\ refreshTokens'[t] # None => refreshTokens'[t].revoked
                             /\ t \notin targets => refreshTokens'[t] = refreshTokens[t]
  BY <1>1, RevokedShrink DEF AccountsInv
<1>6. TokensSound' /\ \A q \in Requests \ {p} : JobTokens(J[q])'
  <2>1. \A t \in TokenIds : Live(t) /\ SessionOf(t) \in {s} => t \in targets \/ SessionOf(t) \in raced
    BY <1>4
  <2>2. {s} \subseteq 1..lastToken
    BY <1>3
  <2> QED BY <1>0, <1>1, <1>5, <2>1, <2>2, TargetsEnd
<1>7. JobsSound'
  <2>1. ASSUME NEW q \in Requests \ {p}
        PROVE  JobLinks(J[q])' /\ (J[q].kind \in Saves /\ J[q].fresh => account'[J[q].user].status \in ReadStatus(J[q].kind))
    BY <1>0, <1>1, JobLinksStay DEF AccountsInv, JobsSound, JobAccount
  <2>2. \A q \in Requests \ {p} : JobTokens(J[q])' /\ JobLinks(J[q])'
    BY <1>6, <2>1
  <2>3. \A q \in Requests \ {p} : J[q].kind \in Saves /\ J[q].fresh /\ (J[q].user = s => job' = done(p)) => account'[J[q].user].status \in ReadStatus(J[q].kind)
    BY <2>1
  <2> QED BY <1>0, <1>1, <2>2, <2>3, RequestEnds DEF AccountsInv
<1>8. PeopleSound' /\ LinksSound'
  BY <1>1, SamePeople DEF AccountsInv, PeopleSound
<1>9. AnonymizedLeavesNothing'
  BY <1>1, <1>5, <1>6, AbsentAfter
<1>10. BooksSound' /\ offered' \in Scenarios
  BY <1>1 DEF AccountsInv, BooksSound
<1> QED BY <1>6, <1>7, <1>8, <1>9, <1>10 DEF AccountsInv

-----------------------------------------------------------------------------
(* Accounts: the commits.                                                  *)

\* Who commits had the account as it read it, and nobody else saves it.
LEMMA Committing ==
  ASSUME AccountsInv, NEW p \in Requests, NEW kind \in Saves, Commits(p, kind)
  PROVE  /\ job[p].kind = kind /\ job[p].saving /\ job[p].user \in Users /\ account[job[p].user].status \in ReadStatus(kind)
         /\ \A x \in job[p].targets : ~TokenLocked(p, x)
         /\ JobTokens(job[p]) /\ JobLinks(job[p]) /\ JobShape(job[p])
         /\ account[job[p].user].email \in Emails
<1>1. job[p].kind = kind /\ job[p].saving /\ JobShape(job[p]) /\ JobAccount(job[p]) /\ JobTokens(job[p]) /\ JobLinks(job[p])
      /\ \A x \in job[p].targets : ~TokenLocked(p, x)
  BY DEF Commits, Holds, AccountsInv, JobsSound
<1>2. kind # "idle"
  BY DEF Saves
<1>3. job[p].user \in Users /\ account[job[p].user].status \in ReadStatus(kind)
  BY <1>1, <1>2 DEF JobShape, JobAccount
<1>4. account[job[p].user].email \in Emails
  BY <1>3 DEF AccountsInv, PeopleSound, Account, ReadStatus
<1> QED BY <1>1, <1>3, <1>4

\* A commit: what is left to show once it is known what it writes.
LEMMA CommitKeeps ==
  ASSUME AccountsInv, NEW p \in Requests, NEW J, J = job, NEW u, u = job[p].user, job[p].saving,
         job' \in {saved(p, u), ends(p, u)}, offered' = offered,
         TokensSound', LinksSound', PeopleSound', BooksSound', AnonymizedLeavesNothing',
         \A q \in Requests \ {p} : JobTokens(J[q])' /\ JobLinks(J[q])',
         \A v \in Users \ {u} : account'[v].status = account[v].status
  PROVE  AccountsInv'
<1>1. ASSUME NEW q \in Requests \ {p}, J[q].kind \in Saves, J[q].fresh, J[q].user = u => job' = done(p)
      PROVE  account'[J[q].user].status \in ReadStatus(J[q].kind)
  <2>1. JobShape(J[q]) /\ JobAccount(J[q])
    BY DEF AccountsInv, JobsSound
  <2>2. J[q].user \in Users /\ account[J[q].user].status \in ReadStatus(J[q].kind)
    BY <1>1, <2>1 DEF JobShape, JobAccount, Saves
  <2>3. CASE J[q].user # u
    BY <2>2, <2>3
  <2>4. CASE J[q].user = u
    \* Then job' = done(p) leaves the other request fresh, which saved and ends do not.
    <3>1. job' = done(p)
      BY <1>1, <2>4
    <3>2. job'[q] = J[q]
      BY <3>1, RequestsAfter DEF AccountsInv
    <3>3. job'[q] = [J[q] EXCEPT !.fresh = FALSE] \/ job'[q] = [J[q] EXCEPT !.fresh = FALSE, !.outdated = TRUE]
      BY <2>4 DEF saved, ends
    <3>4. J[q] \in Job
      BY <2>1 DEF JobShape
    <3>5. ~job'[q].fresh
      BY <3>3, <3>4 DEF Job
    <3> QED BY <1>1, <3>2, <3>5
  <2> QED BY <2>3, <2>4
<1>2. JobsSound'
  BY <1>1, RequestEnds DEF AccountsInv
<1> QED BY <1>2 DEF AccountsInv

\* revokeAllOf: every session of the customer ends, but the one that is kept.
LEMMA RevokesAll ==
  ASSUME AccountsInv, NEW p \in Requests, NEW J, J = job, NEW kind \in {"changePassword", "resetPassword", "suspend"}, Commits(p, kind),
         NEW except, kind = "changePassword" => except = job[p].item, revokeAllOf(p, except)
  PROVE  /\ TokensSound' /\ Shrunk
         /\ \A q \in Requests \ {p} : JobTokens(J[q])'
         /\ job' = ends(p, job[p].user) /\ UNCHANGED <<book, lastToken, verifyLinks, raced, late, offered>>
<1> DEFINE u == job[p].user
           targets == job[p].targets
           E == {SessionOf(t) : t \in TokensOf(u)} \ {except}
<1>0. kind \in Saves
  BY DEF Saves
<1>1. job[p].kind = kind /\ job[p].saving /\ JobTokens(job[p]) /\ \A x \in targets : ~TokenLocked(p, x)
  BY <1>0, Committing
<1>2. refreshTokens' = revokeLive(targets) /\ ended' = ended \cup E /\ job' = ends(p, u) /\ UNCHANGED <<book, lastToken, verifyLinks, raced, late, offered>>
  BY DEF revokeAllOf
<1>3. ASSUME NEW t \in TokensOf(u)
      PROVE  t \in TokenIds /\ refreshTokens[t] # None /\ refreshTokens[t].user = u /\ SessionOf(t) \in 1..lastToken
  <2>1. t \in TokenIds /\ refreshTokens[t] # None /\ refreshTokens[t].user = u
    BY <1>3 DEF TokensOf, Stored, AccountsInv, TokensSound
  <2>2. SessionOf(t) \in TokenIds /\ SessionOf(t) <= lastToken
    BY <2>1 DEF AccountsInv, TokensSound, TokenRow, SessionOf
  <2> QED BY <2>1, <2>2 DEF TokenIds, AccountsInv, TokensSound
<1>4. E \subseteq 1..lastToken
  BY <1>3
<1>5. ASSUME NEW t \in TokenIds, Live(t), SessionOf(t) \in E
      PROVE  t \in targets \/ SessionOf(t) \in raced
  BY <1>5, LiveTokens, <1>3, <1>1 DEF AccountsInv, TokensSound, JobTokens
<1> HIDE DEF u, targets, E
<1>6. /\ Shrunk
      /\ \A t \in TokenIds : /\ t \in targets /\ refreshTokens'[t] # None => refreshTokens'[t].revoked
                             /\ t \notin targets => refreshTokens'[t] = refreshTokens[t]
  BY <1>2, RevokedShrink DEF AccountsInv
<1>7. TokensSound' /\ \A q \in Requests \ {p} : JobTokens(J[q])'
  BY <1>1, <1>2, <1>4, <1>5, <1>6, TargetsEnd
<1> QED BY <1>2, <1>6, <1>7 DEF u

\* An account in use changes its status to another in use.
LEMMA StatusOnly ==
  ASSUME PeopleSound, LinksSound, NEW u \in Users, NEW s \in {"ACTIVE", "SUSPENDED"}, account[u].status \in {"ACTIVE", "SUSPENDED"},
         account' = [account EXCEPT ![u].status = s], UNCHANGED <<resetLinks, verifyLinks, late, proven, crossed>>
  PROVE  /\ PeopleSound' /\ LinksSound'
         /\ account'[u].status = s /\ \A v \in Users \ {u} : account'[v] = account[v]
         /\ \A v \in Users : account'[v].email = account[v].email
<1> DEFINE row == [account[u] EXCEPT !.status = s]
<1>1. account[u] \in Account /\ account \in [Users -> Account]
  BY DEF PeopleSound
<1>2. row \in Account /\ row.status = s /\ row.email = account[u].email /\ row.verified = account[u].verified
  BY <1>1 DEF Account, Statuses
<1>3. account' = [account EXCEPT ![u] = row]
  OBVIOUS
<1> HIDE DEF row
<1>4. /\ account' \in [Users -> Account] /\ account'[u].status = s /\ account'[u].email = account[u].email /\ account'[u].verified = account[u].verified
      /\ \A v \in Users \ {u} : account'[v] = account[v]
  BY <1>1, <1>2, <1>3
<1>5. \A v \in Users : account'[v].email = account[v].email /\ account'[v].verified = account[v].verified
  BY <1>4
<1>6. PeopleSound'
  BY <1>4, <1>5 DEF PeopleSound, VerifiedIsProven
<1>7. \A l \in LinkIds : isUsableLink(resetLinks[l]) => resetLinks[l].user \in Users
  BY DEF LinksSound, isUsableLink, LinkRow
<1>8. LinksSound'
  BY <1>5, <1>7 DEF LinksSound, isUsableLink
<1> QED BY <1>4, <1>5, <1>6, <1>8

\* The links of the others stay where no link changed.
LEMMA LinksOfOthers ==
  ASSUME AccountsInv, NEW p \in Requests, NEW J, J = job, UNCHANGED <<resetLinks, verifyLinks>>,
         \A v \in Users : account'[v].email = account[v].email
  PROVE  \A q \in Requests \ {p} : JobLinks(J[q])'
<1>1. ASSUME NEW q \in Requests \ {p}
      PROVE  JobLinks(J[q])'
  BY JobLinksStay DEF AccountsInv, JobsSound, JobShape
<1> QED BY <1>1

\* A changed password ends the other sessions, and keeps the invariant.
LEMMA PasswordKeeps ==
  ASSUME AccountsInv, NEW p \in Requests, commitChangePassword(p)
  PROVE  AccountsInv'
<1>0. PICK J : J = job
  OBVIOUS
<1>1. Commits(p, "changePassword") /\ revokeAllOf(p, job[p].item) /\ UNCHANGED <<account, resetLinks, proven, crossed>>
  BY DEF commitChangePassword
<1>2. /\ TokensSound' /\ Shrunk
      /\ \A q \in Requests \ {p} : JobTokens(J[q])'
      /\ job' = ends(p, job[p].user) /\ UNCHANGED <<book, lastToken, verifyLinks, raced, late, offered>>
  BY <1>0, <1>1, RevokesAll
<1>3. \A q \in Requests \ {p} : JobLinks(J[q])'
  BY <1>0, <1>1, <1>2, LinksOfOthers
<1>4. PeopleSound' /\ LinksSound'
  BY <1>1, <1>2, SamePeople DEF AccountsInv, PeopleSound
<1>5. AnonymizedLeavesNothing'
  BY <1>1, <1>2, AbsentAfter
<1>6. BooksSound'
  BY <1>2 DEF AccountsInv, BooksSound
<1>7. job[p].saving
  BY <1>1 DEF Commits
<1> QED BY <1>0, <1>1, <1>2, <1>3, <1>4, <1>5, <1>6, <1>7, CommitKeeps

\* A suspension ends the sessions, and keeps the invariant.
LEMMA SuspendKeeps ==
  ASSUME AccountsInv, NEW p \in Requests, commitSuspend(p)
  PROVE  AccountsInv'
<1> DEFINE u == job[p].user
<1>0. PICK J : J = job
  OBVIOUS
<1>1. Commits(p, "suspend") /\ revokeAllOf(p, None) /\ account' = [account EXCEPT ![u].status = "SUSPENDED"] /\ UNCHANGED <<resetLinks, proven, crossed>>
  BY DEF commitSuspend
<1>2. /\ TokensSound' /\ Shrunk
      /\ \A q \in Requests \ {p} : JobTokens(J[q])'
      /\ job' = ends(p, u) /\ UNCHANGED <<book, lastToken, verifyLinks, raced, late, offered>>
  BY <1>0, <1>1, RevokesAll
<1>3. "suspend" \in Saves
  BY DEF Saves
<1>4. u \in Users /\ account[u].status = "ACTIVE" /\ job[p].saving
  BY <1>1, <1>3, Committing DEF ReadStatus
<1> HIDE DEF u
<1>5. /\ PeopleSound' /\ LinksSound'
      /\ account'[u].status = "SUSPENDED" /\ \A v \in Users \ {u} : account'[v] = account[v]
      /\ \A v \in Users : account'[v].email = account[v].email
  BY <1>1, <1>2, <1>4, StatusOnly DEF AccountsInv
<1>6. \A q \in Requests \ {p} : JobLinks(J[q])'
  BY <1>0, <1>1, <1>2, <1>5, LinksOfOthers
<1>7. AnonymizedLeavesNothing'
  BY <1>5, <1>1, <1>2, AbsentAfter
<1>8. BooksSound'
  BY <1>2 DEF AccountsInv, BooksSound
<1> QED BY <1>0, <1>1, <1>2, <1>4, <1>5, <1>6, <1>7, <1>8, CommitKeeps DEF u

\* Saves that leave every row but that of the account: the tokens stay as they are.
LEMMA TokensStay ==
  ASSUME AccountsInv, NEW p \in Requests, NEW J, J = job, UNCHANGED <<refreshTokens, lastToken, ended, raced>>, late \subseteq late'
  PROVE  TokensSound' /\ Shrunk /\ \A q \in Requests \ {p} : JobTokens(J[q])'
<1>1. TokensSound'
  BY DEF AccountsInv, TokensSound, SessionOf, SessionsEnd, OneLiveToken, EndedUnlessRaced, Live, Stored
<1>2. Shrunk
  BY DEF Shrunk, AccountsInv, TokensSound
<1>3. ASSUME NEW q \in Requests \ {p}
      PROVE  JobTokens(J[q])'
  BY <1>2, JobShrinks DEF AccountsInv, JobsSound, JobTokens
<1> QED BY <1>1, <1>2, <1>3

\* Reactivating and rectifying an account do.
LEMMA ReactivateKeeps ==
  ASSUME AccountsInv, NEW p \in Requests, commitReactivate(p) \/ commitRectify(p)
  PROVE  AccountsInv'
<1> DEFINE u == job[p].user
<1>0. PICK J : J = job
  OBVIOUS
<1>1. UNCHANGED <<book, refreshTokens, lastToken, resetLinks, verifyLinks, history>> /\ job' = saved(p, u) /\ job[p].saving
  BY DEF commitReactivate, commitRectify, tables, Commits
<1>2. UNCHANGED <<ended, raced, late, proven, crossed, offered>>
  BY <1>1 DEF history
<1>3. TokensSound' /\ Shrunk /\ \A q \in Requests \ {p} : JobTokens(J[q])'
  BY <1>0, <1>1, <1>2, TokensStay
<1>4. /\ PeopleSound' /\ LinksSound'
      /\ \A v \in Users \ {u} : account'[v] = account[v]
      /\ \A v \in Users : account'[v].email = account[v].email /\ (account'[v].status = "ANONYMIZED" => account[v].status = "ANONYMIZED")
  <2>1. CASE commitReactivate(p)
    <3>1. Commits(p, "reactivate") /\ account' = [account EXCEPT ![u].status = "ACTIVE"] /\ "reactivate" \in Saves
      BY <2>1 DEF commitReactivate, Saves
    <3>2. u \in Users /\ account[u].status = "SUSPENDED"
      BY <3>1, Committing DEF ReadStatus
    <3> HIDE DEF u
    <3> QED BY <1>1, <1>2, <3>1, <3>2, StatusOnly DEF AccountsInv
  <2>2. CASE commitRectify(p)
    BY <2>2, <1>1, <1>2, SamePeople DEF commitRectify, tables, AccountsInv, PeopleSound
  <2> QED BY <2>1, <2>2
<1> HIDE DEF u
<1>5. \A q \in Requests \ {p} : JobLinks(J[q])'
  BY <1>0, <1>1, <1>4, LinksOfOthers
<1>6. AnonymizedLeavesNothing'
  BY <1>1, <1>2, <1>3, <1>4, AbsentAfter
<1>7. BooksSound'
  BY <1>1 DEF AccountsInv, BooksSound
<1> QED BY <1>0, <1>1, <1>2, <1>3, <1>4, <1>5, <1>6, <1>7, CommitKeeps DEF u

\* The email of an account is verified from now on.
LEMMA VerifiedOnly ==
  ASSUME PeopleSound, NEW u \in Users, NEW b \in BOOLEAN, account' = [account EXCEPT ![u].verified = b]
  PROVE  /\ account' \in [Users -> Account] /\ account'[u].verified = b
         /\ \A v \in Users \ {u} : account'[v] = account[v]
         /\ \A v \in Users : account'[v].email = account[v].email /\ account'[v].status = account[v].status
<1> DEFINE row == [account[u] EXCEPT !.verified = b]
<1>1. account[u] \in Account /\ account \in [Users -> Account]
  BY DEF PeopleSound
<1>2. row \in Account /\ row.verified = b /\ row.email = account[u].email /\ row.status = account[u].status
  BY <1>1 DEF Account
<1>3. account' = [account EXCEPT ![u] = row]
  OBVIOUS
<1> HIDE DEF row
<1> QED BY <1>1, <1>2, <1>3

\* An address proven by a link stays proven.
LEMMA ProvenStays ==
  ASSUME PeopleSound, NEW u \in Users, account[u].email # None, late' \subseteq Users,
         account' \in [Users -> Account],
         \A v \in Users \ {u} : account'[v] = account[v],
         \A v \in Users : account'[v].email = account[v].email /\ account'[v].status = account[v].status,
         proven \subseteq proven', proven' \subseteq Users \X Emails, crossed \subseteq crossed', crossed' \subseteq Users,
         <<u, account[u].email>> \in proven' \/ u \in crossed'
  PROVE  PeopleSound'
<1>1. \A v \in Users : account'[v].verified => <<v, account'[v].email>> \in proven' \/ v \in crossed'
  BY DEF PeopleSound, VerifiedIsProven
<1>2. \A v \in Users : /\ account'[v].status \in {"ACTIVE", "SUSPENDED"} <=> account'[v].email # None
                       /\ account'[v].email = None => ~account'[v].verified
  BY DEF PeopleSound
<1> QED BY <1>1, <1>2 DEF PeopleSound, VerifiedIsProven

\* A password reset by its link keeps the invariant.
LEMMA ResetKeeps ==
  ASSUME AccountsInv, NEW p \in Requests, commitResetPassword(p)
  PROVE  AccountsInv'
<1> DEFINE u == job[p].user
           l == job[p].item
<1>0. PICK J : J = job
  OBVIOUS
<1>1. /\ Commits(p, "resetPassword") /\ revokeAllOf(p, None)
      /\ account' = [account EXCEPT ![u].verified = TRUE] /\ resetLinks' = markUsed(resetLinks, l)
      /\ proven' = proven \cup {<<u, resetLinks[l].sentTo>>}
      /\ crossed' = crossed \cup (IF resetLinks[l].crossed THEN {u} ELSE {})
  BY DEF commitResetPassword
<1>2. /\ TokensSound' /\ Shrunk
      /\ \A q \in Requests \ {p} : JobTokens(J[q])'
      /\ job' = ends(p, u) /\ UNCHANGED <<book, lastToken, verifyLinks, raced, late, offered>>
  BY <1>0, <1>1, RevokesAll
<1>3. "resetPassword" \in Saves
  BY DEF Saves
<1>4. u \in Users /\ job[p].kind = "resetPassword" /\ job[p].saving /\ account[u].status = "ACTIVE" /\ JobLinks(job[p])
  BY <1>1, <1>3, Committing DEF ReadStatus
<1>5. l \in LinkIds /\ isUsableLink(resetLinks[l]) /\ resetLinks[l].user = u /\ resetLinks[l].sentTo \in Emails
  BY <1>4 DEF JobLinks, AccountsInv, LinksSound, isUsableLink, LinkRow
<1>6. resetLinks \in Links /\ resetLinks[l] # None
  BY <1>5 DEF AccountsInv, LinksSound, Links, isUsableLink
<1> HIDE DEF u, l
<1>7. /\ resetLinks' \in Links /\ ~isUsableLink(resetLinks'[l])
      /\ \A m \in LinkIds \ {l} : resetLinks'[m] = resetLinks[m]
  BY <1>1, <1>5, <1>6, LinkMarked
<1>8. /\ account' \in [Users -> Account]
      /\ \A v \in Users \ {u} : account'[v] = account[v]
      /\ \A v \in Users : account'[v].email = account[v].email /\ account'[v].status = account[v].status
  BY <1>1, <1>4, VerifiedOnly DEF AccountsInv
<1>9. PeopleSound'
  <2>1. ~resetLinks[l].crossed => resetLinks[l].sentTo = account[u].email
    BY <1>5 DEF AccountsInv, LinksSound
  <2>2. <<u, account[u].email>> \in proven' \/ u \in crossed'
    BY <1>1, <2>1
  <2>3. proven \subseteq proven' /\ proven' \subseteq Users \X Emails /\ crossed \subseteq crossed' /\ crossed' \subseteq Users /\ late' \subseteq Users
    BY <1>1, <1>2, <1>4, <1>5 DEF AccountsInv, PeopleSound
  <2>4. account[u].email # None
    BY <1>4 DEF AccountsInv, PeopleSound
  <2> QED BY <1>4, <1>8, <2>2, <2>3, <2>4, ProvenStays DEF AccountsInv
<1>10. LinksSound'
  <2>1. ASSUME NEW m \in LinkIds, isUsableLink(resetLinks'[m]), ~resetLinks'[m].crossed
        PROVE  resetLinks'[m].sentTo = account'[resetLinks'[m].user].email
    BY <1>7, <2>1, <1>8 DEF AccountsInv, LinksSound, isUsableLink, LinkRow
  <2> QED BY <1>2, <1>7, <2>1 DEF AccountsInv, LinksSound, Links, isUsableLink
<1>11. ASSUME NEW q \in Requests \ {p}
       PROVE  JobLinks(J[q])'
  BY <1>0, <1>4, <1>2, <1>7, <1>8, JobLinksStay DEF AccountsInv, JobsSound, NotBoth, JobLinks, l, JobShape
<1>12. AnonymizedLeavesNothing'
  <2>1. ASSUME NEW v \in Users, account'[v].status = "ANONYMIZED", v \notin late'
        PROVE  Absent(v)'
    <3>1. Absent(v)
      BY <1>2, <1>8, <2>1, AbsentNow DEF AccountsInv
    <3>2. v # u
      BY <1>5, <1>6, <3>1 DEF Absent
    <3>3. \A t \in TokenIds : refreshTokens'[t] # None => refreshTokens'[t].user # v
      BY <1>2, <3>1 DEF Absent, Shrunk
    <3>4. \A m \in LinkIds : resetLinks'[m] # None => resetLinks'[m].user # v
      BY <1>1, <1>5, <1>6, <1>7, <3>1, <3>2 DEF markUsed, Links, Absent
    <3> QED BY <1>2, <3>1, <3>3, <3>4 DEF Absent
  <2> QED BY <1>2, <2>1, AbsentNext
<1>13. BooksSound'
  BY <1>2 DEF AccountsInv, BooksSound
<1>14. \A v \in Users \ {u} : account'[v].status = account[v].status
  BY <1>8
<1>15. \A q \in Requests \ {p} : JobTokens(J[q])' /\ JobLinks(J[q])'
  BY <1>2, <1>11
<1> QED BY <1>0, <1>2, <1>4, <1>9, <1>10, <1>12, <1>13, <1>14, <1>15, CommitKeeps DEF u

\* An address confirmed by its link does.
LEMMA ConfirmKeeps ==
  ASSUME AccountsInv, NEW p \in Requests, commitConfirmEmail(p)
  PROVE  AccountsInv'
<1> DEFINE u == job[p].user
           l == job[p].item
<1>0. PICK J : J = job
  OBVIOUS
<1>1. /\ Commits(p, "confirmEmail") /\ job' = saved(p, u)
      /\ account' = [account EXCEPT ![u].verified = TRUE] /\ verifyLinks' = markUsed(verifyLinks, l)
      /\ proven' = proven \cup {<<u, verifyLinks[l].sentTo>>}
      /\ UNCHANGED <<book, refreshTokens, lastToken, resetLinks, ended, raced, late, crossed, offered>>
  BY DEF commitConfirmEmail
<1>2. TokensSound' /\ Shrunk /\ \A q \in Requests \ {p} : JobTokens(J[q])'
  BY <1>0, <1>1, TokensStay
<1>3. "confirmEmail" \in Saves
  BY DEF Saves
<1>4. u \in Users /\ job[p].kind = "confirmEmail" /\ job[p].saving /\ account[u].status = "ACTIVE" /\ JobLinks(job[p])
  BY <1>1, <1>3, Committing DEF ReadStatus
<1>5. l \in LinkIds /\ isUsableLink(verifyLinks[l]) /\ verifyLinks[l].user = u /\ verifyLinks[l].sentTo = account[u].email /\ verifyLinks[l].sentTo \in Emails
  BY <1>4 DEF JobLinks, AccountsInv, LinksSound, isUsableLink, LinkRow
<1>6. verifyLinks \in Links /\ verifyLinks[l] # None
  BY <1>5 DEF AccountsInv, LinksSound, Links, isUsableLink
<1> HIDE DEF u, l
<1>7. /\ verifyLinks' \in Links /\ ~isUsableLink(verifyLinks'[l])
      /\ \A m \in LinkIds \ {l} : verifyLinks'[m] = verifyLinks[m]
  BY <1>1, <1>5, <1>6, LinkMarked
<1>8. /\ account' \in [Users -> Account]
      /\ \A v \in Users \ {u} : account'[v] = account[v]
      /\ \A v \in Users : account'[v].email = account[v].email /\ account'[v].status = account[v].status
  BY <1>1, <1>4, VerifiedOnly DEF AccountsInv
<1>9. PeopleSound'
  <2>1. <<u, account[u].email>> \in proven'
    BY <1>1, <1>5
  <2>2. proven \subseteq proven' /\ proven' \subseteq Users \X Emails /\ crossed \subseteq crossed' /\ crossed' \subseteq Users /\ late' \subseteq Users
    BY <1>1, <1>4, <1>5 DEF AccountsInv, PeopleSound
  <2>3. account[u].email # None
    BY <1>4 DEF AccountsInv, PeopleSound
  <2> QED BY <1>4, <1>8, <2>1, <2>2, <2>3, ProvenStays DEF AccountsInv
<1>10. LinksSound'
  BY <1>1, <1>7, <1>8 DEF AccountsInv, LinksSound, isUsableLink, LinkRow, Links
<1>11. ASSUME NEW q \in Requests \ {p}
       PROVE  JobLinks(J[q])'
  BY <1>0, <1>4, <1>1, <1>7, <1>8, JobLinksStay DEF AccountsInv, JobsSound, NotBoth, JobLinks, l, JobShape
<1>12. AnonymizedLeavesNothing'
  <2>1. ASSUME NEW v \in Users, account'[v].status = "ANONYMIZED", v \notin late'
        PROVE  Absent(v)'
    BY <1>1, <1>8, <2>1, AbsentNow, <1>5, <1>6, <1>7 DEF AccountsInv, Absent, markUsed, Links
  <2> QED BY <1>2, <2>1, AbsentNext
<1>13. BooksSound'
  BY <1>1 DEF AccountsInv, BooksSound
<1>14. \A v \in Users \ {u} : account'[v].status = account[v].status
  BY <1>8
<1>15. \A q \in Requests \ {p} : JobTokens(J[q])' /\ JobLinks(J[q])'
  BY <1>2, <1>11
<1> QED BY <1>0, <1>1, <1>2, <1>4, <1>9, <1>10, <1>12, <1>13, <1>14, <1>15, CommitKeeps DEF u

\* A changed address does: it is unproven until confirmed.
LEMMA EmailKeeps ==
  ASSUME AccountsAssumption, AccountsInv, NEW p \in Requests, commitChangeEmail(p)
  PROVE  AccountsInv'
<1> DEFINE u == job[p].user
           e == job[p].email
           row == [account[u] EXCEPT !.email = e, !.verified = FALSE]
<1>0. PICK J : J = job
  OBVIOUS
<1>1. /\ Commits(p, "changeEmail") /\ job' = saved(p, u)
      /\ \A l \in PendingOf(resetLinks, u) : ~LinkLocked(p, "resetPassword", l)
      /\ \A l \in PendingOf(verifyLinks, u) : ~LinkLocked(p, "confirmEmail", l)
      /\ account' = [account EXCEPT ![u].email = e, ![u].verified = FALSE]
      /\ verifyLinks' \in issue(verifyLinks, PendingOf(verifyLinks, u), u, e)
      /\ resetLinks' = invalidate(resetLinks, PendingOf(resetLinks, u))
      /\ proven' = {x \in proven : x[1] # u} /\ crossed' = crossed \ {u}
      /\ UNCHANGED <<book, refreshTokens, lastToken, ended, raced, late, offered>>
  BY DEF commitChangeEmail
<1>2. TokensSound' /\ Shrunk /\ \A q \in Requests \ {p} : JobTokens(J[q])'
  BY <1>0, <1>1, TokensStay
<1>3. "changeEmail" \in Saves
  BY DEF Saves
<1>4. u \in Users /\ job[p].kind = "changeEmail" /\ job[p].saving /\ account[u].status = "ACTIVE" /\ JobShape(job[p])
  BY <1>1, <1>3, Committing DEF ReadStatus
<1>5. e \in Emails /\ e # None
  BY <1>4 DEF JobShape, AccountsAssumption
<1>6. account[u] \in Account /\ account \in [Users -> Account]
  BY <1>4 DEF AccountsInv, PeopleSound
<1>7. row \in Account /\ row.email = e /\ ~row.verified /\ row.status = account[u].status
  BY <1>5, <1>6 DEF Account
<1>8. account' = [account EXCEPT ![u] = row]
  BY <1>1, <1>4, <1>6
<1>9. resetLinks \in Links /\ verifyLinks \in Links
  BY DEF AccountsInv, LinksSound, Links
<1> HIDE DEF u, e, row
<1>10. /\ account' \in [Users -> Account] /\ account'[u].email = e /\ ~account'[u].verified /\ account'[u].status = "ACTIVE"
       /\ \A v \in Users \ {u} : account'[v] = account[v]
  BY <1>4, <1>6, <1>7, <1>8
<1>11. PeopleSound'
  <2>1. \A v \in Users : /\ account'[v].status \in {"ACTIVE", "SUSPENDED"} <=> account'[v].email # None
                         /\ account'[v].email = None => ~account'[v].verified
    BY <1>5, <1>10 DEF AccountsInv, PeopleSound
  <2>2. \A v \in Users : account'[v].verified => <<v, account'[v].email>> \in proven' \/ v \in crossed'
    <3>1. ASSUME NEW v \in Users, account'[v].verified
          PROVE  <<v, account'[v].email>> \in proven' \/ v \in crossed'
      BY <1>10, <3>1, <1>1 DEF AccountsInv, PeopleSound, VerifiedIsProven
    <3> QED BY <3>1
  <2>3. proven' \subseteq Users \X Emails /\ crossed' \subseteq Users /\ late' \subseteq Users
    BY <1>1 DEF AccountsInv, PeopleSound
  <2> QED BY <1>10, <2>1, <2>2, <2>3 DEF PeopleSound, VerifiedIsProven
<1>12. /\ resetLinks' \in Links
       /\ \A l \in LinkIds : \/ resetLinks'[l] = resetLinks[l] /\ (l \in PendingOf(resetLinks, u) => ~isUsableLink(resetLinks[l]))
                             \/ l \in PendingOf(resetLinks, u) /\ isUsableLink(resetLinks[l]) /\ ~isUsableLink(resetLinks'[l])
       /\ \A l \in LinkIds : resetLinks'[l] # None => resetLinks[l] # None /\ resetLinks'[l].user = resetLinks[l].user
  BY <1>1, <1>9, LinksInvalidated
<1>13. /\ verifyLinks' \in Links
       /\ \A m \in LinkIds : verifyLinks'[m] # None => verifyLinks'[m].user = u \/ (verifyLinks[m] # None /\ verifyLinks'[m].user = verifyLinks[m].user)
  BY <1>1, <1>4, <1>5, <1>9, LinkIssued
<1>14. PICK n \in LinkIds :
         /\ verifyLinks[n] = None /\ verifyLinks'[n].user = u /\ verifyLinks'[n] # None
         /\ \A m \in LinkIds \ {n} : \/ verifyLinks'[m] = verifyLinks[m] /\ (m \in PendingOf(verifyLinks, u) => ~isUsableLink(verifyLinks[m]))
                                     \/ m \in PendingOf(verifyLinks, u) /\ isUsableLink(verifyLinks[m]) /\ ~isUsableLink(verifyLinks'[m])
  <2>1. PICK next : next = verifyLinks'
    OBVIOUS
  <2>2. PICK targets : targets = PendingOf(verifyLinks, u)
    OBVIOUS
  <2>3. next \in issue(verifyLinks, targets, u, e) /\ verifyLinks \in Links /\ u \in Users /\ e \in Emails
    BY <1>1, <1>4, <1>5, <1>9, <2>1, <2>2
  <2>4. PICK l \in LinkIds : IssuedAs(l, verifyLinks, next, targets, u, e)
    BY <2>3, LinkIssued
  <2> QED BY <2>1, <2>2, <2>4 DEF IssuedAs, isUsableLink
<1>15. \A l \in LinkIds : /\ l \in PendingOf(resetLinks, u) <=> isUsableLink(resetLinks[l]) /\ resetLinks[l].user = u
                          /\ l \in PendingOf(verifyLinks, u) <=> isUsableLink(verifyLinks[l]) /\ verifyLinks[l].user = u
  BY <1>9 DEF PendingOf, Stored, isUsableLink, Links
<1>16. LinksSound'
  <2>1. ASSUME NEW m \in LinkIds, isUsableLink(resetLinks'[m]), ~resetLinks'[m].crossed
        PROVE  resetLinks'[m].sentTo = account'[resetLinks'[m].user].email
    BY <1>12, <1>15, <2>1, <1>10 DEF AccountsInv, LinksSound, isUsableLink, LinkRow
  <2> QED BY <1>12, <1>13, <2>1 DEF LinksSound, Links, isUsableLink
<1>17. ASSUME NEW q \in Requests \ {p}
       PROVE  JobLinks(J[q])'
  <2>1. J[q] \in Job /\ JobShape(J[q]) /\ JobLinks(J[q])
    BY <1>0 DEF AccountsInv, JobsSound
  <2>2. CASE J[q].kind = "resetPassword"
    BY <2>1, <2>2, <1>0, <1>1, <1>12, JobLinksStay DEF JobLinks, LinkLocked, Holds
  <2>3. CASE J[q].kind = "confirmEmail"
    <3>1. J[q].item \in LinkIds /\ isUsableLink(verifyLinks[J[q].item]) /\ verifyLinks[J[q].item].user = J[q].user /\ J[q].user \in Users
      BY <2>1, <2>3 DEF JobLinks, JobShape
    <3>2. J[q].item \notin PendingOf(verifyLinks, u)
      BY <1>0, <1>1, <2>3 DEF LinkLocked, Holds
    <3>3. J[q].user # u /\ J[q].item # n
      BY <1>14, <1>15, <3>1, <3>2 DEF isUsableLink
    <3>4. verifyLinks'[J[q].item] = verifyLinks[J[q].item]
      BY <1>14, <3>1, <3>2, <3>3
    <3> QED BY <1>10, <2>1, <2>3, <3>1, <3>3, <3>4, JobLinksStay
  <2>4. CASE J[q].kind \notin {"resetPassword", "confirmEmail"}
    BY <2>1, <2>4, JobLinksStay
  <2> QED BY <2>2, <2>3, <2>4
<1>18. AnonymizedLeavesNothing'
  <2>1. ASSUME NEW v \in Users, account'[v].status = "ANONYMIZED", v \notin late'
        PROVE  Absent(v)'
    BY <1>10, <2>1, <1>1, AbsentNow, <1>12, <1>13 DEF AccountsInv, Absent
  <2> QED BY <1>2, <2>1, AbsentNext
<1>19. BooksSound'
  BY <1>1 DEF AccountsInv, BooksSound
<1>20. \A v \in Users \ {u} : account'[v].status = account[v].status
  BY <1>10
<1>21. \A q \in Requests \ {p} : JobTokens(J[q])' /\ JobLinks(J[q])'
  BY <1>2, <1>17
<1> QED BY <1>0, <1>1, <1>2, <1>4, <1>11, <1>16, <1>18, <1>19, <1>20, <1>21, CommitKeeps DEF u

\* An anonymization does: what belongs to the account goes with it.
LEMMA AnonymizeKeeps ==
  ASSUME AccountsAssumption, AccountsInv, NEW p \in Requests, commitAnonymize(p)
  PROVE  AccountsInv'
<1> DEFINE u == job[p].user
           targets == job[p].targets
           row == [account[u] EXCEPT !.status = "ANONYMIZED", !.email = None, !.verified = FALSE]
           E == {SessionOf(t) : t \in TokensOf(u)}
<1>0. PICK J : J = job
  OBVIOUS
<1>1. /\ Commits(p, "anonymize") /\ deleteOf(p, u)
      /\ account' = [account EXCEPT ![u].status = "ANONYMIZED", ![u].email = None, ![u].verified = FALSE]
      /\ ended' = ended \cup E /\ job' = ends(p, u)
      /\ UNCHANGED <<lastToken, raced, late, proven, crossed, offered>>
  BY DEF commitAnonymize
<1>2. /\ \A q \in Requests : job[q].user = u => job[q].kind \notin {"resetPassword", "confirmEmail"}
      /\ refreshTokens' = [t \in TokenIds |-> IF t \in targets THEN None ELSE refreshTokens[t]]
      /\ resetLinks' = without(resetLinks, u) /\ verifyLinks' = without(verifyLinks, u)
      /\ book' = [book EXCEPT ![u] = [saved |-> {}, default |-> None]]
  BY <1>1 DEF deleteOf
<1>3. "anonymize" \in Saves
  BY DEF Saves
<1>4. u \in Users /\ job[p].kind = "anonymize" /\ job[p].saving /\ JobTokens(job[p]) /\ \A x \in targets : ~TokenLocked(p, x)
  BY <1>1, <1>3, Committing
<1>5. account[u] \in Account /\ account \in [Users -> Account]
  BY <1>4 DEF AccountsInv, PeopleSound
<1>6. row \in Account /\ row.email = None /\ ~row.verified /\ row.status = "ANONYMIZED"
  BY <1>5 DEF Account, Statuses
<1>7. account' = [account EXCEPT ![u] = row]
  BY <1>1, <1>4, <1>5
<1>8. ASSUME NEW t \in TokensOf(u)
      PROVE  t \in TokenIds /\ refreshTokens[t] # None /\ refreshTokens[t].user = u /\ SessionOf(t) \in 1..lastToken
  <2>1. t \in TokenIds /\ refreshTokens[t] # None /\ refreshTokens[t].user = u
    BY <1>8 DEF TokensOf, Stored, AccountsInv, TokensSound
  <2>2. SessionOf(t) \in TokenIds /\ SessionOf(t) <= lastToken
    BY <2>1 DEF AccountsInv, TokensSound, TokenRow, SessionOf
  <2> QED BY <2>1, <2>2 DEF TokenIds, AccountsInv, TokensSound
<1>9. E \subseteq 1..lastToken
  BY <1>8
<1>10. ASSUME NEW t \in TokenIds, Live(t), SessionOf(t) \in E
      PROVE  t \in targets \/ SessionOf(t) \in raced
  BY <1>10, LiveTokens, <1>8, <1>4 DEF AccountsInv, TokensSound, JobTokens
<1>11. \A t \in TokenIds : refreshTokens[t] # None /\ refreshTokens[t].user = u => t \in targets \/ u \in late
  BY <1>4 DEF JobTokens
<1> HIDE DEF u, targets, row, E
<1>12. account'[u] = row /\ account' \in [Users -> Account] /\ \A v \in Users \ {u} : account'[v] = account[v]
  BY <1>4, <1>5, <1>6, <1>7
<1>13. /\ Shrunk
       /\ \A t \in TokenIds : /\ t \in targets => refreshTokens'[t] = None
                              /\ t \notin targets => refreshTokens'[t] = refreshTokens[t]
  BY <1>1, <1>2, DeletedShrink DEF AccountsInv
<1>14. TokensSound' /\ \A q \in Requests \ {p} : JobTokens(J[q])'
  BY <1>13, <1>1, <1>0, <1>4, <1>9, <1>10, TargetsEnd
<1>15. PeopleSound'
  BY <1>6, <1>12, <1>1 DEF AccountsInv, PeopleSound, VerifiedIsProven
<1>16. /\ resetLinks' \in Links /\ verifyLinks' \in Links
       /\ \A l \in LinkIds : /\ resetLinks'[l] = IF resetLinks[l] # None /\ resetLinks[l].user = u THEN None ELSE resetLinks[l]
                             /\ verifyLinks'[l] = IF verifyLinks[l] # None /\ verifyLinks[l].user = u THEN None ELSE verifyLinks[l]
  BY <1>2, LinksWithout DEF AccountsInv, LinksSound, Links
<1>17. LinksSound'
  <2>1. ASSUME NEW m \in LinkIds, isUsableLink(resetLinks'[m]), ~resetLinks'[m].crossed
        PROVE  resetLinks'[m].sentTo = account'[resetLinks'[m].user].email
    BY <1>16, <2>1, <1>12 DEF isUsableLink, AccountsInv, LinksSound, LinkRow
  <2> QED BY <1>16, <2>1 DEF LinksSound, Links, isUsableLink
<1>18. ASSUME NEW q \in Requests \ {p}
       PROVE  JobLinks(J[q])'
  BY <1>0, <1>2, <1>12, <1>16, JobLinksStay DEF AccountsInv, JobsSound, JobLinks, JobShape
<1>19. book' \in [Users -> [saved : SUBSET AddressIds, default : AddressIds \cup {None}]]
       /\ book'[u].saved = {} /\ book'[u].default = None /\ \A v \in Users \ {u} : book'[v] = book[v]
  BY <1>2, <1>4 DEF AccountsInv, BooksSound
<1>20. BooksSound'
  <2>1. Cardinality({}) <= AddressLimit
    BY FS_EmptySet DEF AccountsAssumption
  <2> QED BY <1>19, <2>1 DEF AccountsInv, BooksSound
<1>21. AnonymizedLeavesNothing'
  <2>1. ASSUME NEW v \in Users, account'[v].status = "ANONYMIZED", v \notin late'
        PROVE  Absent(v)'
    <3>1. CASE v = u
      BY <1>1, <1>11, <1>13, <2>1, <3>1, <1>16, <1>19 DEF Absent
    <3>2. CASE v # u
      <4>1. Absent(v)
        BY <1>1, <1>12, <2>1, <3>2, AbsentNow DEF AccountsInv
      <4> QED BY <1>13, <1>16, <1>19, <3>2, <4>1 DEF Absent
    <3> QED BY <3>1, <3>2
  <2> QED BY <1>14, <2>1, AbsentNext
<1>22. \A v \in Users \ {u} : account'[v].status = account[v].status
  BY <1>12
<1>23. \A q \in Requests \ {p} : JobTokens(J[q])' /\ JobLinks(J[q])'
  BY <1>14, <1>18
<1> QED BY <1>0, <1>1, <1>4, <1>14, <1>15, <1>17, <1>20, <1>21, <1>22, <1>23, CommitKeeps DEF u

-----------------------------------------------------------------------------
(* Accounts: links asked for, addresses, the clock and the cleanup.        *)

\* An account and its people are as they were, but for what is late of them.
LEMMA PeopleStay ==
  ASSUME AccountsInv, UNCHANGED <<account, proven, crossed>>, late' \subseteq Users
  PROVE  PeopleSound'
BY DEF AccountsInv, PeopleSound, VerifiedIsProven

\* Asking for a reset does.
LEMMA ResetAskedKeeps ==
  ASSUME AccountsInv, NEW p \in Requests, requestPasswordResetEnd(p)
  PROVE  AccountsInv'
<1> DEFINE u == job[p].user
           e == job[p].email
           targets == job[p].targets
<1>0. PICK J : J = job
  OBVIOUS
<1>1. /\ job[p].kind = "requestReset" /\ \A l \in targets : ~LinkLocked(p, "resetPassword", l)
      /\ resetLinks' \in issue(resetLinks, targets, u, e)
      /\ late' = late \cup (IF account[u].status = "ANONYMIZED" THEN {u} ELSE {}) /\ job' = done(p)
      /\ UNCHANGED <<account, book, refreshTokens, lastToken, verifyLinks, ended, raced, proven, crossed, offered>>
  BY DEF requestPasswordResetEnd, Holds
<1>2. JobShape(job[p])
  BY DEF AccountsInv, JobsSound
<1>3. u \in Users /\ e \in Emails
  BY <1>1, <1>2 DEF JobShape
<1> HIDE DEF u, e, targets
<1>4. resetLinks \in Links
  BY DEF AccountsInv, LinksSound, Links
<1>5. late \subseteq late' /\ late' \subseteq Users
  BY <1>1, <1>3 DEF AccountsInv, PeopleSound
<1>6. TokensSound' /\ Shrunk /\ \A q \in Requests \ {p} : JobTokens(J[q])'
  BY <1>0, <1>1, <1>5, TokensStay
<1>7. PeopleSound'
  BY <1>1, <1>5, PeopleStay
<1>8. PICK next : next = resetLinks'
  OBVIOUS
<1>9. next \in issue(resetLinks, targets, u, e)
  BY <1>1, <1>8
<1>10. /\ next \in Links
       /\ \A m \in LinkIds : next[m] # None => next[m].user = u \/ (resetLinks[m] # None /\ next[m].user = resetLinks[m].user)
  BY <1>3, <1>4, <1>9, LinkIssued
<1>11. PICK n \in LinkIds : IssuedAs(n, resetLinks, next, targets, u, e)
  BY <1>3, <1>4, <1>9, LinkIssued
<1>12. LinksSound'
  <2>1. ASSUME NEW m \in LinkIds, isUsableLink(next[m]), ~next[m].crossed
        PROVE  next[m].sentTo = account[next[m].user].email
    <3>1. CASE m = n
      BY <1>11, <2>1, <3>1 DEF IssuedAs
    <3>2. CASE m # n
      BY <1>11, <2>1, <3>2 DEF IssuedAs, AccountsInv, LinksSound
    <3> QED BY <3>1, <3>2
  <2>2. \A m \in LinkIds : isUsableLink(resetLinks'[m]) /\ ~resetLinks'[m].crossed => resetLinks'[m].sentTo = account'[resetLinks'[m].user].email
    BY <1>1, <1>8, <2>1
  <2> QED BY <1>1, <1>8, <1>10, <2>2 DEF AccountsInv, LinksSound, Links, isUsableLink
<1>13. ASSUME NEW q \in Requests \ {p}
       PROVE  JobLinks(J[q])' /\ (J[q].kind \in Saves /\ J[q].fresh => account'[J[q].user].status \in ReadStatus(J[q].kind))
  <2>1. J[q] \in Job /\ JobLinks(J[q]) /\ JobAccount(J[q])
    BY <1>0 DEF AccountsInv, JobsSound
  <2>2. J[q].kind = "resetPassword" => resetLinks'[J[q].item] = resetLinks[J[q].item]
    BY <1>8, <2>1, <1>0, <1>1, <1>11 DEF JobLinks, LinkLocked, Holds, IssuedAs, isUsableLink
  <2>3. JobLinks(J[q])'
    BY <1>1, <2>1, <2>2, JobLinksStay
  <2> QED BY <1>1, <2>1, <2>3 DEF JobAccount
<1>14. JobsSound'
  BY <1>6, <1>13, <1>0, <1>1, RequestEnds DEF AccountsInv
<1>15. AnonymizedLeavesNothing'
  <2>1. ASSUME NEW v \in Users, account'[v].status = "ANONYMIZED", v \notin late'
        PROVE  Absent(v)'
    BY <1>1, <1>5, <2>1, AbsentNow, <1>8, <1>10 DEF AccountsInv, Absent
  <2> QED BY <1>6, <2>1, AbsentNext
<1>16. BooksSound' /\ offered' \in Scenarios
  BY <1>1 DEF AccountsInv, BooksSound
<1> QED BY <1>6, <1>7, <1>12, <1>14, <1>15, <1>16 DEF AccountsInv

\* Asking for a verification does.
LEMMA VerificationAskedKeeps ==
  ASSUME AccountsInv, NEW p \in Requests, resendEmailVerificationEnd(p)
  PROVE  AccountsInv'
<1> DEFINE u == job[p].user
           e == job[p].email
           targets == job[p].targets
<1>0. PICK J : J = job
  OBVIOUS
<1>1. /\ job[p].kind = "resendVerification" /\ \A l \in targets : ~LinkLocked(p, "confirmEmail", l)
      /\ verifyLinks' \in issue(verifyLinks, targets, u, e)
      /\ late' = late \cup (IF account[u].status = "ANONYMIZED" THEN {u} ELSE {}) /\ job' = done(p)
      /\ UNCHANGED <<account, book, refreshTokens, lastToken, resetLinks, ended, raced, proven, crossed, offered>>
  BY DEF resendEmailVerificationEnd, Holds
<1>2. JobShape(job[p])
  BY DEF AccountsInv, JobsSound
<1>3. u \in Users /\ e \in Emails
  BY <1>1, <1>2 DEF JobShape
<1> HIDE DEF u, e, targets
<1>4. verifyLinks \in Links
  BY DEF AccountsInv, LinksSound, Links
<1>5. late \subseteq late' /\ late' \subseteq Users
  BY <1>1, <1>3 DEF AccountsInv, PeopleSound
<1>6. TokensSound' /\ Shrunk /\ \A q \in Requests \ {p} : JobTokens(J[q])'
  BY <1>0, <1>1, <1>5, TokensStay
<1>7. PeopleSound'
  BY <1>1, <1>5, PeopleStay
<1>8. PICK next : next = verifyLinks'
  OBVIOUS
<1>9. next \in issue(verifyLinks, targets, u, e)
  BY <1>1, <1>8
<1>10. /\ next \in Links
       /\ \A m \in LinkIds : next[m] # None => next[m].user = u \/ (verifyLinks[m] # None /\ next[m].user = verifyLinks[m].user)
  BY <1>3, <1>4, <1>9, LinkIssued
<1>11. PICK n \in LinkIds : IssuedAs(n, verifyLinks, next, targets, u, e)
  BY <1>3, <1>4, <1>9, LinkIssued
<1>12. LinksSound'
  BY <1>1, <1>8, <1>10 DEF AccountsInv, LinksSound, Links, isUsableLink
<1>13. ASSUME NEW q \in Requests \ {p}
       PROVE  JobLinks(J[q])' /\ (J[q].kind \in Saves /\ J[q].fresh => account'[J[q].user].status \in ReadStatus(J[q].kind))
  <2>1. J[q] \in Job /\ JobLinks(J[q]) /\ JobAccount(J[q])
    BY <1>0 DEF AccountsInv, JobsSound
  <2>2. J[q].kind = "confirmEmail" => verifyLinks'[J[q].item] = verifyLinks[J[q].item]
    BY <1>8, <2>1, <1>0, <1>1, <1>11 DEF JobLinks, LinkLocked, Holds, IssuedAs, isUsableLink
  <2>3. JobLinks(J[q])'
    BY <1>1, <2>1, <2>2, JobLinksStay
  <2> QED BY <1>1, <2>1, <2>3 DEF JobAccount
<1>14. JobsSound'
  BY <1>6, <1>13, <1>0, <1>1, RequestEnds DEF AccountsInv
<1>15. AnonymizedLeavesNothing'
  <2>1. ASSUME NEW v \in Users, account'[v].status = "ANONYMIZED", v \notin late'
        PROVE  Absent(v)'
    BY <1>1, <1>5, <2>1, AbsentNow, <1>8, <1>10 DEF AccountsInv, Absent
  <2> QED BY <1>6, <2>1, AbsentNext
<1>16. BooksSound' /\ offered' \in Scenarios
  BY <1>1 DEF AccountsInv, BooksSound
<1> QED BY <1>6, <1>7, <1>12, <1>14, <1>15, <1>16 DEF AccountsInv

\* A book with one more address, one less or another default one.
LEMMA BookEdited ==
  ASSUME AccountsAssumption, BooksSound, NEW u \in Users, NEW next, book' = [book EXCEPT ![u] = next],
         next \in [saved : SUBSET AddressIds, default : AddressIds \cup {None}], next.default \in next.saved \cup {None},
         \/ next.saved \subseteq book[u].saved
         \/ Cardinality(book[u].saved) < AddressLimit /\ \E a \in AddressIds : a \notin book[u].saved /\ next.saved = book[u].saved \cup {a}
  PROVE  BooksSound' /\ book'[u] = next /\ \A v \in Users \ {u} : book'[v] = book[v]
<1>1. book \in [Users -> [saved : SUBSET AddressIds, default : AddressIds \cup {None}]]
  BY DEF BooksSound
<1>2. IsFiniteSet(book[u].saved)
  BY <1>1, FS_Subset DEF AccountsAssumption
<1>3. Cardinality(book[u].saved) \in Nat /\ Cardinality(book[u].saved) <= AddressLimit /\ AddressLimit \in Nat
  BY <1>2, FS_CardinalityType DEF BooksSound, AccountsAssumption
<1>4. Cardinality(next.saved) <= AddressLimit
  <2>1. CASE next.saved \subseteq book[u].saved
    BY <1>2, <2>1, FS_Subset, FS_CardinalityType, <1>3
  <2>2. ASSUME Cardinality(book[u].saved) < AddressLimit, NEW a \in AddressIds, a \notin book[u].saved, next.saved = book[u].saved \cup {a}
        PROVE  Cardinality(next.saved) <= AddressLimit
    <3>1. Cardinality(next.saved) = Cardinality(book[u].saved) + 1
      BY <1>2, <2>2, FS_AddElement
    <3> QED BY <1>3, <2>2, <3>1
  <2> QED BY <2>1, <2>2
<1>5. book'[u] = next /\ (\A v \in Users \ {u} : book'[v] = book[v])
      /\ book' \in [Users -> [saved : SUBSET AddressIds, default : AddressIds \cup {None}]]
  BY <1>1
<1>6. \A v \in Users : book'[v].default \in book'[v].saved \cup {None} /\ Cardinality(book'[v].saved) <= AddressLimit
  BY <1>4, <1>5 DEF BooksSound
<1> QED BY <1>5, <1>6 DEF BooksSound

\* An address saved does, late for an account anonymized meanwhile.
LEMMA AddressAddedKeeps ==
  ASSUME AccountsAssumption, AccountsInv, NEW p \in Requests, NEW a \in AddressIds, NEW d \in BOOLEAN, addAddressEnd(p, a, d)
  PROVE  AccountsInv'
<1> DEFINE u == job[p].user
<1>0. PICK J : J = job
  OBVIOUS
<1>1. /\ job[p].kind = "addAddress" /\ job' = done(p)
      /\ UNCHANGED <<account, refreshTokens, lastToken, resetLinks, verifyLinks, ended, raced, proven, crossed, offered>>
  BY DEF addAddressEnd, Holds
<1>2. JobShape(job[p])
  BY DEF AccountsInv, JobsSound
<1>3. u \in Users
  BY <1>1, <1>2 DEF JobShape
<1>4. /\ BooksSound' /\ late \subseteq late' /\ late' \subseteq Users
      /\ \A v \in Users \ {u} : book'[v] = book[v]
      /\ account[u].status = "ANONYMIZED" /\ u \notin late' => book' = book
  <2>0. late \subseteq Users
    BY DEF AccountsInv, PeopleSound
  <2>1. CASE a \notin book[u].saved /\ Cardinality(book[u].saved) < AddressLimit
    <3> DEFINE next == [saved |-> book[u].saved \cup {a}, default |-> IF book[u].saved = {} \/ d THEN a ELSE book[u].default]
    <3>1. book[u] \in [saved : SUBSET AddressIds, default : AddressIds \cup {None}] /\ book[u].default \in book[u].saved \cup {None}
          /\ book \in [Users -> [saved : SUBSET AddressIds, default : AddressIds \cup {None}]]
      BY <1>3 DEF AccountsInv, BooksSound
    <3>2. /\ next \in [saved : SUBSET AddressIds, default : AddressIds \cup {None}] /\ next.saved = book[u].saved \cup {a}
          /\ next.default \in next.saved \cup {None}
      BY <3>1
    <3>3. book' = [book EXCEPT ![u] = next] /\ late' = late \cup (IF account[u].status = "ANONYMIZED" THEN {u} ELSE {})
      BY <1>3, <2>1, <3>1 DEF addAddressEnd
    <3> HIDE DEF next, u
    <3>4. BooksSound' /\ \A v \in Users \ {u} : book'[v] = book[v]
      BY <1>3, <2>1, <3>2, <3>3, BookEdited DEF AccountsInv
    <3> QED BY <1>3, <2>0, <3>3, <3>4
  <2>2. CASE ~(a \notin book[u].saved /\ Cardinality(book[u].saved) < AddressLimit)
    BY <2>2, <2>0 DEF addAddressEnd, AccountsInv, BooksSound
  <2> QED BY <2>1, <2>2
<1> HIDE DEF u
<1>5. TokensSound' /\ Shrunk /\ \A q \in Requests \ {p} : JobTokens(J[q])'
  BY <1>0, <1>1, <1>4, TokensStay
<1>6. PeopleSound' /\ LinksSound'
  BY <1>1, <1>4, SamePeople DEF AccountsInv, PeopleSound
<1>7. \A q \in Requests \ {p} : JobLinks(J[q])'
  BY <1>0, <1>1, LinksOfOthers
<1>8. JobsSound'
  BY <1>0, <1>1, <1>5, <1>7, RequestEnds DEF AccountsInv, JobsSound, JobAccount
<1>9. AnonymizedLeavesNothing'
  <2>1. ASSUME NEW v \in Users, account'[v].status = "ANONYMIZED", v \notin late'
        PROVE  Absent(v)'
    BY <1>1, <1>4, <2>1, AbsentNow DEF AccountsInv, Absent
  <2> QED BY <1>5, <2>1, AbsentNext
<1>10. offered' \in Scenarios
  BY <1>1 DEF AccountsInv
<1> QED BY <1>4, <1>5, <1>6, <1>8, <1>9, <1>10 DEF AccountsInv

\* No request begins, goes on or ends: they keep what they hold.
LEMMA RequestsStay ==
  ASSUME AccountsInv, NEW J, J = job, job' = job, \A q \in Requests : JobTokens(J[q])' /\ JobLinks(J[q])',
         \A q \in Requests : J[q].kind \in Saves /\ J[q].fresh => account'[J[q].user].status \in ReadStatus(J[q].kind)
  PROVE  JobsSound'
<1>1. ASSUME NEW q \in Requests, NEW y, y = job'[q]
      PROVE  JobShape(y) /\ JobTokens(y)' /\ JobLinks(y)' /\ JobAccount(y)'
  BY <1>1 DEF AccountsInv, JobsSound, JobAccount
<1>2. \A q \in Requests : JobShape(job'[q]) /\ JobTokens(job[q])' /\ JobLinks(job[q])' /\ JobAccount(job[q])'
  BY <1>1 DEF JobShape, JobTokens, JobLinks, JobAccount, Live, Stored, SessionOf, isUsableLink
<1>3. \A q, r \in Requests : q # r => NotBoth(job'[q], job'[r])
  BY DEF AccountsInv, JobsSound
<1> QED BY <1>2, <1>3 DEF AccountsInv, JobsSound, JobShape

\* Rows fade: tokens and links that nobody holds expire, or go once they are spent.
LEMMA RowsFade ==
  ASSUME AccountsInv, job' = job, UNCHANGED <<lastToken, history>>, Shrunk, BooksSound',
         \A q \in Requests : /\ job[q].kind \in {"refresh", "reuse"} => refreshTokens'[job[q].item] # None
                             /\ job[q].kind = "refresh" => ~refreshTokens'[job[q].item].revoked
                             /\ job[q].kind = "resetPassword" => resetLinks'[job[q].item] = resetLinks[job[q].item]
                             /\ job[q].kind = "confirmEmail" => verifyLinks'[job[q].item] = verifyLinks[job[q].item],
         resetLinks' \in Links, verifyLinks' \in Links,
         \A l \in LinkIds : /\ isUsableLink(resetLinks'[l]) => resetLinks'[l] = resetLinks[l]
                            /\ resetLinks'[l] # None => resetLinks[l] # None /\ resetLinks'[l].user = resetLinks[l].user
                            /\ verifyLinks'[l] # None => verifyLinks[l] # None /\ verifyLinks'[l].user = verifyLinks[l].user,
         account' \in [Users -> Account],
         \A u \in Users : /\ account'[u].status = account[u].status /\ account'[u].email = account[u].email
                          /\ account'[u].verified = account[u].verified
                          /\ account[u].status = "ANONYMIZED" => book'[u] = book[u]
  PROVE  AccountsInv'
<1>0. PICK J : J = job
  OBVIOUS
<1>1. UNCHANGED <<ended, raced, late, proven, crossed, offered>>
  BY DEF history
<1>2. TokensSound'
  <2>1. \A t \in TokenIds : Live(t)' => Live(t) /\ refreshTokens'[t].session = refreshTokens[t].session
    BY LiveTokens, LiveTokensNext DEF AccountsInv, TokensSound, Shrunk
  <2>2. \A t \in TokenIds : refreshTokens'[t] # None /\ ~refreshTokens'[t].revoked /\ refreshTokens[t].session \in ended' => refreshTokens[t].session \in raced
    <3>1. ASSUME NEW t \in TokenIds, refreshTokens'[t] # None, ~refreshTokens'[t].revoked, refreshTokens[t].session \in ended
          PROVE  refreshTokens[t].session \in raced
      BY <3>1, LiveTokens DEF AccountsInv, TokensSound, Shrunk, SessionsEnd, EndedUnlessRaced, SessionOf
    <3> QED BY <1>1, <3>1
  <2>3. ended' \subseteq 1..lastToken
    BY <1>1 DEF AccountsInv, TokensSound
  <2> QED BY <1>1, <2>2, <2>3, TokensShrink DEF AccountsInv
<1>3. ASSUME NEW q \in Requests
      PROVE  JobTokens(J[q])' /\ JobLinks(J[q])' /\ (J[q].kind \in Saves /\ J[q].fresh => account'[J[q].user].status \in ReadStatus(J[q].kind))
  <2>1. J[q] \in Job /\ JobShape(J[q]) /\ JobTokens(J[q]) /\ JobLinks(J[q]) /\ JobAccount(J[q])
    BY <1>0 DEF AccountsInv, JobsSound
  <2>2. J[q].kind # "idle" => J[q].user \in Users
    BY <2>1 DEF JobShape
  <2>3. JobTokens(J[q])'
    BY <1>0, <1>1, <2>1, JobShrinks DEF AccountsInv
  <2>4. JobLinks(J[q])'
    BY <1>0, <2>1, <2>2, JobLinksStay
  <2>5. J[q].kind \in Saves => J[q].user \in Users
    BY <2>2 DEF Saves
  <2> QED BY <2>1, <2>3, <2>4, <2>5 DEF JobAccount
<1>4. JobsSound'
  BY <1>0, <1>3, RequestsStay
<1>5. PeopleSound'
  BY <1>1 DEF AccountsInv, PeopleSound, VerifiedIsProven
<1>6. LinksSound'
  BY DEF AccountsInv, LinksSound, isUsableLink, LinkRow, Links
<1>7. AnonymizedLeavesNothing'
  <2>1. ASSUME NEW v \in Users, account'[v].status = "ANONYMIZED", v \notin late'
        PROVE  Absent(v)'
    BY <1>1, <2>1, AbsentNow DEF AccountsInv, Absent, Shrunk
  <2> QED BY <1>2, <2>1, AbsentNext
<1> QED BY <1>1, <1>2, <1>4, <1>5, <1>6, <1>7 DEF AccountsInv

\* What a request holds is there.
LEMMA HeldRows ==
  ASSUME AccountsInv, NEW q \in Requests
  PROVE  /\ job[q].kind \in {"refresh", "reuse"} => job[q].item \in TokenIds /\ refreshTokens[job[q].item] # None
         /\ job[q].kind = "refresh" => ~refreshTokens[job[q].item].revoked
         /\ job[q].kind = "resetPassword" => job[q].item \in LinkIds /\ isUsableLink(resetLinks[job[q].item])
         /\ job[q].kind = "confirmEmail" => job[q].item \in LinkIds /\ isUsableLink(verifyLinks[job[q].item])
BY DEF AccountsInv, JobsSound, JobTokens, JobLinks

\* Rows that stay as they are.
LEMMA RowsStay ==
  ASSUME AccountsInv
  PROVE  /\ UNCHANGED <<refreshTokens, lastToken>> => Shrunk
         /\ resetLinks \in Links /\ verifyLinks \in Links /\ account \in [Users -> Account]
         /\ UNCHANGED book => BooksSound'
BY DEF AccountsInv, TokensSound, Shrunk, LinksSound, Links, PeopleSound, BooksSound

\* Removing and editing addresses do.
LEMMA AddressKeeps ==
  ASSUME AccountsAssumption, AccountsInv, NEW u \in Users, NEW a \in AddressIds, removeAddress(u, a) \/ \E d \in BOOLEAN : updateAddress(u, a, d)
  PROVE  AccountsInv'
<1> DEFINE shape == [saved : SUBSET AddressIds, default : AddressIds \cup {None}]
<1>1. UNCHANGED <<account, refreshTokens, lastToken, resetLinks, verifyLinks, job, history>> /\ account[u].status = "ACTIVE" /\ a \in book[u].saved
  BY DEF removeAddress, updateAddress, ResolveSignedInAccount, canSignIn
<1>2. book[u] \in shape /\ book[u].default \in book[u].saved \cup {None} /\ book \in [Users -> shape]
  BY DEF AccountsInv, BooksSound
<1>3. \E next \in shape : book' = [book EXCEPT ![u] = next] /\ next.default \in next.saved \cup {None} /\ next.saved \subseteq book[u].saved
  <2>1. CASE removeAddress(u, a)
    <3> DEFINE next == [saved |-> book[u].saved \ {a}, default |-> IF book[u].default = a THEN None ELSE book[u].default]
    <3>1. next \in shape /\ next.default \in next.saved \cup {None} /\ next.saved \subseteq book[u].saved
      BY <1>2
    <3>2. book' = [book EXCEPT ![u] = next]
      BY <1>2, <2>1 DEF removeAddress
    <3> QED BY <3>1, <3>2
  <2>2. ASSUME NEW d \in BOOLEAN, updateAddress(u, a, d)
        PROVE  \E next \in shape : book' = [book EXCEPT ![u] = next] /\ next.default \in next.saved \cup {None} /\ next.saved \subseteq book[u].saved
    <3> DEFINE choice == IF d THEN a ELSE IF book[u].default = a THEN None ELSE book[u].default
               next == [book[u] EXCEPT !.default = choice]
    <3>1. choice \in book[u].saved \cup {None} /\ choice \in AddressIds \cup {None}
      BY <1>1, <1>2
    <3>2. book' = [book EXCEPT ![u].default = choice]
      BY <1>2, <2>2 DEF updateAddress
    <3> HIDE DEF choice
    <3>3. next \in shape /\ next.saved = book[u].saved /\ next.default = choice
      BY <1>2, <3>1
    <3>4. book' = [book EXCEPT ![u] = next]
      BY <1>2, <3>2
    <3> QED BY <3>1, <3>3, <3>4
  <2> QED BY <2>1, <2>2
<1>4. PICK next \in shape : book' = [book EXCEPT ![u] = next] /\ next.default \in next.saved \cup {None} /\ next.saved \subseteq book[u].saved
  BY <1>3
<1>5. BooksSound' /\ \A v \in Users \ {u} : book'[v] = book[v]
  BY <1>4, BookEdited DEF AccountsInv
<1>6. Shrunk /\ resetLinks' \in Links /\ verifyLinks' \in Links /\ account' \in [Users -> Account]
  BY <1>1, RowsStay
<1>7. \A v \in Users : account[v].status = "ANONYMIZED" => book'[v] = book[v]
  BY <1>1, <1>5
<1> QED BY <1>1, <1>5, <1>6, <1>7, HeldRows, RowsFade

\* Tokens and links that expire do.
LEMMA ExpireKeeps ==
  ASSUME AccountsAssumption, AccountsInv, expire
  PROVE  AccountsInv'
<1>1. UNCHANGED <<book, lastToken, job, history>> /\ BooksSound'
  BY RowsStay DEF expire
<1>2. ASSUME NEW t \in Stored(refreshTokens), refreshTokens' = [refreshTokens EXCEPT ![t].expired = TRUE], UNCHANGED <<account, resetLinks, verifyLinks>>
      PROVE  AccountsInv'
  BY <1>2, <1>1, ExpiredShrink, HeldRows, RowsStay, RowsFade DEF Stored, AccountsInv, TokensSound
<1>3. ASSUME NEW l \in LinkIds, isUsableLink(resetLinks[l]), ~LinkLocked(None, "resetPassword", l),
             resetLinks' = [resetLinks EXCEPT ![l].state = "expired"], UNCHANGED <<account, refreshTokens, verifyLinks>>
      PROVE  AccountsInv'
  <2>1. resetLinks \in Links /\ verifyLinks' \in Links /\ account' \in [Users -> Account] /\ Shrunk
    BY <1>1, <1>3, RowsStay
  <2>2. resetLinks[l] # None
    BY <1>3 DEF isUsableLink
  <2>3. resetLinks' \in Links /\ ~isUsableLink(resetLinks'[l]) /\ \A m \in LinkIds \ {l} : resetLinks'[m] = resetLinks[m]
    BY <1>3, <2>1, <2>2, LinkExpired DEF Lapsed
  <2>4. \A q \in Requests : job[q].kind = "resetPassword" => job[q].item # l
    BY <1>3 DEF LinkLocked, Holds, AccountsAssumption
  <2>5. resetLinks'[l].user = resetLinks[l].user
    BY <1>3, <2>1, <2>2 DEF Links, LinkRow
  <2>6. \A q \in Requests : job[q].kind = "resetPassword" => resetLinks'[job[q].item] = resetLinks[job[q].item]
    BY <2>3, <2>4, HeldRows
  <2>7. \A m \in LinkIds : /\ isUsableLink(resetLinks'[m]) => resetLinks'[m] = resetLinks[m]
                           /\ resetLinks'[m] # None => resetLinks[m] # None /\ resetLinks'[m].user = resetLinks[m].user
    BY <2>2, <2>3, <2>5
  <2>8. \A q \in Requests : /\ job[q].kind \in {"refresh", "reuse"} => refreshTokens'[job[q].item] # None
                            /\ job[q].kind = "refresh" => ~refreshTokens'[job[q].item].revoked
    BY <1>3, HeldRows
  <2> QED BY <1>1, <1>3, <2>1, <2>3, <2>6, <2>7, <2>8, RowsFade
<1>4. ASSUME NEW l \in LinkIds, isUsableLink(verifyLinks[l]), ~LinkLocked(None, "confirmEmail", l),
             verifyLinks' = [verifyLinks EXCEPT ![l].state = "expired"], UNCHANGED <<account, refreshTokens, resetLinks>>
      PROVE  AccountsInv'
  <2>1. verifyLinks \in Links /\ resetLinks' \in Links /\ account' \in [Users -> Account] /\ Shrunk
    BY <1>1, <1>4, RowsStay
  <2>2. verifyLinks[l] # None
    BY <1>4 DEF isUsableLink
  <2>3. verifyLinks' \in Links /\ ~isUsableLink(verifyLinks'[l]) /\ \A m \in LinkIds \ {l} : verifyLinks'[m] = verifyLinks[m]
    BY <1>4, <2>1, <2>2, LinkExpired DEF Lapsed
  <2>4. \A q \in Requests : job[q].kind = "confirmEmail" => job[q].item # l
    BY <1>4 DEF LinkLocked, Holds, AccountsAssumption
  <2>5. verifyLinks'[l].user = verifyLinks[l].user
    BY <1>4, <2>1, <2>2 DEF Links, LinkRow
  <2>6. \A q \in Requests : job[q].kind = "confirmEmail" => verifyLinks'[job[q].item] = verifyLinks[job[q].item]
    BY <2>3, <2>4, HeldRows
  <2>7. \A m \in LinkIds : verifyLinks'[m] # None => verifyLinks[m] # None /\ verifyLinks'[m].user = verifyLinks[m].user
    BY <2>2, <2>3, <2>5
  <2>8. \A q \in Requests : /\ job[q].kind \in {"refresh", "reuse"} => refreshTokens'[job[q].item] # None
                            /\ job[q].kind = "refresh" => ~refreshTokens'[job[q].item].revoked
    BY <1>4, HeldRows
  <2> QED BY <1>1, <1>4, <2>1, <2>3, <2>6, <2>7, <2>8, RowsFade
<1>5. ASSUME NEW u \in Users, account' = [account EXCEPT ![u].active = FALSE], UNCHANGED <<refreshTokens, resetLinks, verifyLinks>>
      PROVE  AccountsInv'
  BY <1>1, <1>5, RowsStay, ActivityOnly, HeldRows, RowsFade DEF AccountsInv
<1> QED BY <1>2, <1>3, <1>4, <1>5 DEF expire

\* The jobs that delete old tokens and links do.
LEMMA CleanUpKeeps ==
  ASSUME AccountsAssumption, AccountsInv, deleteRefreshTokens \/ deleteSpentLinks
  PROVE  AccountsInv'
<1>1. CASE deleteRefreshTokens
  <2>1. UNCHANGED <<account, book, lastToken, resetLinks, verifyLinks, job, history>>
    BY <1>1 DEF deleteRefreshTokens
  <2>2. PICK t \in Stored(refreshTokens) : /\ \A p \in Requests : job[p].kind \in {"refresh", "reuse"} => job[p].item # t
                                           /\ refreshTokens' = [refreshTokens EXCEPT ![t] = None]
    BY <1>1 DEF deleteRefreshTokens
  <2>3. Shrunk /\ \A x \in TokenIds : x # t => refreshTokens'[x] = refreshTokens[x]
    BY <2>1, <2>2 DEF Stored, AccountsInv, TokensSound, Shrunk
  <2>4. \A q \in Requests : /\ job[q].kind \in {"refresh", "reuse"} => refreshTokens'[job[q].item] # None
                            /\ job[q].kind = "refresh" => ~refreshTokens'[job[q].item].revoked
    BY <2>2, <2>3, HeldRows
  <2>5. verifyLinks' \in Links /\ resetLinks' \in Links /\ account' \in [Users -> Account] /\ BooksSound'
    BY <2>1, RowsStay
  <2> QED BY <2>1, <2>3, <2>4, <2>5, RowsFade
<1>2. CASE deleteSpentLinks
  <2>1. UNCHANGED <<account, book, refreshTokens, lastToken, job, history>>
    BY <1>2 DEF deleteSpentLinks
  <2>2. verifyLinks \in Links /\ resetLinks \in Links /\ account' \in [Users -> Account] /\ BooksSound' /\ Shrunk
    BY <2>1, RowsStay
  <2>3. \A q \in Requests : /\ job[q].kind \in {"refresh", "reuse"} => refreshTokens'[job[q].item] # None
                            /\ job[q].kind = "refresh" => ~refreshTokens'[job[q].item].revoked
    BY <2>1, HeldRows
  <2>4. /\ resetLinks' \in Links /\ verifyLinks' \in Links
        /\ \A l \in LinkIds : /\ resetLinks'[l] = resetLinks[l] \/ (resetLinks'[l] = None /\ ~isUsableLink(resetLinks[l]))
                              /\ verifyLinks'[l] = verifyLinks[l] \/ (verifyLinks'[l] = None /\ ~isUsableLink(verifyLinks[l]))
    BY <1>2, <2>2 DEF deleteSpentLinks, Links, Stored
  <2>5. \A l \in LinkIds : /\ isUsableLink(resetLinks'[l]) => resetLinks'[l] = resetLinks[l]
                           /\ resetLinks'[l] # None => resetLinks[l] # None /\ resetLinks'[l].user = resetLinks[l].user
                           /\ verifyLinks'[l] # None => verifyLinks[l] # None /\ verifyLinks'[l].user = verifyLinks[l].user
    BY <2>4 DEF isUsableLink
  <2>6. \A q \in Requests : /\ job[q].kind = "resetPassword" => resetLinks'[job[q].item] = resetLinks[job[q].item]
                            /\ job[q].kind = "confirmEmail" => verifyLinks'[job[q].item] = verifyLinks[job[q].item]
    BY <2>4, HeldRows
  <2> QED BY <2>1, <2>2, <2>3, <2>4, <2>5, <2>6, RowsFade
<1> QED BY <1>1, <1>2

\* Registering a customer does.
LEMMA RegisterKeeps ==
  ASSUME AccountsAssumption, AccountsInv, NEW u \in Users, NEW e \in Emails, RegisterCustomer(u, e)
  PROVE  AccountsInv'
<1> DEFINE row == [status |-> "ACTIVE", email |-> e, verified |-> FALSE, active |-> TRUE]
<1>0. PICK J : J = job
  OBVIOUS
<1>1. /\ account[u].status = "NONE" /\ account' = [account EXCEPT ![u] = row] /\ verifyLinks' \in issue(verifyLinks, {}, u, e)
      /\ UNCHANGED <<book, refreshTokens, lastToken, resetLinks, job, history>>
  BY DEF RegisterCustomer
<1>2. row \in Account /\ row.email = e /\ ~row.verified /\ row.status = "ACTIVE"
  BY DEF Account, Statuses
<1>3. account[u].email = None /\ e # None /\ None \notin Emails
  BY <1>1 DEF AccountsInv, PeopleSound, AccountsAssumption
<1>4. UNCHANGED <<ended, raced, late, proven, crossed, offered>>
  BY <1>1 DEF history
<1> HIDE DEF row
<1>5. account' \in [Users -> Account] /\ account'[u] = row /\ \A v \in Users \ {u} : account'[v] = account[v]
  BY <1>1, <1>2 DEF AccountsInv, PeopleSound
<1>6. PICK next : next = verifyLinks'
  OBVIOUS
<1>7. next \in issue(verifyLinks, {}, u, e) /\ verifyLinks \in Links
  BY <1>1, <1>6, RowsStay
<1>8. /\ next \in Links
      /\ \A m \in LinkIds : next[m] # None => next[m].user = u \/ (verifyLinks[m] # None /\ next[m].user = verifyLinks[m].user)
  BY <1>7, LinkIssued
<1>9. PICK n \in LinkIds : IssuedAs(n, verifyLinks, next, {}, u, e)
  BY <1>7, LinkIssued
<1>10. verifyLinks[n] = None /\ \A m \in LinkIds \ {n} : next[m] = verifyLinks[m]
  BY <1>9 DEF IssuedAs
<1>11. TokensSound'
  BY <1>1, <1>4 DEF AccountsInv, TokensSound, SessionOf, SessionsEnd, OneLiveToken, EndedUnlessRaced, Live, Stored
<1>12. PeopleSound'
  BY <1>2, <1>3, <1>4, <1>5 DEF AccountsInv, PeopleSound, VerifiedIsProven
<1>13. LinksSound'
  <2>1. ASSUME NEW m \in LinkIds, isUsableLink(resetLinks[m]), ~resetLinks[m].crossed
        PROVE  resetLinks[m].sentTo = account'[resetLinks[m].user].email
    BY <2>1, <1>3, <1>5 DEF AccountsInv, LinksSound, isUsableLink, LinkRow
  <2> QED BY <1>1, <1>6, <1>8, <2>1 DEF AccountsInv, LinksSound, Links, isUsableLink
<1>14. ASSUME NEW q \in Requests
       PROVE  JobTokens(J[q])' /\ JobLinks(J[q])' /\ (J[q].kind \in Saves /\ J[q].fresh => account'[J[q].user].status \in ReadStatus(J[q].kind))
  <2>1. J[q] \in Job /\ JobShape(J[q]) /\ JobTokens(J[q]) /\ JobLinks(J[q]) /\ JobAccount(J[q])
    BY <1>0 DEF AccountsInv, JobsSound
  <2>2. JobTokens(J[q])'
    BY <1>1, RowsStay, <1>0, HeldRows, <1>4, <2>1, JobShrinks DEF AccountsInv
  <2>3. JobLinks(J[q])'
    <3>1. ASSUME J[q].kind = "confirmEmail"
          PROVE  verifyLinks'[J[q].item] = verifyLinks[J[q].item] /\ account'[J[q].user].email = account[J[q].user].email
      BY <2>1, <3>1, <1>7, <1>10, <1>3, <1>5, <1>6 DEF JobLinks, JobShape, isUsableLink, Links, LinkRow
    <3> QED BY <1>1, <2>1, <3>1, JobLinksStay
  <2>4. J[q].kind \in Saves /\ J[q].fresh => account'[J[q].user].status \in ReadStatus(J[q].kind)
    BY <2>1, <1>1, <1>5 DEF JobAccount, JobShape, Saves, ReadStatus
  <2> QED BY <2>2, <2>3, <2>4
<1>15. JobsSound'
  BY <1>0, <1>1, <1>14, RequestsStay
<1>16. AnonymizedLeavesNothing'
  <2>1. ASSUME NEW v \in Users, account'[v].status = "ANONYMIZED", v \notin late'
        PROVE  Absent(v)'
    <3>1. v # u /\ v \notin late /\ account[v].status = "ANONYMIZED"
      BY <1>2, <1>4, <1>5, <2>1
    <3>2. Absent(v)
      BY <3>1, AbsentNow DEF AccountsInv
    <3>3. \A m \in LinkIds : verifyLinks'[m] # None => verifyLinks'[m].user # v
      BY <1>6, <1>8, <3>1, <3>2 DEF Absent
    <3> QED BY <1>1, <3>2, <3>3 DEF Absent
  <2> QED BY <1>11, <2>1, AbsentNext
<1>17. BooksSound' /\ offered' \in Scenarios
  BY <1>1, <1>4, RowsStay DEF AccountsInv
<1> QED BY <1>11, <1>12, <1>13, <1>15, <1>16, <1>17 DEF AccountsInv

\* A step that is about something else does.
LEMMA AccountsStutter ==
  ASSUME AccountsInv, UNCHANGED accountsVars
  PROVE  AccountsInv'
<1>1. UNCHANGED <<account, book, refreshTokens, lastToken, resetLinks, verifyLinks, job, ended, raced, late, proven, crossed, offered>>
  BY DEF accountsVars, tables, history
<1>2. TokensSound'
  BY <1>1 DEF AccountsInv, TokensSound, SessionOf, SessionsEnd, OneLiveToken, EndedUnlessRaced, Live, Stored
<1>3. PeopleSound' /\ LinksSound'
  BY <1>1, SamePeople DEF AccountsInv, PeopleSound
<1>4. Shrunk /\ BooksSound'
  BY <1>1, RowsStay
<1>5. AnonymizedLeavesNothing'
  BY <1>1, <1>2, <1>4, AbsentAfter
<1>6. JobsSound'
  <2>1. PICK J : J = job
    OBVIOUS
  <2>2. ASSUME NEW q \in Requests
        PROVE  JobTokens(J[q])' /\ JobLinks(J[q])' /\ (J[q].kind \in Saves /\ J[q].fresh => account'[J[q].user].status \in ReadStatus(J[q].kind))
    BY <2>1, <1>1, HeldRows, <1>4, JobShrinks, JobLinksStay DEF AccountsInv, JobsSound, JobAccount
  <2> QED BY <1>1, <2>1, <2>2, RequestsStay
<1> QED BY <1>1, <1>2, <1>3, <1>4, <1>5, <1>6 DEF AccountsInv

\* No account is there at first.
LEMMA AccountsStart ==
  ASSUME AccountsAssumption, AccountsInit
  PROVE  AccountsInv
<1>1. 0 \in 0..MaxTokens /\ MaxTokens \in Nat
  BY DEF AccountsAssumption
<1>2. TokensSound
  BY <1>1 DEF AccountsInit, TokensSound, SessionsEnd, OneLiveToken, EndedUnlessRaced, Live, Stored
<1>3. LinksSound
  BY DEF AccountsInit, LinksSound, isUsableLink
<1>4. PeopleSound
  BY DEF AccountsInit, PeopleSound, Account, Statuses, VerifiedIsProven
<1>5. BooksSound
  <2>1. Cardinality({}) <= AddressLimit
    BY FS_EmptySet DEF AccountsAssumption
  <2> QED BY <2>1 DEF AccountsInit, BooksSound
<1>6. JobsSound
  <2>1. \A q \in Requests : job[q] = Idle
    BY DEF AccountsInit
  <2>2. job \in [Requests -> Job]
    BY IdleJob DEF AccountsInit
  <2> QED BY <2>1, <2>2, IdleJob DEF JobsSound, JobShape, JobTokens, JobLinks, JobAccount, NotBoth, Saves
<1>7. AnonymizedLeavesNothing
  BY DEF AccountsInit, AnonymizedLeavesNothing
<1>8. offered \in Scenarios
  BY DEF AccountsInit
<1> QED BY <1>2, <1>3, <1>4, <1>5, <1>6, <1>7, <1>8 DEF AccountsInv

\* Each step of a request keeps the invariant.
LEMMA RequestStepKeeps ==
  ASSUME AccountsAssumption, AccountsInv, NEW p \in Requests, RequestStep(p)
  PROVE  AccountsInv'
<1>1. CASE \E u \in Users : \/ signIn(p, u) \/ rectify(p, u) \/ suspend(p, u) \/ reactivateCustomer(p, u) \/ anonymize(p, u)
                            \/ requestPasswordReset(p, u) \/ resendEmailVerification(p, u)
                            \/ \E e \in Emails : changeEmail(p, u, e)
                            \/ \E s \in TokenIds : changePassword(p, u, s) \/ addAddress(p, u, s)
  BY <1>1, PlainKeep
<1>2. CASE \E u \in Users : anonymizeInactive(p, u) \/ \E s \in TokenIds : signOut(p, u, s)
  BY <1>2, InactiveKeeps, SignOutKeeps
<1>3. CASE \/ \E t \in TokenIds : refreshSession(p, t)
           \/ \E l \in LinkIds : resetPassword(p, l) \/ confirmEmail(p, l)
  BY <1>3, RefreshKeeps, LinkBegins
<1>4. CASE signInEnd(p) \/ rotate(p) \/ revokeSession(p) \/ save(p)
  BY <1>4, SignInEndKeeps, RotateKeeps, RevokeSessionKeeps, SaveKeeps
<1>5. CASE commitChangePassword(p) \/ commitResetPassword(p) \/ commitSuspend(p) \/ commitReactivate(p)
  BY <1>5, PasswordKeeps, ResetKeeps, SuspendKeeps, ReactivateKeeps
<1>6. CASE commitRectify(p) \/ commitConfirmEmail(p) \/ commitChangeEmail(p) \/ commitAnonymize(p)
  BY <1>6, ReactivateKeeps, ConfirmKeeps, EmailKeeps, AnonymizeKeeps
<1>7. CASE requestPasswordResetEnd(p) \/ resendEmailVerificationEnd(p)
  BY <1>7, ResetAskedKeeps, VerificationAskedKeeps
<1>8. CASE \/ \E a \in AddressIds, d \in BOOLEAN : addAddressEnd(p, a, d)
           \/ \E q \in Requests \ {p} : abortDeadlocked(p, q)
  BY <1>8, AddressAddedKeeps, AbortKeeps
<1> QED BY <1>1, <1>2, <1>3, <1>4, <1>5, <1>6, <1>7, <1>8 DEF RequestStep

\* Each step on accounts does.
LEMMA AccountsNextKeeps ==
  ASSUME AccountsAssumption, AccountsInv, [AccountsNext]_accountsVars
  PROVE  AccountsInv'
<1>1. CASE \E u \in Users, e \in Emails : RegisterCustomer(u, e)
  BY <1>1, RegisterKeeps
<1>2. CASE \E u \in Users, a \in AddressIds : removeAddress(u, a) \/ \E d \in BOOLEAN : updateAddress(u, a, d)
  BY <1>2, AddressKeeps
<1>3. CASE \E p \in Requests : RequestStep(p)
  BY <1>3, RequestStepKeeps
<1>4. CASE expire \/ deleteRefreshTokens \/ deleteSpentLinks
  BY <1>4, ExpireKeeps, CleanUpKeeps
<1>5. CASE UNCHANGED accountsVars
  BY <1>5, AccountsStutter
<1> QED BY <1>1, <1>2, <1>3, <1>4, <1>5 DEF AccountsNext

-----------------------------------------------------------------------------
(* Accounts: what a step never does.                                       *)

\* The actions that touch neither a link nor an account's status.
Idles == UNCHANGED <<resetLinks, verifyLinks>> /\ \A v \in Users : account'[v].status = account[v].status

\* Steps of requests change nobody's status or links, but for those that are listed.
LEMMA RequestsIdle ==
  ASSUME AccountsInv, NEW p \in Requests, RequestStep(p)
  PROVE  \/ Idles \/ commitResetPassword(p) \/ commitSuspend(p) \/ commitReactivate(p) \/ commitConfirmEmail(p) \/ commitChangeEmail(p)
         \/ commitAnonymize(p) \/ requestPasswordResetEnd(p) \/ resendEmailVerificationEnd(p)
<1>1. CASE UNCHANGED tables
  BY <1>1 DEF tables, Idles
<1>2. CASE \E u \in Users : \/ signIn(p, u) \/ rectify(p, u) \/ suspend(p, u) \/ reactivateCustomer(p, u) \/ anonymize(p, u)
                            \/ requestPasswordReset(p, u) \/ resendEmailVerification(p, u) \/ anonymizeInactive(p, u)
                            \/ \E e \in Emails : changeEmail(p, u, e)
                            \/ \E s \in TokenIds : changePassword(p, u, s) \/ addAddress(p, u, s) \/ signOut(p, u, s)
  <2>1. UNCHANGED tables
    BY <1>2 DEF begin, signIn, rectify, suspend, reactivateCustomer, anonymize, requestPasswordReset, resendEmailVerification, anonymizeInactive,
                changeEmail, changePassword, addAddress, signOut
  <2> QED BY <1>1, <2>1
<1>3. CASE \/ \E t \in TokenIds : refreshSession(p, t)
           \/ \E l \in LinkIds : resetPassword(p, l) \/ confirmEmail(p, l)
  BY <1>3, <1>1 DEF begin, refreshSession, resetPassword, confirmEmail
<1>4. CASE signInEnd(p) \/ rotate(p)
  <2> DEFINE u == job[p].user
  <2>1. account' = [account EXCEPT ![u].active = TRUE] /\ UNCHANGED <<resetLinks, verifyLinks>>
    BY <1>4 DEF signInEnd, rotate
  <2>2. u \in Users
    BY <1>4 DEF signInEnd, rotate, Holds, AccountsInv, JobsSound, JobShape
  <2> HIDE DEF u
  <2> QED BY <2>1, <2>2, ActivityOnly DEF AccountsInv, Idles
<1>5. CASE revokeSession(p) \/ save(p) \/ commitChangePassword(p) \/ commitRectify(p)
  <2>1. UNCHANGED <<account, resetLinks, verifyLinks>>
    BY <1>5 DEF revokeSession, save, commitChangePassword, revokeAllOf, commitRectify, tables
  <2> QED BY <2>1 DEF Idles
<1>6. CASE \/ \E a \in AddressIds, d \in BOOLEAN : addAddressEnd(p, a, d)
           \/ \E q \in Requests \ {p} : abortDeadlocked(p, q)
  BY <1>6 DEF addAddressEnd, abortDeadlocked, tables, Idles
<1> QED BY <1>2, <1>3, <1>4, <1>5, <1>6 DEF RequestStep

\* What becomes of a link: it stays, is new, worked before, or goes.
LinksFollow(rows, next) == \A l \in LinkIds : next[l] = rows[l] \/ rows[l] = None \/ isUsableLink(rows[l]) \/ next[l] = None
\* Links that follow each other stay used once they are.
LEMMA FollowsSpent ==
  ASSUME NEW rows, NEW next, LinksFollow(rows, next)
  PROVE  SpentStay(rows, next)
BY DEF LinksFollow, SpentStay, isUsableLink

\* Issuing a link leaves used ones used.
LEMMA IssueFollows ==
  ASSUME NEW rows \in Links, NEW targets, NEW u \in Users, NEW address \in Emails, NEW next \in issue(rows, targets, u, address)
  PROVE  LinksFollow(rows, next)
<1>1. PICK l \in LinkIds : IssuedAs(l, rows, next, targets, u, address)
  BY LinkIssued
<1> QED BY <1>1 DEF IssuedAs, LinksFollow

\* The status of an account only moves on, or back by a reactivation.
StatusStep(v) ==
  \/ account'[v].status = account[v].status
  \/ account[v].status \in {"NONE", "ACTIVE"}
  \/ account[v].status = "SUSPENDED" /\ account'[v].status = "ANONYMIZED"
  \/ account[v].status = "SUSPENDED" /\ \E p \in Requests : Holds(p, "reactivate") /\ job'[p] = Idle

StepIsSafe == /\ SpentStay(resetLinks, resetLinks') /\ SpentStay(verifyLinks, verifyLinks')
              /\ \A v \in Users : StatusStep(v)

\* Links that follow each other and status changes that are allowed make a safe step.
LEMMA SafeFrom ==
  ASSUME LinksFollow(resetLinks, resetLinks'), LinksFollow(verifyLinks, verifyLinks'), \A v \in Users : StatusStep(v)
  PROVE  StepIsSafe
<1>1. \A next : LinksFollow(resetLinks, next) => SpentStay(resetLinks, next)
  BY FollowsSpent
<1>2. \A next : LinksFollow(verifyLinks, next) => SpentStay(verifyLinks, next)
  BY FollowsSpent
<1> QED BY <1>1, <1>2 DEF StepIsSafe

\* A step that leaves status and links is safe.
LEMMA IdleIsSafe ==
  ASSUME Idles
  PROVE  StepIsSafe
BY SafeFrom DEF Idles, LinksFollow, StatusStep

\* Each step that writes them is safe.
LEMMA WriterIsSafe ==
  ASSUME AccountsAssumption, AccountsInv, NEW p \in Requests,
         \/ commitResetPassword(p) \/ commitSuspend(p) \/ commitReactivate(p) \/ commitConfirmEmail(p) \/ commitChangeEmail(p)
         \/ commitAnonymize(p) \/ requestPasswordResetEnd(p) \/ resendEmailVerificationEnd(p)
  PROVE  StepIsSafe
<1> DEFINE u == job[p].user
<1>0. resetLinks \in Links /\ verifyLinks \in Links /\ account \in [Users -> Account]
  BY RowsStay
<1>1. CASE commitResetPassword(p)
  <2> DEFINE l == job[p].item
  <2>1. Commits(p, "resetPassword") /\ account' = [account EXCEPT ![u].verified = TRUE] /\ resetLinks' = markUsed(resetLinks, l) /\ verifyLinks' = verifyLinks
    BY <1>1 DEF commitResetPassword, revokeAllOf
  <2>2. "resetPassword" \in Saves
    BY DEF Saves
  <2>3. u \in Users /\ l \in LinkIds /\ isUsableLink(resetLinks[l])
    BY <2>1, <2>2, Committing DEF JobLinks
  <2>4. resetLinks[l] # None
    BY <2>3 DEF isUsableLink
  <2> HIDE DEF u, l
  <2>5. \A m \in LinkIds \ {l} : resetLinks'[m] = resetLinks[m]
    BY <1>0, <2>1, <2>3, <2>4, LinkMarked
  <2>6. \A v \in Users : account'[v].status = account[v].status
    BY <2>1, <2>3, VerifiedOnly DEF AccountsInv
  <2> QED BY <2>1, <2>3, <2>5, <2>6, SafeFrom DEF LinksFollow, StatusStep
<1>2. CASE commitSuspend(p)
  <2>1. Commits(p, "suspend") /\ account' = [account EXCEPT ![u].status = "SUSPENDED"] /\ UNCHANGED <<resetLinks, verifyLinks>>
    BY <1>2 DEF commitSuspend, revokeAllOf
  <2>2. "suspend" \in Saves
    BY DEF Saves
  <2>3. u \in Users /\ account[u].status = "ACTIVE"
    BY <2>1, <2>2, Committing DEF ReadStatus
  <2> HIDE DEF u
  <2>4. \A v \in Users \ {u} : account'[v] = account[v]
    BY <1>0, <2>1, <2>3
  <2> QED BY <2>1, <2>3, <2>4, SafeFrom DEF LinksFollow, StatusStep
<1>3. CASE commitReactivate(p)
  <2>1. Commits(p, "reactivate") /\ job' = saved(p, u) /\ account' = [account EXCEPT ![u].status = "ACTIVE"] /\ UNCHANGED <<resetLinks, verifyLinks>>
    BY <1>3 DEF commitReactivate
  <2>2. Holds(p, "reactivate")
    BY <2>1 DEF Commits
  <2>3. job'[p] = Idle
    BY <2>1, RequestsAfter DEF AccountsInv
  <2>4. "reactivate" \in Saves
    BY DEF Saves
  <2>5. u \in Users /\ account[u].status = "SUSPENDED"
    BY <2>1, <2>4, Committing DEF ReadStatus
  <2> HIDE DEF u
  <2>6. \A v \in Users \ {u} : account'[v] = account[v]
    BY <1>0, <2>1, <2>5
  <2> QED BY <2>1, <2>2, <2>3, <2>5, <2>6, SafeFrom DEF LinksFollow, StatusStep
<1>4. CASE commitConfirmEmail(p)
  <2> DEFINE l == job[p].item
  <2>1. Commits(p, "confirmEmail") /\ account' = [account EXCEPT ![u].verified = TRUE] /\ verifyLinks' = markUsed(verifyLinks, l) /\ resetLinks' = resetLinks
    BY <1>4 DEF commitConfirmEmail
  <2>2. "confirmEmail" \in Saves
    BY DEF Saves
  <2>3. u \in Users /\ l \in LinkIds /\ isUsableLink(verifyLinks[l])
    BY <2>1, <2>2, Committing DEF JobLinks
  <2>4. verifyLinks[l] # None
    BY <2>3 DEF isUsableLink
  <2> HIDE DEF u, l
  <2>5. \A m \in LinkIds \ {l} : verifyLinks'[m] = verifyLinks[m]
    BY <1>0, <2>1, <2>3, <2>4, LinkMarked
  <2>6. \A v \in Users : account'[v].status = account[v].status
    BY <2>1, <2>3, VerifiedOnly DEF AccountsInv
  <2> QED BY <2>1, <2>3, <2>5, <2>6, SafeFrom DEF LinksFollow, StatusStep
<1>5. CASE commitChangeEmail(p)
  <2> DEFINE e == job[p].email
  <2>1. /\ Commits(p, "changeEmail") /\ account' = [account EXCEPT ![u].email = e, ![u].verified = FALSE]
        /\ verifyLinks' \in issue(verifyLinks, PendingOf(verifyLinks, u), u, e)
        /\ resetLinks' = invalidate(resetLinks, PendingOf(resetLinks, u))
    BY <1>5 DEF commitChangeEmail
  <2>2. "changeEmail" \in Saves
    BY DEF Saves
  <2>3. u \in Users /\ e \in Emails /\ account[u].status = "ACTIVE"
    BY <2>1, <2>2, Committing DEF JobShape, ReadStatus
  <2> HIDE DEF u, e
  <2>4. LinksFollow(verifyLinks, verifyLinks')
    BY <1>0, <2>1, <2>3, IssueFollows
  <2>5. LinksFollow(resetLinks, resetLinks')
    BY <1>0, <2>1, LinksInvalidated DEF LinksFollow
  <2>6. \A v \in Users \ {u} : account'[v] = account[v]
    BY <1>0, <2>1, <2>3
  <2>7. \A v \in Users : StatusStep(v)
    BY <2>3, <2>6 DEF StatusStep
  <2> QED BY <2>4, <2>5, <2>7, SafeFrom
<1>6. CASE commitAnonymize(p)
  <2>1. /\ Commits(p, "anonymize") /\ resetLinks' = without(resetLinks, u) /\ verifyLinks' = without(verifyLinks, u)
        /\ account' = [account EXCEPT ![u].status = "ANONYMIZED", ![u].email = None, ![u].verified = FALSE]
    BY <1>6 DEF commitAnonymize, deleteOf
  <2>2. "anonymize" \in Saves
    BY DEF Saves
  <2>3. u \in Users /\ account[u].status \in {"ACTIVE", "SUSPENDED"}
    BY <2>1, <2>2, Committing DEF ReadStatus
  <2> HIDE DEF u
  <2>4. LinksFollow(resetLinks, resetLinks') /\ LinksFollow(verifyLinks, verifyLinks')
    BY <1>0, <2>1, LinksWithout DEF LinksFollow
  <2>5. (\A v \in Users \ {u} : account'[v] = account[v]) /\ account'[u].status = "ANONYMIZED"
    BY <1>0, <2>1, <2>3 DEF Account
  <2>6. \A v \in Users : StatusStep(v)
    BY <2>3, <2>5 DEF StatusStep
  <2> QED BY <2>4, <2>6, SafeFrom
<1>7. CASE requestPasswordResetEnd(p)
  <2> DEFINE e == job[p].email
             targets == job[p].targets
  <2>1. /\ Holds(p, "requestReset") /\ UNCHANGED <<account, verifyLinks>> /\ resetLinks' \in issue(resetLinks, targets, u, e)
    BY <1>7 DEF requestPasswordResetEnd
  <2>2. u \in Users /\ e \in Emails
    BY <2>1 DEF Holds, AccountsInv, JobsSound, JobShape
  <2> HIDE DEF u, e, targets
  <2>3. LinksFollow(resetLinks, resetLinks')
    BY <1>0, <2>1, <2>2, IssueFollows
  <2> QED BY <2>1, <2>3, SafeFrom DEF LinksFollow, StatusStep
<1>8. CASE resendEmailVerificationEnd(p)
  <2> DEFINE e == job[p].email
             targets == job[p].targets
  <2>1. /\ Holds(p, "resendVerification") /\ UNCHANGED <<account, resetLinks>> /\ verifyLinks' \in issue(verifyLinks, targets, u, e)
    BY <1>8 DEF resendEmailVerificationEnd
  <2>2. u \in Users /\ e \in Emails
    BY <2>1 DEF Holds, AccountsInv, JobsSound, JobShape
  <2> HIDE DEF u, e, targets
  <2>3. LinksFollow(verifyLinks, verifyLinks')
    BY <1>0, <2>1, <2>2, IssueFollows
  <2> QED BY <2>1, <2>3, SafeFrom DEF LinksFollow, StatusStep
<1> QED BY <1>1, <1>2, <1>3, <1>4, <1>5, <1>6, <1>7, <1>8

\* Each step on accounts is.
LEMMA AccountsStepIsSafe ==
  ASSUME AccountsAssumption, AccountsInv, AccountsNext
  PROVE  StepIsSafe
<1>0. resetLinks \in Links /\ verifyLinks \in Links /\ account \in [Users -> Account]
  BY RowsStay
<1>1. ASSUME NEW u \in Users, NEW e \in Emails, RegisterCustomer(u, e)
      PROVE  StepIsSafe
  <2> DEFINE row == [status |-> "ACTIVE", email |-> e, verified |-> FALSE, active |-> TRUE]
  <2>1. /\ account[u].status = "NONE" /\ account' = [account EXCEPT ![u] = row] /\ verifyLinks' \in issue(verifyLinks, {}, u, e) /\ resetLinks' = resetLinks
    BY <1>1 DEF RegisterCustomer
  <2> HIDE DEF row
  <2>2. LinksFollow(verifyLinks, verifyLinks')
    BY <1>0, <2>1, IssueFollows
  <2>3. \A v \in Users \ {u} : account'[v] = account[v]
    BY <1>0, <2>1
  <2>4. \A v \in Users : StatusStep(v)
    BY <2>1, <2>3 DEF StatusStep
  <2> QED BY <2>1, <2>2, <2>4, SafeFrom DEF LinksFollow
<1>2. CASE \E u \in Users, a \in AddressIds : removeAddress(u, a) \/ \E d \in BOOLEAN : updateAddress(u, a, d)
  BY <1>2, IdleIsSafe DEF removeAddress, updateAddress, Idles
<1>3. ASSUME NEW p \in Requests, RequestStep(p)
      PROVE  StepIsSafe
  BY <1>3, RequestsIdle, IdleIsSafe, WriterIsSafe
<1>4. CASE expire
  <2>1. CASE UNCHANGED <<account, resetLinks, verifyLinks>>
    BY <2>1, IdleIsSafe DEF Idles
  <2>2. ASSUME NEW l \in LinkIds, isUsableLink(resetLinks[l]), resetLinks' = [resetLinks EXCEPT ![l].state = "expired"], UNCHANGED <<account, verifyLinks>>
        PROVE  StepIsSafe
    BY <1>0, <2>2, SafeFrom DEF Links, LinksFollow, StatusStep
  <2>3. ASSUME NEW l \in LinkIds, isUsableLink(verifyLinks[l]), verifyLinks' = [verifyLinks EXCEPT ![l].state = "expired"], UNCHANGED <<account, resetLinks>>
        PROVE  StepIsSafe
    BY <1>0, <2>3, SafeFrom DEF Links, LinksFollow, StatusStep
  <2>4. ASSUME NEW u \in Users, account' = [account EXCEPT ![u].active = FALSE], UNCHANGED <<resetLinks, verifyLinks>>
        PROVE  StepIsSafe
    BY <2>4, ActivityOnly, IdleIsSafe DEF AccountsInv, Idles
  <2> QED BY <1>4, <2>1, <2>2, <2>3, <2>4 DEF expire
<1>5. CASE deleteRefreshTokens
  BY <1>5, IdleIsSafe DEF deleteRefreshTokens, Idles
<1>6. CASE deleteSpentLinks
  BY <1>0, <1>6, SafeFrom DEF deleteSpentLinks, LinksFollow, Stored, Links, StatusStep
<1> QED BY <1>1, <1>2, <1>3, <1>4, <1>5, <1>6 DEF AccountsNext

\* The invariant has what is promised of sessions, addresses and anonymized accounts.
LEMMA AccountsInvShows ==
  ASSUME AccountsAssumption, AccountsInv
  PROVE  AccountsTypeOK /\ SessionsEnd /\ VerifiedIsProven /\ AnonymizedLeavesNothing
<1>1. ended \subseteq TokenIds
  BY DEF AccountsInv, TokensSound, TokenIds, AccountsAssumption
<1> QED BY <1>1 DEF AccountsInv, AccountsTypeOK, TokensSound, LinksSound, PeopleSound, BooksSound, JobsSound

\* An account, its sessions and its links: a session has one live token at most and ends for good but for the requests that
\* were opening it, an address is verified only by who proved to read it, a spent link never works again, and an
\* anonymized account leaves nothing and stays so (src/modules/identity-access).
THEOREM AccountsAlwaysHold == AccountsSpec => AccountsHold
<1>1. AccountsInit => AccountsInv
  BY AccountsAssumption, AccountsStart
<1>2. AccountsInv /\ [AccountsNext]_accountsVars => AccountsInv'
  BY AccountsAssumption, AccountsNextKeeps
<1>3. AccountsInv => AccountsTypeOK /\ SessionsEnd /\ VerifiedIsProven /\ AnonymizedLeavesNothing
  BY AccountsAssumption, AccountsInvShows
<1>4. AccountsInv /\ [AccountsNext]_accountsVars =>
        [\A l \in LinkIds :
          /\ resetLinks[l] # None /\ resetLinks[l].state # "pending" => resetLinks'[l] \in {resetLinks[l], None}
          /\ verifyLinks[l] # None /\ verifyLinks[l].state # "pending" => verifyLinks'[l] \in {verifyLinks[l], None}]_accountsVars
  BY AccountsAssumption, AccountsStepIsSafe DEF StepIsSafe, SpentStay
<1>5. AccountsInv /\ [AccountsNext]_accountsVars =>
        [\A u \in Users :
          /\ account[u].status = "ANONYMIZED" => account'[u].status = "ANONYMIZED" /\ account'[u].email = None
                                                  /\ ~account'[u].verified
          /\ account[u].status = "SUSPENDED" /\ account'[u].status = "ACTIVE" =>
               \E p \in Requests : Holds(p, "reactivate") /\ job'[p] = Idle]_accountsVars
  BY AccountsAssumption, AccountsStepIsSafe, AccountsNextKeeps DEF StepIsSafe, AccountsInv, PeopleSound, StatusStep
<1> QED BY <1>1, <1>2, <1>3, <1>4, <1>5, PTL DEF AccountsSpec, AccountsHold, LinksAreSpent, AnonymizedIsFinal
=============================================================================
