----------------------------- MODULE Permissions -----------------------------
(***************************************************************************)
(* Who may read, write and manage one knowledge base and one document, and *)
(* the transactions that change it.                                        *)
(*                                                                         *)
(* A grant names a user or a department; in a grant row the other column   *)
(* is NULL, and a member without a department asks with NULL.  The access  *)
(* conditions are therefore evaluated in SQL's three-valued logic, in the  *)
(* two forms the code has: SQL text and SQLAlchemy expressions.            *)
(* The base is active and the departments are active throughout.           *)
(***************************************************************************)
EXTENDS Naturals, FiniteSets

CONSTANTS
  Users, Departments,
  NULL,
  MaxClearance,   \* bound: confidentiality and clearance
  MaxVersion,     \* bound: recorded changes (acl_version)
  Requests        \* permission requests under way at once

ASSUME PermissionBoundsAssumption ==
  /\ MaxClearance \in Nat /\ MaxVersion \in Nat
  /\ NULL \notin Users \cup Departments /\ Users \cap Departments = {}
  /\ NULL \notin {"T", "F"} /\ Users # {}

VARIABLES
  member,        \* tenant_member rows, external to the program
  base,          \* knowledge_base_grant: permission by subject, "none" without a row
  shares,        \* document_access_grant, likewise
  document,      \* department, creator and confidentiality of the document
  version,       \* acl_version
  request        \* permission requests under way

permissionVars == <<member, base, shares, document, version, request>>

Subjects == Users \cup Departments
Levels == {"READ", "WRITE", "ADMIN"}
ShareLevels == {"READ", "WRITE"}
Confidentiality == 0..MaxClearance

Member == [department : Departments \cup {NULL}, clearance : Confidentiality,
           active : BOOLEAN]

Change ==
  [on : {"base"}, subject : Subjects, level : Levels \cup {"none"}]
    \cup [on : {"document"}, subject : Subjects, level : ShareLevels \cup {"none"}]
    \cup [on : {"confidentiality"}, subject : {NULL}, level : Confidentiality]

Request ==
  [phase : {"locked", "written"}, user : Users,
   identity : Member,             \* as the request was authenticated
   change : Change]

NoRequest == [phase |-> "idle"]

PermissionTypeOK ==
  /\ member \in [Users -> Member]
  /\ base \in [Subjects -> Levels \cup {"none"}]
  /\ shares \in [Subjects -> ShareLevels \cup {"none"}]
  /\ document \in [department : Departments \cup {NULL}, creator : Users,
                   confidentiality : Confidentiality]
  /\ version \in 0..MaxVersion
  /\ DOMAIN request = Requests
  /\ \A r \in Requests : request[r] \in Request \cup {NoRequest}

-----------------------------------------------------------------------------
(* The access conditions *)

Truth(b) == IF b THEN "T" ELSE "F"
And(S) == IF "F" \in S THEN "F" ELSE IF NULL \in S THEN NULL ELSE "T"
Or(S) == IF "T" \in S THEN "T" ELSE IF NULL \in S THEN NULL ELSE "F"
Equal(x, y) == IF NULL \in {x, y} THEN NULL ELSE Truth(x = y)
Exists(rows, Matches(_)) == Truth(\E s \in rows : Matches(s) = "T")

(* permissions_for(): the levels a grant may have to give a permission.    *)
PermissionsFor(permission) ==
  CASE permission = "READ" -> Levels
    [] permission = "WRITE" -> {"WRITE", "ADMIN"}
    [] OTHER -> {"ADMIN"}
DocumentPermissionsFor(permission) ==
  IF permission = "READ" THEN ShareLevels ELSE {"WRITE"}

UserColumn(s) == IF s \in Users THEN s ELSE NULL
DepartmentColumn(s) == IF s \in Departments THEN s ELSE NULL

(* The form in SQL text, for user u as identity i.                         *)
RowMatches(u, i, s) ==
  Or({Equal(UserColumn(s), u), Equal(DepartmentColumn(s), i.department)})
BaseAccess(u, i, permission) ==
  Exists({s \in Subjects : base[s] \in PermissionsFor(permission)},
         LAMBDA s : RowMatches(u, i, s))
Shared(u, i, permission) ==
  Exists({s \in Subjects : shares[s] \in DocumentPermissionsFor(permission)},
         LAMBDA s : RowMatches(u, i, s))
DocumentScope(u, i, permission) ==
  Or({Truth(document.confidentiality = 0),
      And({Truth(document.department # NULL), Equal(document.department, i.department)}),
      And({Truth(document.department = NULL), Truth(document.creator = u)}),
      Shared(u, i, permission)})
DocumentAccess(u, i, permission) ==
  And({BaseAccess(u, i, permission), Truth(document.confidentiality <= i.clearance),
       DocumentScope(u, i, permission)})

(* Fault for checking: comparing with None, which SQLAlchemy renders as    *)
(* IS NULL.                                                                *)
ConditionRowMatches_IsNull(u, i, s) ==
  Or({Equal(UserColumn(s), u),
      IF i.department # NULL THEN Equal(DepartmentColumn(s), i.department)
      ELSE Truth(DepartmentColumn(s) = NULL)})

(* The SQLAlchemy form: without a department another comparison is built.  *)
ConditionRowMatches(u, i, s) ==
  Or({Equal(UserColumn(s), u),
      IF i.department # NULL THEN Equal(DepartmentColumn(s), i.department) ELSE "F"})

DocumentCondition(u, i, permission) ==
  LET Matches(s) == ConditionRowMatches(u, i, s)
      acl == Exists({s \in Subjects : base[s] \in PermissionsFor(permission)}, Matches)
      explicit == Exists({s \in Subjects : shares[s] \in DocumentPermissionsFor(permission)},
                         Matches)
      department == IF i.department # NULL
                    THEN And({Truth(document.department # NULL),
                              Equal(document.department, i.department)})
                    ELSE "F"
      scope == Or({Truth(document.confidentiality = 0),
                   And({Truth(document.department = NULL), Truth(document.creator = u)}),
                   explicit, department})
  IN And({acl, Truth(document.confidentiality <= i.clearance), scope})

-----------------------------------------------------------------------------
(* Changing permissions *)

(* _available_admin(): an ADMIN grant reaches an active member.            *)
Administered(grants, members) ==
  \E s \in Subjects, u \in Users :
    /\ grants[s] = "ADMIN" /\ members[u].active
    /\ s \in {u, members[u].department}

Holding(r) == request[r] # NoRequest

(* FOR SHARE keeps the member rows a request relies on as they are.        *)
MemberLocked(u) ==
  \E r \in Requests :
    /\ Holding(r)
    /\ request[r].user = u \/ (request[r].phase = "written" /\ request[r].change.subject = u
                                /\ request[r].change.level # "none")

(* Fault for checking: the knowledge base row is not locked.               *)
BaseIsFree_Unlocked == TRUE

(* The knowledge base row is taken FOR UPDATE before anything is read.     *)
BaseIsFree == \A r \in Requests : ~ Holding(r)

(* _kb() and _document(): the knowledge base is locked, then the identity  *)
(* and the access are read.  An identity that is no longer the member's    *)
(* row is refused, so the one that passes is the row.                      *)
Lock(r, u, c) ==
  /\ request[r] = NoRequest /\ BaseIsFree /\ version < MaxVersion
  /\ member[u].active /\ BaseAccess(u, member[u], "ADMIN") = "T"
  /\ c.on # "base" => DocumentAccess(u, member[u], "ADMIN") = "T"
  /\ request' = [request EXCEPT ![r] = [phase |-> "locked", user |-> u,
                                        identity |-> member[u], change |-> c]]
  /\ UNCHANGED <<member, base, shares, document, version>>

(* _require_subject() for an upsert; a grant to delete must exist.         *)
SubjectIsValid(c) ==
  CASE c.on = "confidentiality" -> TRUE
    [] c.level = "none" ->
         (IF c.on = "base" THEN base[c.subject] ELSE shares[c.subject]) # "none"
    [] OTHER -> c.subject \in Users => member[c.subject].active

(* The write and the check that follows it in the same transaction.        *)
Write(r) ==
  LET c == request[r].change
  IN /\ request[r].phase = "locked" /\ SubjectIsValid(c)
     /\ c.on = "base" => Administered([base EXCEPT ![c.subject] = c.level], member)
     /\ c.on = "confidentiality" => c.level <= request[r].identity.clearance
     /\ request' = [request EXCEPT ![r].phase = "written"]
     /\ UNCHANGED <<member, base, shares, document, version>>

Finishes(r) == request' = [request EXCEPT ![r] = NoRequest]

(* The transaction commits; only a difference is recorded.                 *)
Commit(r) ==
  LET c == request[r].change
  IN /\ request[r].phase = "written" /\ Finishes(r)
     /\ base' = IF c.on = "base" THEN [base EXCEPT ![c.subject] = c.level] ELSE base
     /\ shares' = IF c.on = "document" THEN [shares EXCEPT ![c.subject] = c.level] ELSE shares
     /\ document' = IF c.on = "confidentiality"
                    THEN [document EXCEPT !.confidentiality = c.level] ELSE document
     /\ version' = IF <<base', shares', document'>> # <<base, shares, document>>
                   THEN version + 1 ELSE version
     /\ UNCHANGED member

(* Refused (401, 404, 409, 422) or broken off: the transaction rolls back. *)
Refuse(r) ==
  /\ Holding(r) /\ Finishes(r)
  /\ UNCHANGED <<member, base, shares, document, version>>

(* The members are managed outside the program, one column at a time.      *)
ChangeMember(u) ==
  /\ ~ MemberLocked(u)
  /\ \/ \E d \in (Departments \cup {NULL}) \ {member[u].department} :
          member' = [member EXCEPT ![u].department = d]
     \/ \E k \in Confidentiality \ {member[u].clearance} :
          member' = [member EXCEPT ![u].clearance = k]
     \/ member' = [member EXCEPT ![u].active = ~ @]
  /\ UNCHANGED <<base, shares, document, version, request>>

Creator == CHOOSE u \in Users : TRUE

PermissionInit ==
  /\ member \in [Users -> [department : Departments \cup {NULL},
                           clearance : {MaxClearance}, active : {TRUE}]]
  /\ base = [s \in Subjects |-> IF s \in Users THEN "ADMIN" ELSE "none"]
  /\ document \in [department : Departments \cup {NULL}, creator : {Creator},
                   confidentiality : {MaxClearance}]
  /\ shares = [s \in Subjects |-> "none"]
  /\ version = 0
  /\ request = [r \in Requests |-> NoRequest]

PermissionNext ==
  \/ \E r \in Requests, u \in Users, c \in Change : Lock(r, u, c)
  \/ \E r \in Requests : Write(r) \/ Commit(r) \/ Refuse(r)
  \/ \E u \in Users : ChangeMember(u)

PermissionSpec == PermissionInit /\ [][PermissionNext]_permissionVars

-----------------------------------------------------------------------------
(* Properties *)

(* The same access in both forms: filters written in SQL text (reading,    *)
(* the chat, the permission pages) and filters written for SQLAlchemy (the *)
(* chunk and graph stores, publication) let the same members through, with *)
(* or without a department, for every permission.                          *)
AccessConditionsAgree ==
  \A u \in {v \in Users : member[v].active}, permission \in Levels :
    (DocumentAccess(u, member[u], permission) = "T")
      <=> (DocumentCondition(u, member[u], permission) = "T")

(* A permission changes only by the hand of somebody who, as the change    *)
(* becomes visible, still is the member the request was made by and still  *)
(* administers the base; two administrators cannot remove each other at    *)
(* the same time, and one ADMIN grant always remains.                      *)
PermissionChangesAreAuthorized ==
  [][<<base, shares, document>>' # <<base, shares, document>> =>
       \E r \in Requests :
         /\ request[r].phase = "written" /\ request'[r] = NoRequest
         /\ member[request[r].user] = request[r].identity
         /\ BaseAccess(request[r].user, request[r].identity, "ADMIN") = "T"
         /\ \E s \in Subjects : base'[s] = "ADMIN"]_permissionVars

(* Whether a member may write a document he can see is decided: can_write  *)
(* of the document list, of its tasks and of the metadata view is a truth  *)
(* value and not NULL.                                                     *)
WritePermissionIsDecided ==
  \A u \in Users :
    member[u].active /\ DocumentAccess(u, member[u], "READ") = "T"
      => DocumentAccess(u, member[u], "WRITE") # NULL
=============================================================================
