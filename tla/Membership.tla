----------------------------- MODULE Membership -----------------------------
(***************************************************************************)
(* The members of one organization: its creation, invitations, their       *)
(* acceptance and revocation, deactivation and removal of members, the     *)
(* clients and who may reach them, the sessions that point at the          *)
(* organization, and the elevation of a platform administrator.            *)
(*                                                                         *)
(* A request first reads its actor (membership, then client ids, each in a *)
(* transaction of its own) and acts on it later in another transaction.    *)
(* The row policies of that transaction look at the actor's membership     *)
(* once more, but only at "active": the role is the one that was read.     *)
(*                                                                         *)
(* Transactions are READ COMMITTED.  A step is a statement, or several     *)
(* between which no other transaction can change what they read.  The      *)
(* statements that close a membership and that insert one take two steps:  *)
(* their policy is evaluated in a snapshot, and they may then wait for the *)
(* row, or for another uncommitted row with the same key.                  *)
(***************************************************************************)
EXTENDS Naturals, Authorization

CONSTANTS
  Users,           \* accounts
  PlatformAdmins,  \* users.platform_admin
  Clients,         \* ids of clients
  Invitations,     \* ids of invitations
  OfferedRoles,    \* the invitable roles that are offered
  Requests,        \* requests that may overlap
  None             \* no user, no role, no client, no invitation

INVITABLE_ROLES == Roles \ {"platform_admin"}
ClientRoles     == {"client_admin", "client_viewer"}

ASSUME AccountsAssumption ==
  /\ PlatformAdmins \subseteq Users
  /\ OfferedRoles \subseteq INVITABLE_ROLES
  /\ None \notin Users \cup Clients \cup Invitations \cup Roles

VARIABLES
  member,      \* member[u]: the row of organization_members
  invitation,  \* invitation[i]: the row of invitations
  client,      \* client[c]: the status of c in clients, or "none"
  clientRole,  \* clientRole[c][u]: the role of u in client_members, or None
  assigned,    \* assigned[c]: the operators in client_assignments
  session,     \* users whose session has the organization selected
  req,         \* req[r]: what request r is doing
  founder,     \* who created the organization
  admitted,    \* admitted[i]: memberships committed with invitation i
  crossed,     \* invitations revoked while an acceptance of them inserted its membership
  outrun,      \* invitations whose member was removed while another acceptance of them,
               \* past its policy, had yet to insert the membership
  overtaken    \* a membership was closed by a request whose own user had lost the right

vars == <<member, invitation, client, clientRole, assigned, session, req,
          founder, admitted, crossed, outrun, overtaken>>
accessVars == <<client, clientRole, assigned>>
invitationVars == <<invitation, admitted, crossed, outrun>>

NoMember == [role |-> None, active |-> FALSE]
NoInvitation == [status |-> "none", user |-> None, role |-> None, expired |-> FALSE]
Idle == [phase |-> "idle", user |-> None, role |-> None, clients |-> {}, elevated |-> FALSE,
         op |-> "none", target |-> None, about |-> None]

Member == [role : INVITABLE_ROLES \cup {None}, active : BOOLEAN]
Invitation == [status : {"none", "pending", "accepted", "revoked"},
               user : Users \cup {None}, role : INVITABLE_ROLES \cup {None},
               expired : BOOLEAN]
Phases == {"idle", "member", "actor", "close", "closing", "invite", "grant",
           "accept", "admit", "insert", "admitted", "switch"}
Request == [phase : Phases, user : Users \cup {None}, role : Roles \cup {None},
            clients : SUBSET Clients, elevated : BOOLEAN,
            op : {"none", "deactivate", "remove", "client_admin", "client_viewer",
                  "operator"},
            target : Users \cup {None}, about : Clients \cup Invitations \cup {None}]

TypeOK ==
  /\ member \in [Users -> Member]
  /\ invitation \in [Invitations -> Invitation]
  /\ client \in [Clients -> {"none", "active", "archived"}]
  /\ clientRole \in [Clients -> [Users -> ClientRoles \cup {None}]]
  /\ assigned \in [Clients -> SUBSET Users]
  /\ session \subseteq Users
  /\ req \in [Requests -> Request]
  /\ founder \in Users \cup {None}
  /\ admitted \in [Invitations -> Nat]
  /\ crossed \subseteq Invitations /\ outrun \subseteq Invitations
  /\ overtaken \in BOOLEAN

Init ==
  /\ member = [u \in Users |-> NoMember]
  /\ invitation = [i \in Invitations |-> NoInvitation]
  /\ client = [c \in Clients |-> "none"]
  /\ clientRole = [c \in Clients |-> [u \in Users |-> None]]
  /\ assigned = [c \in Clients |-> {}]
  /\ session = {}
  /\ req = [r \in Requests |-> Idle]
  /\ founder = None
  /\ admitted = [i \in Invitations |-> 0]
  /\ crossed = {} /\ outrun = {}
  /\ overtaken = FALSE

-----------------------------------------------------------------------------
(* The row policies, with actor a in the context of the transaction.       *)

\* app_is_elevated_platform.
Elevated(a) == a.role = "platform_admin" /\ a.user \in PlatformAdmins

\* app_can_manage_members and app_can_manage_clients: the membership is read again,
\* the role is that of the context.
CanManage(a) == member[a.user].active /\ (a.role \in OwnerLevel \/ Elevated(a))

\* app_can_manage_client_members.
CanManageClient(a, c) ==
  CanManage(a) \/ (member[a.user].active /\ clientRole[c][a.user] = "client_admin")

\* clients_select.
ClientVisible(a, c) ==
  /\ client[c] # "none"
  /\ \/ CanManage(a)
     \/ /\ member[a.user].active
        /\ a.user \in assigned[c] \/ clientRole[c][a.user] # None

-----------------------------------------------------------------------------
(* The beginning and the end of a request.                                 *)

Finish(r) == req' = [req EXCEPT ![r] = Idle]

\* Refused by the matrix, by a policy or by a check, or the client is gone: what the
\* transaction did is rolled back.
Abandon(r) ==
  /\ req[r].phase # "idle"
  /\ Finish(r)
  /\ UNCHANGED <<member, invitationVars, accessVars, session, founder, overtaken>>

\* The session is valid and its membership active: requireActiveMembership.
ReadMembership(r, u) ==
  /\ req[r].phase = "idle"
  /\ u \in session
  /\ member[u].active
  /\ req' = [req EXCEPT ![r] = [Idle EXCEPT !.phase = "member", !.user = u,
                                            !.role = member[u].role]]
  /\ UNCHANGED <<member, invitationVars, accessVars, session, founder, overtaken>>

\* loadAccessibleClientIds: the actor is complete.
ReadClients(r) ==
  /\ req[r].phase = "member"
  /\ req' = [req EXCEPT ![r].phase = "actor",
                        ![r].clients = {c \in Clients : \/ req[r].user \in assigned[c]
                                                        \/ clientRole[c][req[r].user] # None}]
  /\ UNCHANGED <<member, invitationVars, accessVars, session, founder, overtaken>>

\* requestElevation: an actor with the platform role, for this request only.
Elevate(r, u) ==
  /\ req[r].phase = "idle"
  /\ u \in PlatformAdmins
  /\ member[u].active
  /\ req' = [req EXCEPT ![r] = [Idle EXCEPT !.phase = "actor", !.user = u,
                                            !.role = "platform_admin", !.elevated = TRUE]]
  /\ UNCHANGED <<member, invitationVars, accessVars, session, founder, overtaken>>

\* createOrganization: the organization and its owner in one transaction.
CreateOrganization(u) ==
  /\ founder = None
  /\ founder' = u
  /\ member' = [member EXCEPT ![u] = [role |-> "agency_owner", active |-> TRUE]]
  /\ UNCHANGED <<invitationVars, accessVars, session, req, overtaken>>

\* switchOrganization: the membership is checked in one transaction, ...
SwitchRead(r, u) ==
  /\ req[r].phase = "idle"
  /\ member[u].active
  /\ req' = [req EXCEPT ![r] = [Idle EXCEPT !.phase = "switch", !.user = u]]
  /\ UNCHANGED <<member, invitationVars, accessVars, session, founder, overtaken>>

\* ... and the session updated in another.
SwitchWrite(r) ==
  /\ req[r].phase = "switch"
  /\ session' = session \cup {req[r].user}
  /\ Finish(r)
  /\ UNCHANGED <<member, invitationVars, accessVars, founder, overtaken>>

-----------------------------------------------------------------------------
(* Deactivation and removal of members.                                    *)

\* May act now on the members: an active owner, admin or platform administrator.
Manager(u) == member[u].active /\ (member[u].role \in OwnerLevel \/ u \in PlatformAdmins)

ActionOf(op) == IF op = "deactivate" THEN "member:deactivate" ELSE "member:remove"

\* Mutant: members may close their own membership.
CloseRead_Self(r, u, op) ==
  /\ req[r].phase = "actor"
  /\ Can(req[r], ActionOf(op), None)
  /\ member[u].role # None
  /\ req[r].role = "agency_admin" => member[u].role \notin OwnerLevel
  /\ req' = [req EXCEPT ![r].phase = "close", ![r].op = op, ![r].target = u]
  /\ UNCHANGED <<member, invitationVars, accessVars, session, founder, overtaken>>

\* The checks of deactivateMember and removeMember, and the read of the target's role.
CloseRead(r, u, op) ==
  /\ req[r].phase = "actor"
  /\ Can(req[r], ActionOf(op), None)
  /\ u # req[r].user
  /\ member[u].role # None
  /\ req[r].role = "agency_admin" => member[u].role \notin OwnerLevel
  /\ req' = [req EXCEPT ![r].phase = "close", ![r].op = op, ![r].target = u]
  /\ UNCHANGED <<member, invitationVars, accessVars, session, founder, overtaken>>

\* The UPDATE or DELETE begins: its policy is evaluated in the statement's snapshot.
CloseBegin(r) ==
  /\ req[r].phase = "close"
  /\ CanManage(req[r])
  /\ req' = [req EXCEPT ![r].phase = "closing"]
  /\ UNCHANGED <<member, invitationVars, accessVars, session, founder, overtaken>>

\* It gets the row, which may have changed, and the transaction commits.
Deactivate(r) ==
  /\ req[r].phase = "closing" /\ req[r].op = "deactivate"
  /\ member[req[r].target].active
  /\ member' = [member EXCEPT ![req[r].target].active = FALSE]
  /\ overtaken' = (overtaken \/ ~Manager(req[r].user))
  /\ Finish(r)
  /\ UNCHANGED <<invitationVars, accessVars, session, founder>>

\* An acceptance of i for u, who was admitted with it, has passed the policy of its INSERT.
Outruns(i, u) ==
  /\ admitted[i] > 0
  /\ \E q \in Requests : req[q].phase = "insert" /\ req[q].about = i /\ req[q].user = u

\* The DELETE cascades to the client memberships and assignments.
Remove(r) ==
  LET u == req[r].target IN
  /\ req[r].phase = "closing" /\ req[r].op = "remove"
  /\ member[u].role # None
  /\ member' = [member EXCEPT ![u] = NoMember]
  /\ clientRole' = [c \in Clients |-> [clientRole[c] EXCEPT ![u] = None]]
  /\ assigned' = [c \in Clients |-> assigned[c] \ {u}]
  /\ overtaken' = (overtaken \/ ~Manager(req[r].user))
  /\ outrun' = outrun \cup {i \in Invitations : Outruns(i, u)}
  /\ Finish(r)
  /\ UNCHANGED <<invitation, admitted, crossed, client, session, founder>>

-----------------------------------------------------------------------------
(* Invitations.                                                            *)

\* inviteOrganizationMember finds no member with this e-mail, ...
InviteRead(r, u) ==
  /\ req[r].phase = "actor"
  /\ Can(req[r], "member:invite", None)
  /\ member[u].role = None
  /\ req' = [req EXCEPT ![r].phase = "invite", ![r].target = u]
  /\ UNCHANGED <<member, invitationVars, accessVars, session, founder, overtaken>>

\* ... and no pending invitation, which a unique index enforces.  The policy of the
\* INSERT asks for a context only, not for an active membership.
InviteInsert(r, i, role) ==
  /\ req[r].phase = "invite"
  /\ \A j \in Invitations :
       ~(invitation[j].status = "pending" /\ invitation[j].user = req[r].target)
  /\ invitation[i].status = "none"
  /\ invitation' = [invitation EXCEPT ![i] = [status |-> "pending", user |-> req[r].target,
                                              role |-> role, expired |-> FALSE]]
  /\ Finish(r)
  /\ UNCHANGED <<member, admitted, crossed, outrun, accessVars, session, founder, overtaken>>

\* INVITATION_TTL_MS passes.
Expire(i) ==
  /\ invitation[i].status = "pending"
  /\ ~invitation[i].expired
  /\ invitation' = [invitation EXCEPT ![i].expired = TRUE]
  /\ UNCHANGED <<member, admitted, crossed, outrun, accessVars, session, req, founder, overtaken>>

\* Mutant: the UPDATE does not test the status.
RevokeInvitation_Any(r, i) ==
  /\ req[r].phase = "actor"
  /\ Can(req[r], "member:invite", None)
  /\ CanManage(req[r])
  /\ invitation[i].status # "none"
  /\ invitation' = [invitation EXCEPT ![i].status = "revoked"]
  /\ Finish(r)
  /\ UNCHANGED <<member, admitted, crossed, outrun, accessVars, session, founder, overtaken>>

\* revokeInvitation: WHERE status = 'pending'.
RevokeInvitation(r, i) ==
  /\ req[r].phase = "actor"
  /\ Can(req[r], "member:invite", None)
  /\ CanManage(req[r])
  /\ invitation[i].status = "pending"
  /\ invitation' = [invitation EXCEPT ![i].status = "revoked"]
  /\ Finish(r)
  /\ UNCHANGED <<member, admitted, crossed, outrun, accessVars, session, founder, overtaken>>

Acceptable(i) == invitation[i].status = "pending" /\ ~invitation[i].expired

\* Steps 1 and 2 of acceptInvitation: the read with the token's hash, and the checks.
AcceptRead(r, i) ==
  /\ req[r].phase = "idle"
  /\ Acceptable(i)
  /\ req' = [req EXCEPT ![r] = [Idle EXCEPT !.phase = "accept",
                                            !.user = invitation[i].user, !.about = i]]
  /\ UNCHANGED <<member, invitationVars, accessVars, session, founder, overtaken>>

\* Step 3 begins with the same checks, in the transaction that writes; a member,
\* active or not, cannot accept.
AcceptFresh(r) ==
  /\ req[r].phase = "accept"
  /\ Acceptable(req[r].about)
  /\ member[req[r].user].role = None
  /\ req' = [req EXCEPT ![r].phase = "admit"]
  /\ UNCHANGED <<member, invitationVars, accessVars, session, founder, overtaken>>

\* Mutant: the policy of the INSERT does not look at the invitation.
AcceptBegin_NoPolicy(r) ==
  /\ req[r].phase = "admit"
  /\ req' = [req EXCEPT ![r].phase = "insert"]
  /\ UNCHANGED <<member, invitationVars, accessVars, session, founder, overtaken>>

\* The INSERT of the membership begins: app_can_accept_invitation is evaluated in the
\* statement's snapshot, and not again.
AcceptBegin(r) ==
  /\ req[r].phase = "admit"
  /\ invitation[req[r].about].status = "pending"
  /\ req' = [req EXCEPT ![r].phase = "insert"]
  /\ UNCHANGED <<member, invitationVars, accessVars, session, founder, overtaken>>

\* Nobody else's uncommitted row has the same primary key.
KeyFree(r) ==
  \A q \in Requests \ {r} : ~(req[q].phase = "admitted" /\ req[q].user = req[r].user)

\* It inserts the row once nobody else's has the key; a member's row refuses it.
AcceptInsert(r) ==
  /\ req[r].phase = "insert"
  /\ KeyFree(r)
  /\ member[req[r].user].role = None
  /\ req' = [req EXCEPT ![r].phase = "admitted"]
  /\ UNCHANGED <<member, invitationVars, accessVars, session, founder, overtaken>>

\* The UPDATE of the invitation and the commit.  The policy hides an invitation that is
\* pending no more: no row is updated, and nobody looks at the count.
AcceptCommit(r) ==
  LET i == req[r].about IN
  /\ req[r].phase = "admitted"
  /\ member' = [member EXCEPT ![req[r].user] = [role |-> invitation[i].role, active |-> TRUE]]
  /\ admitted' = [admitted EXCEPT ![i] = @ + 1]
  /\ invitation' = IF invitation[i].status = "pending"
                   THEN [invitation EXCEPT ![i].status = "accepted"] ELSE invitation
  /\ crossed' = IF invitation[i].status = "revoked" THEN crossed \cup {i} ELSE crossed
  /\ Finish(r)
  /\ UNCHANGED <<outrun, accessVars, session, founder, overtaken>>

-----------------------------------------------------------------------------
(* Clients, their members and their operators.                             *)

CreateClient(r, c) ==
  /\ req[r].phase = "actor"
  /\ Can(req[r], "client:create", None)
  /\ CanManage(req[r])
  /\ client[c] = "none"
  /\ client' = [client EXCEPT ![c] = "active"]
  /\ Finish(r)
  /\ UNCHANGED <<member, invitationVars, clientRole, assigned, session, founder, overtaken>>

\* A change of status; a change of name alone is no step.
UpdateClient(r, c) ==
  /\ req[r].phase = "actor"
  /\ Can(req[r], "client:update", c)
  /\ CanManage(req[r])
  /\ client[c] # "none"
  /\ client' = [client EXCEPT ![c] = IF @ = "active" THEN "archived" ELSE "active"]
  /\ Finish(r)
  /\ UNCHANGED <<member, invitationVars, clientRole, assigned, session, founder, overtaken>>

GrantAction(op) ==
  IF op = "operator" THEN "client:assign_operator" ELSE "client:manage_members"

\* addClientMember and assignOperatorToClient find the client and an active member.
GrantRead(r, c, u, op) ==
  /\ req[r].phase = "actor"
  /\ Can(req[r], GrantAction(op), c)
  /\ ClientVisible(req[r], c)
  /\ member[u].active
  /\ op = "operator" => member[u].role = "agency_operator"
  /\ req' = [req EXCEPT ![r].phase = "grant", ![r].op = op, ![r].target = u, ![r].about = c]
  /\ UNCHANGED <<member, invitationVars, accessVars, session, founder, overtaken>>

\* Mutant: there is no foreign key to organization_members.
AddClientMember_NoKey(r) ==
  LET c == req[r].about
      u == req[r].target
  IN
  /\ req[r].phase = "grant" /\ req[r].op \in ClientRoles
  /\ CanManageClient(req[r], c)
  /\ clientRole[c][u] = None
  /\ clientRole' = [clientRole EXCEPT ![c][u] = req[r].op]
  /\ Finish(r)
  /\ UNCHANGED <<member, invitationVars, client, assigned, session, founder, overtaken>>

\* The INSERT: its policy, its primary key, and its foreign key to the membership,
\* which may be gone.
AddClientMember(r) ==
  LET c == req[r].about
      u == req[r].target
  IN
  /\ req[r].phase = "grant" /\ req[r].op \in ClientRoles
  /\ CanManageClient(req[r], c)
  /\ member[u].role # None
  /\ clientRole[c][u] = None
  /\ clientRole' = [clientRole EXCEPT ![c][u] = req[r].op]
  /\ Finish(r)
  /\ UNCHANGED <<member, invitationVars, client, assigned, session, founder, overtaken>>

AssignOperator(r) ==
  LET c == req[r].about
      u == req[r].target
  IN
  /\ req[r].phase = "grant" /\ req[r].op = "operator"
  /\ CanManage(req[r])
  /\ member[u].role # None
  /\ u \notin assigned[c]
  /\ assigned' = [assigned EXCEPT ![c] = @ \cup {u}]
  /\ Finish(r)
  /\ UNCHANGED <<member, invitationVars, client, clientRole, session, founder, overtaken>>

RemoveClientMember(r, c, u) ==
  /\ req[r].phase = "actor"
  /\ Can(req[r], "client:manage_members", c)
  /\ CanManageClient(req[r], c)
  /\ clientRole[c][u] # None
  /\ clientRole' = [clientRole EXCEPT ![c][u] = None]
  /\ Finish(r)
  /\ UNCHANGED <<member, invitationVars, client, assigned, session, founder, overtaken>>

UnassignOperator(r, c, u) ==
  /\ req[r].phase = "actor"
  /\ Can(req[r], "client:unassign_operator", c)
  /\ CanManage(req[r])
  /\ u \in assigned[c]
  /\ assigned' = [assigned EXCEPT ![c] = @ \ {u}]
  /\ Finish(r)
  /\ UNCHANGED <<member, invitationVars, client, clientRole, session, founder, overtaken>>

-----------------------------------------------------------------------------

Begin(r, u) == ReadMembership(r, u) \/ Elevate(r, u) \/ SwitchRead(r, u)

Close(r) ==
  \/ \E u \in Users, op \in {"deactivate", "remove"} : CloseRead(r, u, op)
  \/ CloseBegin(r) \/ Deactivate(r) \/ Remove(r)

Invite(r) ==
  \/ \E u \in Users : InviteRead(r, u)
  \/ \E i \in Invitations, role \in OfferedRoles : InviteInsert(r, i, role)
  \/ \E i \in Invitations : RevokeInvitation(r, i)

Accept(r) ==
  \/ \E i \in Invitations : AcceptRead(r, i)
  \/ AcceptFresh(r) \/ AcceptBegin(r) \/ AcceptInsert(r) \/ AcceptCommit(r)

Serve(r) ==
  \/ \E c \in Clients : CreateClient(r, c) \/ UpdateClient(r, c)
  \/ \E c \in Clients, u \in Users :
       \/ RemoveClientMember(r, c, u) \/ UnassignOperator(r, c, u)
       \/ \E op \in ClientRoles \cup {"operator"} : GrantRead(r, c, u, op)
  \/ AddClientMember(r) \/ AssignOperator(r)

Next ==
  \/ \E u \in Users : CreateOrganization(u)
  \/ \E i \in Invitations : Expire(i)
  \/ \E r \in Requests : \/ \E u \in Users : Begin(r, u)
                         \/ ReadClients(r) \/ SwitchWrite(r) \/ Abandon(r)
                         \/ Close(r) \/ Invite(r) \/ Accept(r) \/ Serve(r)

Spec == Init /\ [][Next]_vars

-----------------------------------------------------------------------------
(* Properties.                                                             *)

\* An organization keeps somebody who can manage it.  Nobody closes the own
\* membership, so the last manager can only be lost to a request whose own user was
\* closed or re-admitted with less after it had passed its checks: two owners who
\* remove each other, or an owner whose role was replaced under a running request.
ManagerRemains == founder # None => (overtaken \/ \E u \in Users : Manager(u))

\* An invitation admits one membership, though its acceptance is read, checked and written
\* in separate statements, may run twice at once, and the member it admitted may be removed
\* meanwhile.  One order is left: a second acceptance passes the policy of its INSERT before
\* the first commits, and inserts after the member was removed.  A removal at any other
\* point of an acceptance opens nothing.
SpentOnceUnlessOutrun == \A i \in Invitations : admitted[i] <= 1 \/ i \in outrun

\* Whoever is a member founded the organization or came by an invitation to them, with
\* its role; and that invitation is accepted, unless it was revoked while the acceptance
\* inserted the membership.
AdmissionExplained ==
  \A u \in Users : member[u].role # None =>
    \/ u = founder /\ member[u].role = "agency_owner"
    \/ \E i \in Invitations : /\ invitation[i].user = u
                              /\ invitation[i].role = member[u].role
                              /\ admitted[i] > 0
                              /\ invitation[i].status = "accepted" \/ i \in crossed

\* Access to a client needs a membership in its organization: no assignment and no
\* client role outlives it, or appears after it, whatever grants and removals overlap.
AccessNeedsMembership ==
  \A c \in Clients, u \in Users :
    (clientRole[c][u] # None \/ u \in assigned[c]) => member[u].role # None
=============================================================================
