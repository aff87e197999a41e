-------------------------- MODULE MembershipProofs --------------------------
(***************************************************************************)
(* Theorems about Membership, for any users, clients, invitations and      *)
(* requests, and whatever the authorization matrix lets pass.              *)
(*                                                                         *)
(* The argument: a request that closes a membership aims at another user   *)
(* (Requested), so as long as its own user may manage, a manager remains.  *)
(* An acceptance that has inserted its membership does so for a user who   *)
(* is no member, and no other does so for the same user (Admitting): its   *)
(* commit replaces no membership.  One whose policy has passed works with  *)
(* an invitation that has admitted nobody, or waits for a member's row to  *)
(* refuse it, unless that member was removed meanwhile (FirstUse): its     *)
(* commit is the first use of the invitation.                              *)
(***************************************************************************)
EXTENDS Membership, TLAPS

USE AccountsAssumption

\* A request knows its user, aims a closing step at somebody else, and accepts an
\* invitation that was made to its user.
WellFormed(q) ==
  /\ q.phase # "idle" => q.user \in Users
  /\ q.phase \in {"close", "closing"} => q.target \in Users /\ q.target # q.user
  /\ q.phase = "invite" => q.target \in Users
  /\ q.phase = "grant" => q.target \in Users /\ q.about \in Clients
  /\ q.phase \in {"accept", "admit", "insert", "admitted"} =>
       /\ q.about \in Invitations
       /\ invitation[q.about].status # "none"
       /\ invitation[q.about].user = q.user

Requested == \A r \in Requests : WellFormed(req[r])

Rows ==
  /\ \A u \in Users : member[u].role = None => ~member[u].active
  /\ \A i \in Invitations :
       /\ invitation[i].status # "none" =>
            invitation[i].user \in Users /\ invitation[i].role \in INVITABLE_ROLES
       /\ invitation[i].status \in {"none", "pending"} => admitted[i] = 0

\* Before the organization exists nothing about it does.
Founded ==
  founder = None =>
    /\ \A u \in Users : member[u].role = None
    /\ \A i \in Invitations : invitation[i].status = "none"
    /\ \A r \in Requests : req[r].phase = "idle"

Admitting ==
  \A r \in Requests : req[r].phase = "admitted" =>
    /\ member[req[r].user].role = None
    /\ \A q \in Requests \ {r} : req[q].phase = "admitted" => req[q].user # req[r].user

\* An acceptance whose policy has passed is the first use of its invitation, is refused
\* by its user's membership, or was outrun by a removal.
FirstUse ==
  \A r \in Requests : req[r].phase \in {"insert", "admitted"} =>
    \/ admitted[req[r].about] = 0
    \/ req[r].about \in outrun
    \/ req[r].phase = "insert" /\ member[req[r].user].role # None

IInv == /\ TypeOK /\ Requested /\ Rows /\ Founded /\ Admitting /\ FirstUse
        /\ ManagerRemains /\ SpentOnceUnlessOutrun /\ AdmissionExplained
        /\ AccessNeedsMembership

-----------------------------------------------------------------------------
(* What steps do to the requests.                                          *)

ReqMoves(r, new) ==
  /\ r \in Requests
  /\ new \in Request
  /\ WellFormed(new)
  /\ req' = [req EXCEPT ![r] = new]

\* An invitation that was made stays, for the same user and role.
InvitationsStay ==
  /\ invitation' \in [Invitations -> Invitation]
  /\ \A i \in Invitations : invitation[i].status # "none" =>
       /\ invitation'[i].status # "none"
       /\ invitation'[i].user = invitation[i].user
       /\ invitation'[i].role = invitation[i].role

LEMMA RequestsKept ==
  ASSUME IInv, InvitationsStay,
         UNCHANGED req \/ \E r \in Requests : \E new \in Request : ReqMoves(r, new)
  PROVE  req' \in [Requests -> Request] /\ Requested'
<1>0. req \in [Requests -> Request] /\ Requested
  BY DEF IInv, TypeOK
<1>1. ASSUME NEW q \in Request, WellFormed(q)
      PROVE  WellFormed(q)'
  BY <1>1 DEF WellFormed, InvitationsStay
<1>2. CASE UNCHANGED req
  BY <1>0, <1>1, <1>2 DEF Requested, WellFormed, InvitationsStay
<1>3. ASSUME NEW r \in Requests, NEW new \in Request, ReqMoves(r, new)
      PROVE  req' \in [Requests -> Request] /\ Requested'
  <2>1. /\ req' \in [Requests -> Request]
        /\ req'[r] = new
        /\ \A q \in Requests \ {r} : req'[q] = req[q]
    BY <1>0, <1>3 DEF ReqMoves
  <2>2. Requested'
    BY <1>0, <1>3, <2>1 DEF ReqMoves, Requested, WellFormed, InvitationsStay
  <2> QED
    BY <2>1, <2>2
<1> QED
  BY <1>2, <1>3

LEMMA IdleIsRequest == Idle \in Request /\ WellFormed(Idle)
BY DEF Idle, Request, Phases, WellFormed

LEMMA FinishMoves ==
  ASSUME IInv, NEW r \in Requests, Finish(r)
  PROVE  \E new \in Request : ReqMoves(r, new)
<1>1. req' = [req EXCEPT ![r] = Idle]
  BY DEF Finish
<1> QED
  BY <1>1, IdleIsRequest DEF ReqMoves

\* Every step moves at most one request, to one that is well formed.
LEMMA StepMoves ==
  ASSUME IInv, Next
  PROVE  UNCHANGED req \/ \E r \in Requests : \E new \in Request : ReqMoves(r, new)
<1>0. /\ req \in [Requests -> Request] /\ Requested
      /\ member \in [Users -> Member]
      /\ invitation \in [Invitations -> Invitation] /\ Rows
  BY DEF IInv, TypeOK
<1>1. CASE (\E u \in Users : CreateOrganization(u)) \/ \E i \in Invitations : Expire(i)
  BY <1>1 DEF CreateOrganization, Expire
<1>2. ASSUME NEW r \in Requests, Finish(r)
      PROVE  \E new \in Request : ReqMoves(r, new)
  BY <1>2, FinishMoves
<1>3. ASSUME NEW r \in Requests, NEW u \in Users, Begin(r, u)
      PROVE  \E new \in Request : ReqMoves(r, new)
  <2>1. CASE ReadMembership(r, u)
    <3> DEFINE new == [Idle EXCEPT !.phase = "member", !.user = u, !.role = member[u].role]
    <3>1. new \in Request /\ WellFormed(new)
      BY <1>0 DEF Idle, Request, Phases, WellFormed, Member, INVITABLE_ROLES
    <3> QED
      BY <2>1, <3>1 DEF ReadMembership, ReqMoves
  <2>2. CASE Elevate(r, u)
    <3> DEFINE new == [Idle EXCEPT !.phase = "actor", !.user = u,
                                   !.role = "platform_admin", !.elevated = TRUE]
    <3>1. new \in Request /\ WellFormed(new)
      BY DEF Idle, Request, Phases, WellFormed, Roles
    <3> QED
      BY <2>2, <3>1 DEF Elevate, ReqMoves
  <2>3. CASE SwitchRead(r, u)
    <3> DEFINE new == [Idle EXCEPT !.phase = "switch", !.user = u]
    <3>1. new \in Request /\ WellFormed(new)
      BY DEF Idle, Request, Phases, WellFormed
    <3> QED
      BY <2>3, <3>1 DEF SwitchRead, ReqMoves
  <2> QED
    BY <1>3, <2>1, <2>2, <2>3 DEF Begin
<1>4. ASSUME NEW r \in Requests, ReadClients(r)
      PROVE  \E new \in Request : ReqMoves(r, new)
  <2> DEFINE cs == {c \in Clients : \/ req[r].user \in assigned[c]
                                    \/ clientRole[c][req[r].user] # None}
             new == [req[r] EXCEPT !.phase = "actor", !.clients = cs]
  <2>1. new \in Request /\ WellFormed(new)
    BY <1>0, <1>4 DEF ReadClients, Request, Phases, Requested, WellFormed
  <2>2. req' = [req EXCEPT ![r] = new]
    BY <1>0, <1>4 DEF ReadClients
  <2> QED
    BY <2>1, <2>2 DEF ReqMoves
<1>5. ASSUME NEW r \in Requests, Close(r)
      PROVE  \E new \in Request : ReqMoves(r, new)
  <2>1. ASSUME NEW u \in Users, NEW op \in {"deactivate", "remove"}, CloseRead(r, u, op)
        PROVE  \E new \in Request : ReqMoves(r, new)
    <3> DEFINE new == [req[r] EXCEPT !.phase = "close", !.op = op, !.target = u]
    <3>0. /\ req[r] \in Request /\ WellFormed(req[r])
          /\ req[r].phase = "actor" /\ u # req[r].user
      BY <1>0, <2>1 DEF CloseRead, Requested
    <3>1. new \in Request
      BY <3>0 DEF Request, Phases
    <3>3. WellFormed(new)
      BY <3>0 DEF WellFormed, Request
    <3>2. req' = [req EXCEPT ![r] = new]
      BY <1>0, <2>1 DEF CloseRead
    <3> QED
      BY <3>1, <3>2, <3>3 DEF ReqMoves
  <2>2. CASE CloseBegin(r)
    <3> DEFINE new == [req[r] EXCEPT !.phase = "closing"]
    <3>1. new \in Request /\ WellFormed(new)
      BY <1>0, <2>2 DEF CloseBegin, Request, Phases, Requested, WellFormed
    <3> QED
      BY <2>2, <3>1 DEF CloseBegin, ReqMoves
  <2> QED
    BY <1>2, <1>5, <2>1, <2>2 DEF Close, Deactivate, Remove
<1>6. ASSUME NEW r \in Requests, Invite(r)
      PROVE  \E new \in Request : ReqMoves(r, new)
  <2>1. ASSUME NEW u \in Users, InviteRead(r, u)
        PROVE  \E new \in Request : ReqMoves(r, new)
    <3> DEFINE new == [req[r] EXCEPT !.phase = "invite", !.target = u]
    <3>0. /\ req[r] \in Request /\ WellFormed(req[r])
          /\ req[r].phase = "actor"
      BY <1>0, <2>1 DEF InviteRead, Requested
    <3>1. new \in Request
      BY <3>0 DEF Request, Phases
    <3>3. WellFormed(new)
      BY <3>0 DEF WellFormed, Request
    <3>2. req' = [req EXCEPT ![r] = new]
      BY <1>0, <2>1 DEF InviteRead
    <3> QED
      BY <3>1, <3>2, <3>3 DEF ReqMoves
  <2> QED
    BY <1>2, <1>6, <2>1 DEF Invite, InviteInsert, RevokeInvitation
<1>7. ASSUME NEW r \in Requests, Accept(r)
      PROVE  \E new \in Request : ReqMoves(r, new)
  <2>1. ASSUME NEW i \in Invitations, AcceptRead(r, i)
        PROVE  \E new \in Request : ReqMoves(r, new)
    <3> DEFINE new == [Idle EXCEPT !.phase = "accept", !.user = invitation[i].user,
                                   !.about = i]
    <3>1. new \in Request /\ WellFormed(new)
      BY <1>0, <2>1 DEF AcceptRead, Acceptable, Idle, Request, Phases, WellFormed,
                        Invitation, Rows
    <3> QED
      BY <2>1, <3>1 DEF AcceptRead, ReqMoves
  <2>2. ASSUME NEW phase \in {"admit", "insert", "admitted"},
               req[r].phase \in {"accept", "admit", "insert"},
               req' = [req EXCEPT ![r].phase = phase]
        PROVE  \E new \in Request : ReqMoves(r, new)
    <3> DEFINE new == [req[r] EXCEPT !.phase = phase]
    <3>1. new \in Request /\ WellFormed(new)
      BY <1>0, <2>2 DEF Request, Phases, Requested, WellFormed
    <3> QED
      BY <2>2, <3>1 DEF ReqMoves
  <2> QED
    BY <1>2, <1>7, <2>1, <2>2 DEF Accept, AcceptFresh, AcceptBegin, AcceptInsert,
                                  AcceptCommit
<1>8. ASSUME NEW r \in Requests, Serve(r)
      PROVE  \E new \in Request : ReqMoves(r, new)
  <2>1. ASSUME NEW c \in Clients, NEW u \in Users, NEW op \in ClientRoles \cup {"operator"},
               GrantRead(r, c, u, op)
        PROVE  \E new \in Request : ReqMoves(r, new)
    <3> DEFINE new == [req[r] EXCEPT !.phase = "grant", !.op = op, !.target = u, !.about = c]
    <3>0. /\ req[r] \in Request /\ WellFormed(req[r])
          /\ req[r].phase = "actor"
      BY <1>0, <2>1 DEF GrantRead, Requested
    <3>1. new \in Request
      BY <3>0 DEF Request, Phases, ClientRoles
    <3>3. WellFormed(new)
      BY <3>0 DEF WellFormed, Request
    <3>2. req' = [req EXCEPT ![r] = new]
      BY <1>0, <2>1 DEF GrantRead
    <3> QED
      BY <3>1, <3>2, <3>3 DEF ReqMoves
  <2> QED
    BY <1>2, <1>8, <2>1 DEF Serve, CreateClient, UpdateClient, RemoveClientMember,
                            UnassignOperator, AddClientMember, AssignOperator
<1> QED
  BY <1>1, <1>2, <1>3, <1>4, <1>5, <1>6, <1>7, <1>8 DEF Next, SwitchWrite, Abandon

-----------------------------------------------------------------------------
(* What steps do to the rows.                                              *)

\* The steps that change members or invitations; every other step leaves both alone.
RowStep ==
  \/ \E u \in Users : CreateOrganization(u)
  \/ \E i \in Invitations : Expire(i)
  \/ \E r \in Requests : \/ Deactivate(r) \/ Remove(r) \/ AcceptCommit(r)
                         \/ \E i \in Invitations, role \in OfferedRoles : InviteInsert(r, i, role)
                         \/ \E i \in Invitations : RevokeInvitation(r, i)

LEMMA OtherSteps ==
  ASSUME Next
  PROVE  RowStep \/ UNCHANGED <<member, invitation, admitted, crossed, outrun, founder, overtaken>>
<1> DEFINE Same == UNCHANGED <<member, invitation, admitted, crossed, outrun, founder, overtaken>>
<1>1. ASSUME NEW r \in Requests, NEW u \in Users, Begin(r, u)  PROVE Same
  BY <1>1 DEF Begin, ReadMembership, Elevate, SwitchRead, invitationVars
<1>2. ASSUME NEW r \in Requests, ReadClients(r) \/ SwitchWrite(r) \/ Abandon(r)  PROVE Same
  BY <1>2 DEF ReadClients, SwitchWrite, Abandon, invitationVars
<1>3. ASSUME NEW r \in Requests, Close(r)  PROVE Deactivate(r) \/ Remove(r) \/ Same
  BY <1>3 DEF Close, CloseRead, CloseBegin, invitationVars
<1>4. ASSUME NEW r \in Requests, Invite(r)
      PROVE  \/ \E i \in Invitations, role \in OfferedRoles : InviteInsert(r, i, role)
             \/ \E i \in Invitations : RevokeInvitation(r, i)
             \/ Same
  BY <1>4 DEF Invite, InviteRead, invitationVars
<1>5. ASSUME NEW r \in Requests, Accept(r)  PROVE AcceptCommit(r) \/ Same
  BY <1>5 DEF Accept, AcceptRead, AcceptFresh, AcceptBegin, AcceptInsert, invitationVars
<1>6. ASSUME NEW r \in Requests, Serve(r)  PROVE Same
  BY <1>6 DEF Serve, CreateClient, UpdateClient, GrantRead, AddClientMember, AssignOperator,
              RemoveClientMember, UnassignOperator, invitationVars
<1> HIDE DEF Same
<1>7. Next => RowStep \/ Same
  BY <1>1, <1>2, <1>3, <1>4, <1>5, <1>6 DEF Next, RowStep
<1> QED
  BY <1>7 DEF Same

\* What is typed about the rows, with the invitations that stay.
RowsTyped ==
  /\ member \in [Users -> Member]
  /\ admitted \in [Invitations -> Nat]
  /\ crossed \subseteq Invitations /\ outrun \subseteq Invitations
  /\ founder \in Users \cup {None}
  /\ overtaken \in BOOLEAN

LEMMA RowStepTyped ==
  ASSUME IInv, Next
  PROVE  InvitationsStay /\ RowsTyped' /\ Rows'
<1>0. /\ req \in [Requests -> Request] /\ Requested
      /\ member \in [Users -> Member]
      /\ invitation \in [Invitations -> Invitation] /\ RowsTyped /\ Rows
  BY DEF IInv, TypeOK, RowsTyped
<1>1. ASSUME NEW u \in Users, CreateOrganization(u)
      PROVE  InvitationsStay /\ RowsTyped' /\ Rows'
  <2>1. member' = [member EXCEPT ![u] = [role |-> "agency_owner", active |-> TRUE]]
    BY <1>1 DEF CreateOrganization
  <2> QED
    BY <1>0, <1>1, <2>1 DEF CreateOrganization, invitationVars, InvitationsStay, RowsTyped,
                       Rows, Member, INVITABLE_ROLES, Roles
<1>2. ASSUME NEW i \in Invitations, Expire(i)
      PROVE  InvitationsStay /\ RowsTyped' /\ Rows'
  BY <1>0, <1>2 DEF Expire, InvitationsStay, RowsTyped, Rows, Invitation
<1>3. ASSUME NEW r \in Requests, Deactivate(r) \/ Remove(r)
      PROVE  InvitationsStay /\ RowsTyped' /\ Rows'
  <2>1. req[r].target \in Users
    BY <1>0, <1>3 DEF Deactivate, Remove, Requested, WellFormed
  <2>2. overtaken' \in BOOLEAN
    BY <1>0, <1>3 DEF Deactivate, Remove, RowsTyped, Manager
  <2>3. member' \in [Users -> Member] /\ \A u \in Users : member'[u].role = None => ~member'[u].active
    <3>1. CASE Deactivate(r)
      <4>1. member' = [member EXCEPT ![req[r].target].active = FALSE]
        BY <3>1 DEF Deactivate
      <4> QED
        BY <1>0, <2>1, <4>1 DEF Member, Rows
    <3>2. CASE Remove(r)
      <4>1. member' = [member EXCEPT ![req[r].target] = NoMember]
        BY <3>2 DEF Remove
      <4>2. NoMember \in Member /\ ~NoMember.active
        BY DEF NoMember, Member
      <4> QED
        BY <1>0, <2>1, <4>1, <4>2 DEF Rows
    <3> QED
      BY <1>3, <3>1, <3>2
  <2> QED
    BY <1>0, <1>3, <2>2, <2>3 DEF Deactivate, Remove, invitationVars, InvitationsStay,
                                  RowsTyped, Rows
<1>4. ASSUME NEW r \in Requests, NEW i \in Invitations, NEW role \in OfferedRoles,
             InviteInsert(r, i, role)
      PROVE  InvitationsStay /\ RowsTyped' /\ Rows'
  <2>1. req[r].target \in Users
    BY <1>0, <1>4 DEF InviteInsert, Requested, WellFormed
  <2>2. role \in INVITABLE_ROLES
    OBVIOUS
  <2> QED
    BY <1>0, <1>4, <2>1, <2>2 DEF InviteInsert, InvitationsStay, RowsTyped, Rows, Invitation
<1>5. ASSUME NEW r \in Requests, NEW i \in Invitations, RevokeInvitation(r, i)
      PROVE  InvitationsStay /\ RowsTyped' /\ Rows'
  BY <1>0, <1>5 DEF RevokeInvitation, InvitationsStay, RowsTyped, Rows, Invitation
<1>6. ASSUME NEW r \in Requests, AcceptCommit(r)
      PROVE  InvitationsStay /\ RowsTyped' /\ Rows'
  <2> DEFINE i == req[r].about
             u == req[r].user
  <2>1. i \in Invitations /\ u \in Users /\ invitation[i].status # "none"
    BY <1>0, <1>6 DEF AcceptCommit, Requested, WellFormed
  <2>2. invitation[i].role \in INVITABLE_ROLES
    BY <1>0, <2>1 DEF Rows
  <2>3. member' \in [Users -> Member] /\ \A w \in Users : member'[w].role = None => ~member'[w].active
    <3>1. member' = [member EXCEPT ![u] = [role |-> invitation[i].role, active |-> TRUE]]
      BY <1>6 DEF AcceptCommit
    <3>2. invitation[i].role # None
      BY <2>2 DEF INVITABLE_ROLES
    <3> QED
      BY <1>0, <2>1, <2>2, <3>1, <3>2 DEF Member, Rows
  <2>4. /\ admitted' = [admitted EXCEPT ![i] = admitted[i] + 1]
        /\ admitted' \in [Invitations -> Nat]
    BY <1>0, <1>6, <2>1 DEF AcceptCommit, RowsTyped
  <2>5. /\ InvitationsStay /\ crossed' \subseteq Invitations
        /\ \A j \in Invitations : invitation'[j].status \in {"none", "pending"} =>
             j # i /\ invitation[j].status \in {"none", "pending"}
        /\ \A j \in Invitations \ {i} : invitation'[j] = invitation[j]
    <3>1. CASE invitation[i].status = "pending"
      BY <1>0, <1>6, <2>1, <3>1 DEF AcceptCommit, InvitationsStay, Invitation, RowsTyped
    <3>2. CASE invitation[i].status # "pending"
      BY <1>0, <1>6, <2>1, <3>2 DEF AcceptCommit, InvitationsStay, Invitation, RowsTyped
    <3> QED
      BY <3>1, <3>2
  <2>6. Rows'
    <3>1. ASSUME NEW j \in Invitations, invitation'[j].status # "none"
          PROVE  invitation'[j].user \in Users /\ invitation'[j].role \in INVITABLE_ROLES
      BY <1>0, <2>1, <2>5, <3>1 DEF Rows, InvitationsStay
    <3>2. ASSUME NEW j \in Invitations, invitation'[j].status \in {"none", "pending"}
          PROVE  admitted'[j] = 0
      BY <1>0, <2>4, <2>5, <3>2 DEF Rows, RowsTyped
    <3> QED
      BY <2>3, <3>1, <3>2 DEF Rows
  <2> QED
    BY <1>0, <1>6, <2>3, <2>4, <2>5, <2>6 DEF AcceptCommit, RowsTyped
<1>7. CASE UNCHANGED <<member, invitation, admitted, crossed, outrun, founder, overtaken>>
  BY <1>0, <1>7 DEF InvitationsStay, RowsTyped, Rows
<1> QED
  BY <1>1, <1>2, <1>3, <1>4, <1>5, <1>6, <1>7, OtherSteps DEF RowStep

LEMMA AccessKept ==
  ASSUME IInv, Next
  PROVE  /\ client' \in [Clients -> {"none", "active", "archived"}]
         /\ clientRole' \in [Clients -> [Users -> ClientRoles \cup {None}]]
         /\ assigned' \in [Clients -> SUBSET Users]
         /\ session' \subseteq Users
         /\ AccessNeedsMembership'
<1> DEFINE Typed == /\ client' \in [Clients -> {"none", "active", "archived"}]
                    /\ clientRole' \in [Clients -> [Users -> ClientRoles \cup {None}]]
                    /\ assigned' \in [Clients -> SUBSET Users]
                    /\ session' \subseteq Users
           Kept == \A u \in Users : member[u].role # None => member'[u].role # None
<1>0. /\ req \in [Requests -> Request] /\ Requested
      /\ member \in [Users -> Member] /\ Rows
      /\ client \in [Clients -> {"none", "active", "archived"}]
      /\ clientRole \in [Clients -> [Users -> ClientRoles \cup {None}]]
      /\ assigned \in [Clients -> SUBSET Users]
      /\ session \subseteq Users
      /\ AccessNeedsMembership
  BY DEF IInv, TypeOK
<1>1. CASE UNCHANGED accessVars /\ session' \subseteq Users /\ Kept
  BY <1>0, <1>1 DEF accessVars, AccessNeedsMembership
<1>2. ASSUME NEW r \in Requests, Remove(r)  PROVE Typed /\ AccessNeedsMembership'
  <2> DEFINE u == req[r].target
  <2>1. u \in Users
    BY <1>0, <1>2 DEF Remove, Requested, WellFormed
  <2>2. /\ UNCHANGED <<client, session>>
        /\ member' = [member EXCEPT ![u] = NoMember]
        /\ clientRole' = [c \in Clients |-> [clientRole[c] EXCEPT ![u] = None]]
        /\ assigned' = [c \in Clients |-> assigned[c] \ {u}]
    BY <1>2 DEF Remove
  <2> HIDE DEF u
  <2>3. Typed
    BY <1>0, <2>1, <2>2
  <2>4. \A c \in Clients, w \in Users : clientRole'[c][w] # None \/ w \in assigned'[c] =>
          w # u /\ (clientRole[c][w] # None \/ w \in assigned[c])
    BY <1>0, <2>1, <2>2
  <2>5. AccessNeedsMembership'
    BY <1>0, <2>2, <2>4 DEF AccessNeedsMembership
  <2> QED
    BY <2>3, <2>5
<1>3. ASSUME NEW r \in Requests, Serve(r)  PROVE Typed /\ AccessNeedsMembership'
  <2>1. ASSUME NEW c \in Clients, CreateClient(r, c) \/ UpdateClient(r, c)
        PROVE  Typed /\ AccessNeedsMembership'
    BY <1>0, <2>1 DEF CreateClient, UpdateClient, AccessNeedsMembership
  <2>2. ASSUME NEW c \in Clients, NEW u \in Users,
               RemoveClientMember(r, c, u) \/ UnassignOperator(r, c, u)
        PROVE  Typed /\ AccessNeedsMembership'
    <3>1. CASE RemoveClientMember(r, c, u)
      BY <1>0, <3>1 DEF RemoveClientMember, AccessNeedsMembership
    <3>2. CASE UnassignOperator(r, c, u)
      BY <1>0, <3>2 DEF UnassignOperator, AccessNeedsMembership
    <3> QED
      BY <2>2, <3>1, <3>2
  <2>3. ASSUME AddClientMember(r) \/ AssignOperator(r)
        PROVE  Typed /\ AccessNeedsMembership'
    <3>1. req[r].about \in Clients /\ req[r].target \in Users
      BY <1>0, <2>3 DEF AddClientMember, AssignOperator, Requested, WellFormed
    <3>2. CASE AddClientMember(r)
      BY <1>0, <3>1, <3>2 DEF AddClientMember, AccessNeedsMembership
    <3>3. CASE AssignOperator(r)
      BY <1>0, <3>1, <3>3 DEF AssignOperator, AccessNeedsMembership
    <3> QED
      BY <2>3, <3>2, <3>3
  <2>4. ASSUME NEW c \in Clients, NEW u \in Users, NEW op \in ClientRoles \cup {"operator"},
               GrantRead(r, c, u, op)
        PROVE  Typed /\ AccessNeedsMembership'
    BY <1>0, <1>1, <2>4 DEF GrantRead, accessVars
  <2> QED
    BY <1>3, <2>1, <2>2, <2>3, <2>4 DEF Serve
<1>4. ASSUME NEW r \in Requests, SwitchWrite(r)  PROVE Typed /\ AccessNeedsMembership'
  <2>1. req[r].user \in Users
    BY <1>0, <1>4 DEF SwitchWrite, Requested, WellFormed
  <2> QED
    BY <1>0, <1>1, <1>4, <2>1 DEF SwitchWrite
<1>5. CASE \E u \in Users : CreateOrganization(u)
  <2> PICK u \in Users : CreateOrganization(u)
    BY <1>5
  <2>1. member' = [member EXCEPT ![u] = [role |-> "agency_owner", active |-> TRUE]]
    BY DEF CreateOrganization
  <2>2. Kept
    BY <1>0, <2>1 DEF Roles
  <2> QED
    BY <1>0, <1>1, <2>2 DEF CreateOrganization
<1>6. ASSUME NEW r \in Requests, Deactivate(r)  PROVE Typed /\ AccessNeedsMembership'
  <2>1. req[r].target \in Users
    BY <1>0, <1>6 DEF Deactivate, Requested, WellFormed
  <2>2. member' = [member EXCEPT ![req[r].target].active = FALSE]
    BY <1>6 DEF Deactivate
  <2>3. Kept
    BY <1>0, <2>1, <2>2 DEF Member
  <2> QED
    BY <1>0, <1>1, <1>6, <2>3 DEF Deactivate
<1>7. ASSUME NEW r \in Requests, AcceptCommit(r)  PROVE Typed /\ AccessNeedsMembership'
  <2>1. /\ req[r].about \in Invitations /\ req[r].user \in Users
        /\ invitation[req[r].about].role \in INVITABLE_ROLES
    BY <1>0, <1>7 DEF AcceptCommit, Requested, WellFormed, Rows
  <2>2. member' = [member EXCEPT ![req[r].user] = [role |-> invitation[req[r].about].role,
                                                  active |-> TRUE]]
    BY <1>7 DEF AcceptCommit
  <2>3. Kept
    BY <1>0, <2>1, <2>2 DEF INVITABLE_ROLES
  <2> QED
    BY <1>0, <1>1, <1>7, <2>3 DEF AcceptCommit
<1>8. ASSUME NEW r \in Requests, Accept(r)  PROVE Typed /\ AccessNeedsMembership'
  BY <1>0, <1>1, <1>7, <1>8 DEF Accept, AcceptRead, AcceptFresh, AcceptBegin, AcceptInsert
<1>9. ASSUME NEW r \in Requests, Close(r)  PROVE Typed /\ AccessNeedsMembership'
  BY <1>0, <1>1, <1>2, <1>6, <1>9 DEF Close, CloseRead, CloseBegin
<1>10. ASSUME NEW r \in Requests, Invite(r)  PROVE Typed /\ AccessNeedsMembership'
  BY <1>0, <1>1, <1>10 DEF Invite, InviteRead, InviteInsert, RevokeInvitation
<1>11. ASSUME NEW r \in Requests, NEW u \in Users, Begin(r, u)
       PROVE  Typed /\ AccessNeedsMembership'
  BY <1>0, <1>1, <1>11 DEF Begin, ReadMembership, Elevate, SwitchRead
<1>12. ASSUME NEW r \in Requests, ReadClients(r) \/ Abandon(r)
       PROVE  Typed /\ AccessNeedsMembership'
  BY <1>0, <1>1, <1>12 DEF ReadClients, Abandon
<1>13. CASE \E i \in Invitations : Expire(i)
  BY <1>0, <1>1, <1>13 DEF Expire
<1> QED
  BY <1>3, <1>4, <1>5, <1>8, <1>9, <1>10, <1>11, <1>12, <1>13 DEF Next

-----------------------------------------------------------------------------
(* The strengthening that concerns several requests.                       *)

\* Serving either ends the request or finds whom to grant what.
LEMMA ServeMoves ==
  ASSUME NEW r \in Requests, Serve(r)
  PROVE  /\ req[r].phase \in {"actor", "grant"}
         /\ \/ Finish(r)
            \/ \E c \in Clients, u \in Users, op \in ClientRoles \cup {"operator"} :
                 GrantRead(r, c, u, op)
<1>1. ASSUME NEW c \in Clients, CreateClient(r, c) \/ UpdateClient(r, c)
      PROVE  req[r].phase = "actor" /\ Finish(r)
  BY <1>1 DEF CreateClient, UpdateClient
<1>2. ASSUME NEW c \in Clients, NEW u \in Users,
             RemoveClientMember(r, c, u) \/ UnassignOperator(r, c, u)
      PROVE  req[r].phase = "actor" /\ Finish(r)
  BY <1>2 DEF RemoveClientMember, UnassignOperator
<1>3. ASSUME AddClientMember(r) \/ AssignOperator(r)
      PROVE  req[r].phase = "grant" /\ Finish(r)
  BY <1>3 DEF AddClientMember, AssignOperator
<1>4. ASSUME NEW c \in Clients, NEW u \in Users, NEW op \in ClientRoles \cup {"operator"},
             GrantRead(r, c, u, op)
      PROVE  req[r].phase = "actor"
  BY <1>4 DEF GrantRead
<1> QED
  BY <1>1, <1>2, <1>3, <1>4 DEF Serve

LEMMA OnlyCreation ==
  ASSUME IInv, Next, founder = None
  PROVE  \E u \in Users : CreateOrganization(u)
<1>0. /\ \A u \in Users : ~member[u].active
      /\ \A i \in Invitations : invitation[i].status = "none"
      /\ \A r \in Requests : req[r].phase = "idle"
  BY DEF IInv, Founded, Rows
<1>1. \A r \in Requests, u \in Users : ~Begin(r, u)
  BY <1>0 DEF Begin, ReadMembership, Elevate, SwitchRead
<1>2. \A r \in Requests : ~(ReadClients(r) \/ SwitchWrite(r) \/ Abandon(r) \/ Close(r))
  BY <1>0 DEF ReadClients, SwitchWrite, Abandon, Close, CloseRead, CloseBegin, Deactivate, Remove
<1>3. \A r \in Requests : ~(Invite(r) \/ Accept(r))
  BY <1>0 DEF Invite, InviteRead, InviteInsert, RevokeInvitation, Accept, AcceptRead,
              Acceptable, AcceptFresh, AcceptBegin, AcceptInsert, AcceptCommit
<1>4. \A r \in Requests : ~Serve(r)
  BY <1>0, ServeMoves
<1>5. \A i \in Invitations : ~Expire(i)
  BY <1>0 DEF Expire
<1> QED
  BY <1>1, <1>2, <1>3, <1>4, <1>5 DEF Next

LEMMA RowStepFounder ==
  ASSUME Next, founder # None
  PROVE  founder' = founder
BY OtherSteps DEF RowStep, CreateOrganization, Expire, Deactivate, Remove, AcceptCommit,
                  InviteInsert, RevokeInvitation

LEMMA FoundedKept == ASSUME IInv, Next PROVE Founded'
<1>1. CASE founder = None
  BY <1>1, OnlyCreation DEF CreateOrganization, Founded
<1>2. CASE founder # None
  BY <1>2, RowStepFounder DEF Founded
<1> QED
  BY <1>1, <1>2

\* A step by which no request comes past the policy of its INSERT, or past the INSERT.
Past == {"insert", "admitted"}

NoneInserted ==
  \A r \in Requests : req'[r].phase \in Past => req'[r] = req[r]

LEMMA InsertedBefore ==
  ASSUME IInv, Next
  PROVE  NoneInserted \/ \E r \in Requests : AcceptBegin(r) \/ AcceptInsert(r)
<1>0. req \in [Requests -> Request]
  BY DEF IInv, TypeOK
<1>1. CASE \E u \in Users : CreateOrganization(u)
  BY <1>1 DEF CreateOrganization, NoneInserted
<1>2. CASE \E i \in Invitations : Expire(i)
  BY <1>2 DEF Expire, NoneInserted
<1>3. ASSUME NEW r \in Requests, NEW u \in Users, Begin(r, u)  PROVE NoneInserted
  <2>1. CASE ReadMembership(r, u)
    BY <1>0, <2>1 DEF ReadMembership, NoneInserted, Past, Idle
  <2>2. CASE Elevate(r, u)
    BY <1>0, <2>2 DEF Elevate, NoneInserted, Past, Idle
  <2>3. CASE SwitchRead(r, u)
    BY <1>0, <2>3 DEF SwitchRead, NoneInserted, Past, Idle
  <2> QED
    BY <1>3, <2>1, <2>2, <2>3 DEF Begin
<1>4. ASSUME NEW r \in Requests, Finish(r)  PROVE NoneInserted
  BY <1>0, <1>4 DEF Finish, NoneInserted, Past, Idle
<1>5. ASSUME NEW r \in Requests, ReadClients(r) \/ Close(r) \/ Invite(r) \/ Serve(r)
      PROVE  NoneInserted
  <2>1. Finish(r) \/ \A q \in Requests : req'[q].phase \in Past => q # r /\ req'[q] = req[q]
    <3>1. CASE ReadClients(r)
      BY <1>0, <3>1 DEF ReadClients, Request, Past
    <3>2. CASE Close(r)
      BY <1>0, <3>2 DEF Close, CloseRead, CloseBegin, Deactivate, Remove, Request, Past
    <3>3. CASE Invite(r)
      BY <1>0, <3>3 DEF Invite, InviteRead, InviteInsert, RevokeInvitation, Request, Past
    <3>4. CASE Serve(r)
      <4>1. ASSUME NEW c \in Clients, NEW u \in Users, NEW op \in ClientRoles \cup {"operator"},
                   GrantRead(r, c, u, op)
            PROVE  \A q \in Requests : req'[q].phase \in Past => q # r /\ req'[q] = req[q]
        BY <1>0, <4>1 DEF GrantRead, Request, Past
      <4> QED
        BY <3>4, <4>1, ServeMoves
    <3> QED
      BY <1>5, <3>1, <3>2, <3>3, <3>4
  <2> QED
    BY <1>4, <2>1 DEF NoneInserted
<1>6. ASSUME NEW r \in Requests, Accept(r)  
      PROVE  NoneInserted \/ AcceptBegin(r) \/ AcceptInsert(r)
  <2>1. CASE AcceptFresh(r)
    BY <1>0, <2>1 DEF AcceptFresh, NoneInserted, Past, Request
  <2>2. ASSUME NEW i \in Invitations, AcceptRead(r, i)  PROVE NoneInserted
    BY <1>0, <2>2 DEF AcceptRead, NoneInserted, Past, Idle
  <2>3. CASE AcceptCommit(r)
    BY <1>4, <2>3 DEF AcceptCommit
  <2> QED
    BY <1>6, <2>1, <2>2, <2>3 DEF Accept
<1> QED
  BY <1>1, <1>2, <1>3, <1>4, <1>5, <1>6 DEF Next, SwitchWrite, Abandon

\* A closed membership keeps its role or goes.
LEMMA RolesKeptOrGone ==
  ASSUME IInv, NEW r \in Requests, Deactivate(r) \/ Remove(r)
  PROVE  \A u \in Users : member'[u].role \in {None, member[u].role}
<1>1. /\ req[r].target \in Users /\ member \in [Users -> Member]
  BY DEF IInv, TypeOK, Deactivate, Remove, Requested, WellFormed
<1>2. CASE Deactivate(r)
  BY <1>1, <1>2 DEF Deactivate, Member
<1>3. CASE Remove(r)
  <2>1. member' = [member EXCEPT ![req[r].target] = NoMember]
    BY <1>3 DEF Remove
  <2> QED
    BY <1>1, <2>1 DEF NoMember
<1> QED
  BY <1>2, <1>3

LEMMA AdmittingKept == ASSUME IInv, Next PROVE Admitting'
<1>0. /\ req \in [Requests -> Request] /\ Requested
      /\ member \in [Users -> Member] /\ Rows /\ Founded
      /\ Admitting
  BY DEF IInv, TypeOK
<1>1. ASSUME NoneInserted,
             \A r \in Requests : req[r].phase = "admitted" /\ req'[r] = req[r] =>
               member'[req[r].user].role = None
      PROVE  Admitting'
  BY <1>0, <1>1 DEF Admitting, NoneInserted, Past
<1>2. CASE UNCHANGED member /\ NoneInserted
  BY <1>0, <1>1, <1>2 DEF Admitting
<1>3. ASSUME NEW r \in Requests, AcceptInsert(r)  PROVE Admitting'
  <2>1. /\ UNCHANGED member
        /\ req'[r].phase = "admitted" /\ req'[r].user = req[r].user
        /\ \A q \in Requests \ {r} : req'[q] = req[q]
    BY <1>0, <1>3 DEF AcceptInsert, Request
  <2>2. /\ member[req[r].user].role = None
        /\ \A q \in Requests \ {r} : req[q].phase = "admitted" => req[q].user # req[r].user
    BY <1>3 DEF AcceptInsert, KeyFree
  <2> QED
    BY <1>0, <2>1, <2>2 DEF Admitting
<1>4. CASE \E u \in Users : CreateOrganization(u)
  BY <1>0, <1>4 DEF CreateOrganization, Founded, Admitting
<1>5. ASSUME NEW r \in Requests, Deactivate(r) \/ Remove(r), NoneInserted  PROVE Admitting'
  <2>1. \A u \in Users : member[u].role = None => member'[u].role = None
    BY <1>0, <1>5, RolesKeptOrGone
  <2> QED
    BY <1>0, <1>1, <1>5, <2>1 DEF Admitting, Requested, WellFormed
<1>6. ASSUME NEW r \in Requests, AcceptCommit(r), NoneInserted  PROVE Admitting'
  <2>1. /\ req[r].user \in Users
        /\ req[r].phase = "admitted" /\ req'[r].phase = "idle"
    BY <1>0, <1>6 DEF AcceptCommit, Requested, WellFormed, Finish, Idle
  <2>2. \A u \in Users \ {req[r].user} : member'[u] = member[u]
    BY <1>0, <1>6, <2>1 DEF AcceptCommit
  <2>3. ASSUME NEW q \in Requests, req[q].phase = "admitted", req'[q] = req[q]
        PROVE  member'[req[q].user].role = None
    <3>1. q # r
      BY <2>1, <2>3
    <3>2. req[q].user \in Users \ {req[r].user}
      BY <1>0, <2>1, <2>3, <3>1 DEF Admitting, Requested, WellFormed
    <3> QED
      BY <1>0, <2>2, <2>3, <3>2 DEF Admitting
  <2> QED
    BY <1>1, <1>6, <2>3
<1>7. CASE NoneInserted /\ RowStep
  BY <1>2, <1>4, <1>5, <1>6, <1>7 DEF RowStep, Expire, InviteInsert, RevokeInvitation
<1>8. ASSUME NEW r \in Requests, AcceptBegin(r)  PROVE Admitting'
  <2>1. /\ UNCHANGED member
        /\ req'[r].phase = "insert"
        /\ \A q \in Requests \ {r} : req'[q] = req[q]
    BY <1>0, <1>8 DEF AcceptBegin, Request
  <2> QED
    BY <1>0, <2>1 DEF Admitting
<1> QED
  BY <1>2, <1>3, <1>7, <1>8, InsertedBefore, OtherSteps

LEMMA FirstUseKept == ASSUME IInv, Next PROVE FirstUse'
<1>0. /\ req \in [Requests -> Request] /\ Requested
      /\ member \in [Users -> Member] /\ Rows /\ Founded
      /\ admitted \in [Invitations -> Nat]
      /\ Admitting /\ FirstUse
  BY DEF IInv, TypeOK
<1>1. ASSUME NoneInserted,
             \A r \in Requests : req[r].phase \in Past /\ req'[r] = req[r] =>
               \/ admitted'[req[r].about] = 0
               \/ req[r].about \in outrun'
               \/ req[r].phase = "insert" /\ member'[req[r].user].role # None
      PROVE  FirstUse'
  BY <1>1 DEF FirstUse, NoneInserted, Past
<1>2. CASE UNCHANGED <<member, admitted, outrun>> /\ NoneInserted
  BY <1>0, <1>1, <1>2 DEF FirstUse, Past
<1>3. ASSUME NEW r \in Requests, AcceptBegin(r)  PROVE FirstUse'
  <2>1. /\ UNCHANGED <<member, admitted, outrun>>
        /\ req'[r].about = req[r].about /\ \A q \in Requests \ {r} : req'[q] = req[q]
    BY <1>0, <1>3 DEF AcceptBegin, invitationVars, Request
  <2>2. admitted[req[r].about] = 0
    BY <1>0, <1>3 DEF AcceptBegin, Requested, WellFormed, Rows
  <2> QED
    BY <1>0, <2>1, <2>2 DEF FirstUse
<1>4. ASSUME NEW r \in Requests, AcceptInsert(r)  PROVE FirstUse'
  <2>1. /\ UNCHANGED <<member, admitted, outrun>>
        /\ req'[r].about = req[r].about /\ \A q \in Requests \ {r} : req'[q] = req[q]
    BY <1>0, <1>4 DEF AcceptInsert, invitationVars, Request
  <2>2. admitted[req[r].about] = 0 \/ req[r].about \in outrun
    BY <1>0, <1>4 DEF AcceptInsert, FirstUse
  <2> QED
    BY <1>0, <2>1, <2>2 DEF FirstUse
<1>5. CASE \E u \in Users : CreateOrganization(u)
  BY <1>0, <1>5 DEF CreateOrganization, Founded, FirstUse
<1>6. ASSUME NEW r \in Requests, Deactivate(r), NoneInserted  PROVE FirstUse'
  <2>1. \A u \in Users : member'[u].role = member[u].role
    BY <1>0, <1>6 DEF Deactivate, Requested, WellFormed, Member
  <2> QED
    BY <1>0, <1>1, <1>6, <2>1 DEF Deactivate, invitationVars, FirstUse, Past, Requested,
                                  WellFormed
<1>7. ASSUME NEW r \in Requests, Remove(r), NoneInserted  PROVE FirstUse'
  <2> DEFINE u == req[r].target
  <2>1. /\ u \in Users /\ \A w \in Users \ {u} : member'[w] = member[w]
        /\ admitted' = admitted /\ outrun \subseteq outrun'
        /\ \A i \in Invitations : Outruns(i, u) => i \in outrun'
    BY <1>0, <1>7 DEF Remove, Requested, WellFormed
  <2>2. ASSUME NEW q \in Requests, req[q].phase \in Past
        PROVE  \/ admitted'[req[q].about] = 0
               \/ req[q].about \in outrun'
               \/ req[q].phase = "insert" /\ member'[req[q].user].role # None
    <3>1. /\ req[q].about \in Invitations /\ req[q].user \in Users
          /\ admitted[req[q].about] \in Nat
      BY <1>0, <2>2 DEF Requested, WellFormed, Past
    <3>2. CASE req[q].user # u
      BY <1>0, <2>1, <2>2, <3>1, <3>2 DEF FirstUse, Past
    <3>3. CASE req[q].user = u /\ req[q].phase = "insert"
      BY <2>1, <3>1, <3>3 DEF Outruns
    <3>4. CASE req[q].phase = "admitted"
      BY <1>0, <2>1, <2>2, <3>4 DEF FirstUse
    <3> QED
      BY <2>2, <3>2, <3>3, <3>4 DEF Past
  <2> QED
    BY <1>1, <1>7, <2>2
<1>8. ASSUME NEW r \in Requests, AcceptCommit(r), NoneInserted  PROVE FirstUse'
  <2> DEFINE i == req[r].about
             u == req[r].user
  <2>1. /\ u \in Users /\ i \in Invitations
        /\ invitation[i].user = u /\ invitation[i].role \in INVITABLE_ROLES
        /\ req[r].phase = "admitted" /\ req'[r].phase = "idle"
    BY <1>0, <1>8 DEF AcceptCommit, Requested, WellFormed, Rows, Finish, Idle
  <2>2. /\ member'[u].role = invitation[i].role
        /\ \A w \in Users \ {u} : member'[w] = member[w]
        /\ outrun' = outrun
        /\ \A j \in Invitations \ {i} : admitted'[j] = admitted[j]
    BY <1>0, <1>8, <2>1 DEF AcceptCommit
  <2>3. member'[u].role # None
    BY <2>1, <2>2 DEF INVITABLE_ROLES
  <2>4. ASSUME NEW q \in Requests, req[q].phase \in Past, req'[q] = req[q]
        PROVE  \/ admitted'[req[q].about] = 0
               \/ req[q].about \in outrun'
               \/ req[q].phase = "insert" /\ member'[req[q].user].role # None
    <3>1. /\ q # r /\ req[q].about \in Invitations /\ req[q].user \in Users
          /\ invitation[req[q].about].user = req[q].user
      BY <1>0, <2>1, <2>4 DEF Requested, WellFormed, Past
    <3>2. CASE req[q].user = u /\ req[q].phase = "insert"
      BY <2>3, <3>2
    <3>3. CASE req[q].user # u
      BY <1>0, <2>1, <2>2, <2>4, <3>1, <3>3 DEF FirstUse, Past
    <3>4. ~(req[q].user = u /\ req[q].phase = "admitted")
      BY <1>0, <2>1, <3>1 DEF Admitting
    <3> QED
      BY <2>4, <3>2, <3>3, <3>4 DEF Past
  <2> QED
    BY <1>1, <1>8, <2>4
<1>9. CASE NoneInserted /\ RowStep
  BY <1>2, <1>5, <1>6, <1>7, <1>8, <1>9 DEF RowStep, Expire, InviteInsert, RevokeInvitation
<1> QED
  BY <1>2, <1>3, <1>4, <1>9, InsertedBefore, OtherSteps

-----------------------------------------------------------------------------
(* The properties.                                                         *)

LEMMA ManagerKept == ASSUME IInv, Next PROVE ManagerRemains'
<1>0. /\ req \in [Requests -> Request] /\ Requested
      /\ member \in [Users -> Member] /\ Rows /\ Admitting /\ ManagerRemains
  BY DEF IInv, TypeOK
<1>1. ASSUME founder # None, founder' = founder, overtaken => overtaken',
             \A u \in Users : Manager(u) => overtaken' \/ \E w \in Users : Manager(w)'
      PROVE  ManagerRemains'
  BY <1>0, <1>1 DEF ManagerRemains
<1>2. CASE \E u \in Users : CreateOrganization(u)
  <2> PICK u \in Users : CreateOrganization(u)
    BY <1>2
  <2>1. member'[u] = [role |-> "agency_owner", active |-> TRUE]
    BY <1>0 DEF CreateOrganization
  <2> QED
    BY <2>1 DEF ManagerRemains, Manager, OwnerLevel
<1>3. ASSUME founder # None, UNCHANGED <<member, founder, overtaken>>  PROVE ManagerRemains'
  BY <1>0, <1>3 DEF ManagerRemains, Manager
<1>4. ASSUME founder # None, NEW r \in Requests, Deactivate(r) \/ Remove(r)
      PROVE  ManagerRemains'
  <2>1. /\ req[r].user \in Users /\ req[r].target \in Users /\ req[r].target # req[r].user
    BY <1>0, <1>4 DEF Deactivate, Remove, Requested, WellFormed
  <2>2. /\ founder' = founder
        /\ overtaken' = (overtaken \/ ~Manager(req[r].user))
        /\ \A u \in Users \ {req[r].target} : member'[u] = member[u]
    BY <1>0, <1>4, <2>1 DEF Deactivate, Remove
  <2>3. CASE Manager(req[r].user)
    <3> PICK w \in Users : w = req[r].user
      BY <2>1
    <3>1. member'[w] = member[w]
      BY <2>1, <2>2
    <3>2. Manager(w)'
      BY <2>3, <3>1 DEF Manager
    <3> QED
      BY <3>2 DEF ManagerRemains
  <2>4. CASE ~Manager(req[r].user)
    BY <2>2, <2>4 DEF ManagerRemains
  <2> QED
    BY <2>3, <2>4
<1>5. ASSUME founder # None, NEW r \in Requests, AcceptCommit(r)  PROVE ManagerRemains'
  <2>1. req[r].user \in Users /\ member[req[r].user].role = None /\ ~member[req[r].user].active
    BY <1>0, <1>5 DEF AcceptCommit, Requested, WellFormed, Admitting, Rows
  <2>2. \A u \in Users \ {req[r].user} : member'[u] = member[u]
    BY <1>0, <1>5, <2>1 DEF AcceptCommit
  <2>3. \A u \in Users : Manager(u) => Manager(u)'
    BY <2>1, <2>2 DEF Manager
  <2> QED
    BY <1>1, <1>5, <2>3 DEF AcceptCommit
<1>6. ASSUME founder # None, NEW r \in Requests, NEW i \in Invitations,
             \/ \E role \in OfferedRoles : InviteInsert(r, i, role)
             \/ RevokeInvitation(r, i)
      PROVE  ManagerRemains'
  BY <1>3, <1>6 DEF InviteInsert, RevokeInvitation
<1>7. ASSUME founder # None, NEW i \in Invitations, Expire(i)  PROVE ManagerRemains'
  BY <1>3, <1>7 DEF Expire
<1> QED
  BY <1>2, <1>3, <1>4, <1>5, <1>6, <1>7, OnlyCreation, OtherSteps DEF RowStep

\* Admissions and their explanation, by what a step does to invitations and members.
LEMMA AdmissionsKept ==
  ASSUME IInv, Next
  PROVE  SpentOnceUnlessOutrun' /\ AdmissionExplained'
<1>0. /\ req \in [Requests -> Request] /\ Requested
      /\ member \in [Users -> Member] /\ Rows /\ Founded /\ Admitting
      /\ invitation \in [Invitations -> Invitation]
      /\ admitted \in [Invitations -> Nat] /\ FirstUse
      /\ crossed \subseteq Invitations
      /\ SpentOnceUnlessOutrun /\ AdmissionExplained
  BY DEF IInv, TypeOK
<1> DEFINE Good == SpentOnceUnlessOutrun' /\ AdmissionExplained'
<1>1. ASSUME NEW u \in Users, CreateOrganization(u), founder = None  PROVE Good
  <2>1. /\ founder' = u /\ UNCHANGED <<admitted, outrun>>
        /\ member'[u].role = "agency_owner"
        /\ \A w \in Users \ {u} : member'[w].role = None
    BY <1>0, <1>1 DEF CreateOrganization, invitationVars, Founded
  <2> QED
    BY <1>0, <2>1 DEF SpentOnceUnlessOutrun, AdmissionExplained
\* Members keep their roles or go; used invitations are left alone.
<1>2. ASSUME UNCHANGED <<admitted, crossed, founder>>, outrun \subseteq outrun',
             \A u \in Users : member'[u].role \in {None, member[u].role},
             \A i \in Invitations : admitted[i] > 0 =>
               /\ invitation'[i].user = invitation[i].user
               /\ invitation'[i].role = invitation[i].role
               /\ invitation[i].status = "accepted" => invitation'[i].status = "accepted"
      PROVE  Good
  BY <1>0, <1>2 DEF SpentOnceUnlessOutrun, AdmissionExplained
<1>3. CASE UNCHANGED <<member, invitation, admitted, crossed, outrun, founder>>
  BY <1>0, <1>2, <1>3
<1>4. ASSUME NEW i \in Invitations, Expire(i)  PROVE Good
  <2>1. /\ UNCHANGED <<member, admitted, crossed, outrun, founder>>
        /\ \A j \in Invitations \ {i} : invitation'[j] = invitation[j]
        /\ admitted[i] = 0
    BY <1>0, <1>4 DEF Expire, Rows
  <2> QED
    BY <1>0, <1>2, <2>1
<1>5. ASSUME NEW r \in Requests, NEW i \in Invitations,
             \/ \E role \in OfferedRoles : InviteInsert(r, i, role)
             \/ RevokeInvitation(r, i)
      PROVE  Good
  <2>1. /\ UNCHANGED <<member, admitted, crossed, outrun, founder>>
        /\ \A j \in Invitations \ {i} : invitation'[j] = invitation[j]
        /\ admitted[i] = 0
    BY <1>0, <1>5 DEF InviteInsert, RevokeInvitation, Rows
  <2> QED
    BY <1>0, <1>2, <2>1
<1>6. ASSUME NEW r \in Requests, Deactivate(r) \/ Remove(r)  PROVE Good
  <2>1. \A u \in Users : member'[u].role \in {None, member[u].role}
    BY <1>6, RolesKeptOrGone
  <2> QED
    BY <1>0, <1>2, <1>6, <2>1 DEF Deactivate, Remove, invitationVars
<1>7. ASSUME NEW r \in Requests, AcceptCommit(r)  PROVE Good
  <2>1. /\ req[r].user \in Users /\ req[r].about \in Invitations
        /\ invitation[req[r].about].user = req[r].user
        /\ invitation[req[r].about].status # "none"
        /\ admitted[req[r].about] = 0 \/ req[r].about \in outrun
    BY <1>0, <1>7 DEF AcceptCommit, Requested, WellFormed, FirstUse
  <2> DEFINE i == req[r].about
             u == req[r].user
  <2>2. /\ member'[u].role = invitation[i].role
        /\ \A w \in Users \ {u} : member'[w] = member[w]
        /\ founder' = founder
    BY <1>0, <1>7, <2>1 DEF AcceptCommit
  <2>3. /\ admitted'[i] = admitted[i] + 1 /\ outrun' = outrun
        /\ \A j \in Invitations \ {i} : admitted'[j] = admitted[j]
    BY <1>0, <1>7, <2>1 DEF AcceptCommit
  <2>4. /\ invitation'[i].user = u /\ invitation'[i].role = invitation[i].role
        /\ invitation'[i].status = "accepted" \/ i \in crossed'
        /\ \A j \in Invitations \ {i} : invitation'[j] = invitation[j]
        /\ crossed \subseteq crossed'
    <3>1. CASE invitation[i].status = "pending"
      BY <1>0, <1>7, <2>1, <3>1 DEF AcceptCommit, Invitation
    <3>2. CASE invitation[i].status # "pending"
      BY <1>0, <1>7, <2>1, <3>2 DEF AcceptCommit, Invitation
    <3> QED
      BY <3>1, <3>2
  <2>5. SpentOnceUnlessOutrun'
    <3>1. admitted'[i] <= 1 \/ i \in outrun'
      BY <1>0, <2>1, <2>3
    <3> QED
      BY <1>0, <2>3, <3>1 DEF SpentOnceUnlessOutrun
  <2>6. ASSUME NEW w \in Users, member'[w].role # None
        PROVE  \/ w = founder' /\ member'[w].role = "agency_owner"
               \/ \E j \in Invitations : /\ invitation'[j].user = w
                                         /\ invitation'[j].role = member'[w].role
                                         /\ admitted'[j] > 0
                                         /\ invitation'[j].status = "accepted" \/ j \in crossed'
    <3>1. CASE w = u
      BY <1>0, <2>1, <2>2, <2>3, <2>4, <3>1
    <3>2. CASE w # u
      <4>1. member'[w] = member[w]
        BY <2>2, <3>2
      <4>2. CASE w = founder /\ member[w].role = "agency_owner"
        BY <2>2, <4>1, <4>2
      <4>3. ASSUME NEW j \in Invitations,
                   /\ invitation[j].user = w /\ invitation[j].role = member[w].role
                   /\ admitted[j] > 0
                   /\ invitation[j].status = "accepted" \/ j \in crossed
            PROVE  /\ invitation'[j].user = w /\ invitation'[j].role = member'[w].role
                   /\ admitted'[j] > 0
                   /\ invitation'[j].status = "accepted" \/ j \in crossed'
        <5>1. j # i
          BY <2>1, <3>2, <4>3
        <5> QED
          BY <2>3, <2>4, <4>1, <4>3, <5>1
      <4> QED
        BY <1>0, <2>6, <4>1, <4>2, <4>3 DEF AdmissionExplained
    <3> QED
      BY <3>1, <3>2
  <2> QED
    BY <2>5, <2>6 DEF AdmissionExplained
<1> QED
  BY <1>1, <1>3, <1>4, <1>5, <1>6, <1>7, OtherSteps DEF RowStep, CreateOrganization

-----------------------------------------------------------------------------

LEMMA InitIInv == Init => IInv
<1> SUFFICES ASSUME Init PROVE IInv
  OBVIOUS
<1>1. /\ NoMember \in Member /\ NoInvitation \in Invitation /\ Idle \in Request
      /\ NoMember.role = None /\ NoInvitation.status = "none" /\ Idle.phase = "idle"
      /\ ~NoMember.active
  BY DEF NoMember, Member, NoInvitation, Invitation, Idle, Request, Phases
<1>2. TypeOK
  BY <1>1 DEF Init, TypeOK
<1>3. Requested /\ Rows /\ Founded /\ Admitting /\ FirstUse
  BY <1>1 DEF Init, Requested, WellFormed, Rows, Founded, Admitting, FirstUse
<1>4. ManagerRemains /\ SpentOnceUnlessOutrun /\ AdmissionExplained /\ AccessNeedsMembership
  BY <1>1 DEF Init, ManagerRemains, SpentOnceUnlessOutrun, AdmissionExplained,
              AccessNeedsMembership
<1> QED
  BY <1>2, <1>3, <1>4 DEF IInv

LEMMA NextIInv == IInv /\ [Next]_vars => IInv'
<1> SUFFICES ASSUME IInv, [Next]_vars PROVE IInv'
  OBVIOUS
<1>1. CASE UNCHANGED vars
  BY <1>1 DEF vars, IInv, TypeOK, Requested, WellFormed, Rows, Founded, Admitting, FirstUse,
              ManagerRemains, Manager, SpentOnceUnlessOutrun, AdmissionExplained,
              AccessNeedsMembership
<1>2. CASE Next
  <2>1. InvitationsStay /\ RowsTyped' /\ Rows'
    BY <1>2, RowStepTyped
  <2>2. req' \in [Requests -> Request] /\ Requested'
    BY <1>2, <2>1, StepMoves, RequestsKept
  <2>3. TypeOK' /\ AccessNeedsMembership'
    BY <1>2, <2>1, <2>2, AccessKept DEF TypeOK, RowsTyped, InvitationsStay
  <2> QED
    BY <1>2, <2>1, <2>2, <2>3, FoundedKept, AdmittingKept, FirstUseKept, ManagerKept, AdmissionsKept
    DEF IInv
<1> QED
  BY <1>1, <1>2

LEMMA Invariance == Spec => []IInv
BY InitIInv, NextIInv, PTL DEF Spec

\* Every variable keeps its type.
THEOREM TypeCorrect == Spec => []TypeOK
<1>1. IInv => TypeOK
  BY DEF IInv
<1> QED
  BY <1>1, Invariance, PTL

\* Somebody can manage the organization, unless a membership was closed by a request
\* whose own user had lost that right meanwhile.
THEOREM ManagersRemain == Spec => []ManagerRemains
<1>1. IInv => ManagerRemains
  BY DEF IInv
<1> QED
  BY <1>1, Invariance, PTL

\* No invitation admits twice, however many acceptances of it overlap, unless the member it
\* admitted was removed while another acceptance had passed its policy and not inserted.
THEOREM InvitationsSpentOnce == Spec => []SpentOnceUnlessOutrun
<1>1. IInv => SpentOnceUnlessOutrun
  BY DEF IInv
<1> QED
  BY <1>1, Invariance, PTL

\* Every membership is the founder's or that of an invitation, with its role.
THEOREM AdmissionsExplained == Spec => []AdmissionExplained
<1>1. IInv => AdmissionExplained
  BY DEF IInv
<1> QED
  BY <1>1, Invariance, PTL

\* Nobody keeps, or gets, access to a client without being a member.
THEOREM AccessOfMembersOnly == Spec => []AccessNeedsMembership
<1>1. IInv => AccessNeedsMembership
  BY DEF IInv
<1> QED
  BY <1>1, Invariance, PTL
=============================================================================
