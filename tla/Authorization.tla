---------------------------- MODULE Authorization ----------------------------
(***************************************************************************)
(* The authorization matrix: which role may do what, on which scope.  An   *)
(* actor is a record with the role and the client ids that were read when  *)
(* its request began; what it may do is a pure function of that record.    *)
(***************************************************************************)

Roles == {"platform_admin", "agency_owner", "agency_admin", "agency_operator",
          "client_admin", "client_viewer"}

OwnerLevel           == {"agency_owner", "agency_admin"}
Management           == OwnerLevel \cup {"platform_admin"}   \* CLIENT_WIDE is the same set
OperationsManagement == Management \cup {"agency_operator"}
ApprovalManagement   == OperationsManagement \cup {"client_admin"}

Entry(roles, scope) == [roles |-> roles, scope |-> scope]

\* Organizations, members and clients.
TenancyMatrix ==
  [action \in {"organization:create", "organization:read", "organization:update",
               "member:list", "member:invite", "member:deactivate", "member:remove",
               "client:list", "client:read", "client:create", "client:update",
               "client:manage_members", "client:assign_operator",
               "client:unassign_operator", "audit:read", "elevation:request"} |->
     CASE action = "organization:create" -> Entry({"agency_owner"}, "platform")
       [] action = "elevation:request"   -> Entry({"platform_admin"}, "platform")
       [] action \in {"organization:read", "client:list"} -> Entry(Roles, "organization")
       [] action = "client:read"         -> Entry(Roles, "client")
       [] action = "client:manage_members" ->
            Entry(Management \cup {"client_admin"}, "client")
       [] action \in {"client:update", "client:assign_operator",
                      "client:unassign_operator"} -> Entry(Management, "client")
       [] OTHER -> Entry(Management, "organization")]

\* Integrations, events, leads, runs, incidents, reports and approvals.
PortalMatrix ==
  [action \in {"integration:list", "integration:create", "integration:rotate_secret",
               "integration:revoke", "event:replay", "lead:list", "lead:read",
               "dashboard:read", "workflow_run:read", "incident:read", "incident:manage",
               "report:read", "approval:create", "approval:read", "approval:decide",
               "approval:token_create", "approval:token_revoke"} |->
     CASE action = "integration:list" -> Entry(Roles, "organization")
       [] action \in {"integration:create", "integration:rotate_secret",
                      "integration:revoke", "event:replay"} ->
            Entry(Management, "organization")
       [] action = "incident:manage" -> Entry(OperationsManagement, "client")
       [] action = "approval:decide" -> Entry(ApprovalManagement, "client")
       [] action \in {"approval:create", "approval:token_create", "approval:token_revoke"} ->
            Entry(Management, "client")
       [] OTHER -> Entry(Roles, "client")]

MATRIX == [action \in DOMAIN TenancyMatrix \cup DOMAIN PortalMatrix |->
             IF action \in DOMAIN TenancyMatrix THEN TenancyMatrix[action]
                                                ELSE PortalMatrix[action]]

\* can(): client is the client the action is about, or any value outside the actor's
\* clients.  The organization is always the actor's own.
Can(actor, action, client) ==
  /\ actor.role \in MATRIX[action].roles
  /\ MATRIX[action].scope # "platform" =>
       /\ actor.role = "platform_admin" => actor.elevated
       /\ \/ MATRIX[action].scope = "organization"
          \/ actor.role \in Management
          \/ client \in actor.clients
=============================================================================
