------------------------ MODULE IntegrationSecrets ------------------------
(***************************************************************************)
(* One integration, its secrets and the requests about it: creation,       *)
(* rotation of the secret, revocation, registration of the callback URL,   *)
(* and the deliveries of the sender that are signed with its secrets.      *)
(*                                                                         *)
(* The versions of the secret are the positions of "secrets".  A rotation  *)
(* holds an advisory lock from its first statement to its commit; the time *)
(* it writes is that of its transaction's start, before it had the lock.   *)
(* A revocation does not take that lock.  What a transaction writes shows  *)
(* at its commit, and is one step here; the update of the secrets that     *)
(* ends a revocation touches those its snapshot saw, and that are live     *)
(* still when it has their locks, so the snapshot is a step before.        *)
(***************************************************************************)
EXTENDS Naturals, Sequences, FiniteSets, CallbackUrl

CONSTANTS
  Requests,   \* requests that may overlap
  OfferedUrls, \* pairs of a callback URL and what its host name resolves to
  GRACE,      \* how long a replaced secret still verifies (five minutes)
  MaxTime,    \* bound of the clock
  MaxSecrets, \* bound of the versions
  None        \* no time, no URL

ASSUME BoundsAssumption ==
  /\ GRACE \in Nat \ {0} /\ MaxTime \in Nat /\ MaxSecrets \in Nat
  /\ None \notin Nat
  /\ \A offer \in OfferedUrls : offer[1] \in Urls /\ offer[2] \in Seq(Addresses)

VARIABLES
  clock,
  status,    \* of the integration's row, or "none"
  callback,  \* its callback_url, or None
  secrets,   \* the rows of integration_secrets, by version
  holder,    \* the request that holds the advisory lock, or None
  req,       \* req[r]: what request r is doing
  received,  \* the events that were stored: which secret signed, when it was looked up
  overlapped \* versions added by a rotation that overlapped with a revocation: overtaken
             \* by it, or committed between its snapshot and its commit

vars == <<clock, status, callback, secrets, holder, req, received, overlapped>>

\* revokedAt is the column; endedAt is when the transaction that wrote it committed.
Secret == [revokedAt : Nat \cup {None}, endedAt : Nat \cup {None}]
NewSecret == [revokedAt |-> None, endedAt |-> None]

\* overtaken: a revocation was committed after the request had read the status.
\* secret: the version that verified, or the last that a revocation's snapshot has.
Idle == [phase |-> "idle", started |-> 0, secret |-> 0, overtaken |-> FALSE]
At(phase, v) == [phase |-> phase, started |-> clock, secret |-> v, overtaken |-> FALSE]
Request == [phase : {"idle", "waiting", "locked", "rotating", "revoking", "marked", "verified"},
            started : Nat, secret : Nat, overtaken : BOOLEAN]

TypeOK ==
  /\ clock \in Nat
  /\ status \in {"none", "active", "revoked"}
  /\ callback \in Urls \cup {None}
  /\ secrets \in Seq(Secret)
  /\ holder \in Requests \cup {None}
  /\ req \in [Requests -> Request]
  /\ received \subseteq [secret : Nat, at : Nat]
  /\ overlapped \subseteq Nat

Init ==
  /\ clock = 0
  /\ status = "none"
  /\ callback = None
  /\ secrets = << >>
  /\ holder = None
  /\ req = [r \in Requests |-> Idle]
  /\ received = {}
  /\ overlapped = {}

Versions == DOMAIN secrets
Live == {v \in Versions : secrets[v].revokedAt = None}

-----------------------------------------------------------------------------

\* The URL of a request is checked before its transaction begins.
Accepted(offer) == ResolveCallbackUrl(offer[1], offer[2], FALSE)

\* createIntegration: the name must be free; a unique index decides between two.
CreateIntegration(offer) ==
  /\ status = "none"
  /\ offer # None => Accepted(offer)
  /\ status' = "active"
  /\ callback' = IF offer = None THEN None ELSE offer[1]
  /\ secrets' = <<NewSecret>>
  /\ UNCHANGED <<clock, holder, req, received, overlapped>>

\* No revocation holds the lock of the integration's row.
RowFree == \A r \in Requests : req[r].phase # "marked"

\* configureIntegrationCallback: WHERE status = 'active'.
ConfigureIntegrationCallback(offer) ==
  /\ status = "active"
  /\ RowFree
  /\ Accepted(offer)
  /\ callback' = offer[1]
  /\ UNCHANGED <<clock, status, secrets, holder, req, received, overlapped>>

-----------------------------------------------------------------------------
(* Rotation.                                                               *)

\* The transaction begins, and with it its now().
RotateBegin(r) ==
  /\ req[r].phase = "idle"
  /\ status # "none"
  /\ req' = [req EXCEPT ![r] = At("waiting", 0)]
  /\ UNCHANGED <<clock, status, callback, secrets, holder, received, overlapped>>

RotateLock(r) ==
  /\ req[r].phase = "waiting"
  /\ holder = None
  /\ holder' = r
  /\ req' = [req EXCEPT ![r].phase = "locked"]
  /\ UNCHANGED <<clock, status, callback, secrets, received, overlapped>>

\* Mutant: a revoked integration gets new secrets.
RotateRead_Any(r) ==
  /\ req[r].phase = "locked"
  /\ req' = [req EXCEPT ![r].phase = "rotating"]
  /\ UNCHANGED <<clock, status, callback, secrets, holder, received, overlapped>>

\* getIntegration, and the check of its status.
RotateRead(r) ==
  /\ req[r].phase = "locked"
  /\ status # "revoked"
  /\ req' = [req EXCEPT ![r].phase = "rotating"]
  /\ UNCHANGED <<clock, status, callback, secrets, holder, received, overlapped>>

Revoked(secret, at) ==
  IF secret.revokedAt = None THEN [revokedAt |-> at, endedAt |-> clock] ELSE secret

\* Mutant: the secrets that are replaced are those revoked already.
RotateWrite_KeepsOld(r) ==
  /\ req[r].phase = "rotating"
  /\ Len(secrets) < MaxSecrets
  /\ secrets' = Append(secrets, NewSecret)
  /\ overlapped' = (overlapped \cup IF req[r].overtaken THEN {Len(secrets) + 1} ELSE {})
  /\ holder' = None
  /\ req' = [req EXCEPT ![r] = Idle]
  /\ UNCHANGED <<clock, status, callback, received>>

\* The next version is inserted, the others are revoked, and the transaction commits.
RotateWrite(r) ==
  /\ req[r].phase = "rotating"
  /\ Len(secrets) < MaxSecrets
  /\ secrets' = Append([v \in Versions |-> Revoked(secrets[v], req[r].started)], NewSecret)
  /\ overlapped' = (overlapped \cup IF req[r].overtaken THEN {Len(secrets) + 1} ELSE {})
  /\ holder' = None
  /\ req' = [req EXCEPT ![r] = Idle]
  /\ UNCHANGED <<clock, status, callback, received>>

-----------------------------------------------------------------------------
(* Revocation.                                                             *)

\* The transaction of a revocation begins.
RevokeBegin(r) ==
  /\ req[r].phase = "idle"
  /\ status # "none"
  /\ req' = [req EXCEPT ![r] = At("revoking", 0)]
  /\ UNCHANGED <<clock, status, callback, secrets, holder, received, overlapped>>

\* revokeIntegration: the first UPDATE has the row and writes the status; the second
\* takes its snapshot of the secrets.
RevokeMark(r) ==
  /\ req[r].phase = "revoking"
  /\ RowFree
  /\ req' = [req EXCEPT ![r].phase = "marked", ![r].secret = Len(secrets)]
  /\ UNCHANGED <<clock, status, callback, secrets, holder, received, overlapped>>

\* The second UPDATE ends the secrets of its snapshot that are live still, and the
\* transaction commits.
RevokeWrite(r) ==
  /\ req[r].phase = "marked"
  /\ status' = "revoked"
  /\ secrets' = [v \in Versions |-> IF v <= req[r].secret
                                    THEN Revoked(secrets[v], req[r].started) ELSE secrets[v]]
  /\ overlapped' = overlapped \cup {v \in Versions : v > req[r].secret}
  /\ req' = [q \in Requests |->
               IF q = r THEN Idle
                        ELSE [req[q] EXCEPT !.overtaken = (req[q].phase = "rotating")]]
  /\ UNCHANGED <<clock, callback, holder, received>>

-----------------------------------------------------------------------------
(* A delivery of the sender.                                               *)

\* Mutant: the time a secret was revoked is not looked at.
Verifying_Ever == Versions

\* The secrets that lookup_integration_for_verification returns.
Verifying ==
  {v \in Versions : \/ secrets[v].revokedAt = None
                    \/ clock < secrets[v].revokedAt + GRACE}

\* getIntegrationForVerification finds the integration, and verifyWebhookSignature a
\* secret that signed the body.
Verify(r, v) ==
  /\ req[r].phase = "idle"
  /\ status = "active"
  /\ v \in Verifying
  /\ req' = [req EXCEPT ![r] = At("verified", v)]
  /\ UNCHANGED <<clock, status, callback, secrets, holder, received, overlapped>>

\* Later the event is stored: app_machine_can_access wants the integration active still.
Receive(r) ==
  /\ req[r].phase = "verified"
  /\ status = "active"
  /\ received' = received \cup {[secret |-> req[r].secret, at |-> req[r].started]}
  /\ req' = [req EXCEPT ![r] = Idle]
  /\ UNCHANGED <<clock, status, callback, secrets, holder, overlapped>>

-----------------------------------------------------------------------------

\* The request fails, or the integration is revoked: rolled back, the lock is released.
Abandon(r) ==
  /\ req[r].phase # "idle"
  /\ holder' = (IF holder = r THEN None ELSE holder)
  /\ req' = [req EXCEPT ![r] = Idle]
  /\ UNCHANGED <<clock, status, callback, secrets, received, overlapped>>

Tick ==
  /\ clock < MaxTime
  /\ clock' = clock + 1
  /\ UNCHANGED <<status, callback, secrets, holder, req, received, overlapped>>

Rotate(r) == RotateBegin(r) \/ RotateLock(r) \/ RotateRead(r) \/ RotateWrite(r)
Revoke(r) == RevokeBegin(r) \/ RevokeMark(r) \/ RevokeWrite(r)
Deliver(r) == (\E v \in Versions : Verify(r, v)) \/ Receive(r)

Next ==
  \/ \E offer \in OfferedUrls \cup {None} : CreateIntegration(offer)
  \/ \E offer \in OfferedUrls : ConfigureIntegrationCallback(offer)
  \/ \E r \in Requests : Rotate(r) \/ Revoke(r) \/ Deliver(r) \/ Abandon(r)
  \/ Tick

Spec == Init /\ [][Next]_vars

-----------------------------------------------------------------------------
(* Properties.                                                             *)

\* An active integration has one live secret, the newest, however rotations overlap
\* with each other and with revocations: the sender and the callbacks sign with the
\* secret that was answered last.
OneSecretWhileActive == status = "active" => Live = {Len(secrets)}

\* A revoked integration has no live secret, but those of rotations that overlapped with
\* a revocation: one had read the status when the revocation committed, or committed when
\* the revocation had its snapshot of the secrets, whose rows it may have had to wait for.
LiveSecretExplained == status = "revoked" => Live \subseteq overlapped

\* A secret that was replaced or revoked soon brings in nothing: an event it signed was
\* looked up less than the grace period after the replacement was committed.
SecretsFade ==
  \A e \in received :
    \/ secrets[e.secret].endedAt = None
    \/ e.at < secrets[e.secret].endedAt + GRACE
=============================================================================
