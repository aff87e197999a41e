---------------------- MODULE IntegrationSecretsProofs ----------------------
(***************************************************************************)
(* Theorems about IntegrationSecrets, for any requests, grace period,      *)
(* offered URLs and bounds.                                                *)
(*                                                                         *)
(* The argument: whatever a rotation finds, it leaves one live secret, the *)
(* newest; only a revocation makes that wrong, and it marks the rotations  *)
(* that have read the status (Overtaken), while the versions it leaves     *)
(* live are newer than its snapshot.  A secret is revoked as of a          *)
(* time that is no later than its commit (Stamped), so whoever looked it   *)
(* up did so before the grace period after that commit was over (Seen).    *)
(***************************************************************************)
EXTENDS IntegrationSecrets, TLAPS

USE BoundsAssumption

\* The table is empty, and nobody asks for its rows, until the integration is created.
Created ==
  status = "none" => secrets = << >> /\ \A r \in Requests : req[r].phase = "idle"

\* A rotation that has read the status of an integration since revoked knows it.
Overtaken ==
  status = "revoked" =>
    \A r \in Requests : req[r].phase = "rotating" => req[r].overtaken = TRUE

\* Nothing is stamped with a time to come, and no secret later than its commit.
Stamped ==
  /\ \A r \in Requests : req[r].started <= clock
  /\ \A e \in received : e.at <= clock
  /\ \A v \in DOMAIN secrets :
       /\ secrets[v].revokedAt = None <=> secrets[v].endedAt = None
       /\ secrets[v].revokedAt # None => secrets[v].revokedAt <= secrets[v].endedAt
       /\ secrets[v].endedAt # None => secrets[v].endedAt <= clock

\* Secret v was looked up at time t less than the grace period after its end.
InTime(v, t) ==
  /\ v \in DOMAIN secrets
  /\ secrets[v].endedAt # None => t < secrets[v].endedAt + GRACE

Seen ==
  /\ \A r \in Requests : req[r].phase = "verified" => InTime(req[r].secret, req[r].started)
  /\ \A e \in received : InTime(e.secret, e.at)

IInv == /\ TypeOK /\ Created /\ Overtaken /\ Stamped /\ Seen
        /\ OneSecretWhileActive /\ LiveSecretExplained

-----------------------------------------------------------------------------
(* What a revocation of secrets does to the table.                         *)

Kept(at) == [v \in DOMAIN secrets |-> Revoked(secrets[v], at)]

\* Every secret of the table is revoked afterwards, those that were keep their times,
\* and the times written are in order.
LEMMA KeptRevokes ==
  ASSUME TypeOK, Stamped, NEW at \in Nat, at <= clock
  PROVE  /\ Kept(at) \in Seq(Secret)
         /\ DOMAIN Kept(at) = DOMAIN secrets
         /\ Len(Kept(at)) = Len(secrets)
         /\ \A v \in DOMAIN secrets :
              /\ Kept(at)[v].revokedAt # None
              /\ Kept(at)[v].endedAt # None
              /\ Kept(at)[v].revokedAt <= Kept(at)[v].endedAt
              /\ Kept(at)[v].endedAt <= clock
              /\ \/ Kept(at)[v] = secrets[v]
                 \/ secrets[v].endedAt = None /\ Kept(at)[v].endedAt = clock
<1>1. secrets \in Seq(Secret) /\ clock \in Nat
  BY DEF TypeOK
<1>2. DOMAIN secrets = 1..Len(secrets) /\ Len(secrets) \in Nat
  BY <1>1
<1>3. ASSUME NEW v \in DOMAIN secrets
      PROVE  /\ Revoked(secrets[v], at) \in Secret
             /\ Revoked(secrets[v], at).revokedAt # None
             /\ Revoked(secrets[v], at).endedAt # None
             /\ Revoked(secrets[v], at).revokedAt <= Revoked(secrets[v], at).endedAt
             /\ Revoked(secrets[v], at).endedAt <= clock
             /\ \/ Revoked(secrets[v], at) = secrets[v]
                \/ secrets[v].endedAt = None /\ Revoked(secrets[v], at).endedAt = clock
  <2>1. secrets[v] \in Secret
    BY <1>1, <1>2
  <2> QED BY <1>1, <2>1 DEF Revoked, Secret, Stamped
<1>4. Kept(at) \in Seq(Secret) /\ Len(Kept(at)) = Len(secrets)
  BY <1>1, <1>2, <1>3 DEF Kept
<1> QED BY <1>3, <1>4 DEF Kept

\* A look-up that was in time stays so.
LEMMA InTimeKept ==
  ASSUME TypeOK, Stamped, NEW at \in Nat, at <= clock,
         NEW v, NEW t \in Nat, t <= clock, InTime(v, t)
  PROVE  Kept(at)[v].endedAt # None => t < Kept(at)[v].endedAt + GRACE
<1>1. v \in DOMAIN secrets /\ clock \in Nat /\ GRACE \in Nat \ {0}
  BY DEF InTime, TypeOK
<1>2. \/ Kept(at)[v] = secrets[v]
      \/ Kept(at)[v].endedAt = clock
  BY <1>1, KeptRevokes
<1> QED BY <1>1, <1>2 DEF InTime

\* What the last version is, once a rotation has replaced the others.
LEMMA RotatedLive ==
  ASSUME TypeOK, Stamped, NEW at \in Nat, at <= clock,
         secrets' = Append(Kept(at), NewSecret)
  PROVE  /\ secrets' \in Seq(Secret)
         /\ Len(secrets') = Len(secrets) + 1
         /\ DOMAIN secrets' = 1..(Len(secrets) + 1)
         /\ \A v \in DOMAIN secrets : secrets'[v] = Kept(at)[v]
         /\ secrets'[Len(secrets) + 1] = NewSecret
         /\ Live' = {Len(secrets')}
<1>1. NewSecret \in Secret
  BY DEF NewSecret, Secret
<1>2. /\ Kept(at) \in Seq(Secret) /\ Len(Kept(at)) = Len(secrets)
      /\ \A v \in DOMAIN secrets : Kept(at)[v].revokedAt # None
  BY KeptRevokes
<1>3. secrets \in Seq(Secret) /\ Len(secrets) \in Nat /\ DOMAIN secrets = 1..Len(secrets)
  BY DEF TypeOK
<1>4. /\ secrets' \in Seq(Secret)
      /\ Len(secrets') = Len(secrets) + 1
      /\ DOMAIN secrets' = 1..(Len(secrets) + 1)
      /\ \A v \in DOMAIN secrets : secrets'[v] = Kept(at)[v]
      /\ secrets'[Len(secrets) + 1] = NewSecret
  BY <1>1, <1>2, <1>3
<1>5. Live' = {Len(secrets')}
  <2>1. \A v \in DOMAIN secrets' : secrets'[v].revokedAt = None <=> v = Len(secrets) + 1
    BY <1>2, <1>3, <1>4 DEF NewSecret
  <2> QED BY <1>3, <1>4, <2>1 DEF Live, Versions
<1> QED BY <1>4, <1>5

-----------------------------------------------------------------------------
(* The invariant holds, step by step.                                      *)

LEMMA InitInvariant == Init => IInv
<1> SUFFICES ASSUME Init PROVE IInv
  OBVIOUS
<1>1. TypeOK
  <2>1. Idle \in Request
    BY DEF Idle, Request
  <2> QED BY <2>1 DEF Init, TypeOK
<1>2. Created /\ Overtaken /\ OneSecretWhileActive /\ LiveSecretExplained
  BY DEF Init, Created, Overtaken, OneSecretWhileActive, LiveSecretExplained, Idle
<1>3. Stamped /\ Seen
  BY DEF Init, Stamped, Seen, Idle
<1> QED BY <1>1, <1>2, <1>3 DEF IInv

\* A request that only changes what it is doing itself.
LEMMA RequestStep ==
  ASSUME IInv, NEW r \in Requests, NEW q \in Request,
         status # "none",
         req' = [req EXCEPT ![r] = q],
         holder' \in Requests \cup {None},
         q.started <= clock,
         q.phase = "rotating" => status # "revoked",
         q.phase = "verified" => InTime(q.secret, q.started),
         UNCHANGED <<clock, status, callback, secrets, received, overlapped>>
  PROVE  IInv'
<1>1. req' \in [Requests -> Request]
  BY DEF IInv, TypeOK
<1>2. \A p \in Requests : req'[p] = IF p = r THEN q ELSE req[p]
  BY DEF IInv, TypeOK
<1>3. TypeOK'
  BY <1>1 DEF IInv, TypeOK
<1>4. Created' /\ Overtaken'
  BY <1>2 DEF IInv, Created, Overtaken
<1>5. Stamped'
  BY <1>2 DEF IInv, Stamped
<1>6. Seen'
  BY <1>2 DEF IInv, Seen, InTime
<1>7. OneSecretWhileActive' /\ LiveSecretExplained'
  BY DEF IInv, OneSecretWhileActive, LiveSecretExplained, Live, Versions
<1> QED BY <1>3, <1>4, <1>5, <1>6, <1>7 DEF IInv

\* A request in progress is one about an integration that exists.
LEMMA InProgress ==
  ASSUME IInv, NEW r \in Requests, req[r].phase # "idle"
  PROVE  status # "none"
BY DEF IInv, Created

LEMMA CreateStep ==
  ASSUME IInv, NEW offer \in OfferedUrls \cup {None}, CreateIntegration(offer)
  PROVE  IInv'
<1>1. secrets' = <<NewSecret>> /\ status' = "active" /\ NewSecret \in Secret
  BY DEF CreateIntegration, NewSecret, Secret
<1>2. /\ secrets = << >>
      /\ \A r \in Requests : req[r].phase = "idle"
      /\ received = {}
  <2>1. secrets = << >> /\ \A r \in Requests : req[r].phase = "idle"
    BY DEF CreateIntegration, IInv, Created
  <2>2. \A e \in received : e.secret \in DOMAIN secrets
    BY DEF IInv, Seen, InTime
  <2>3. DOMAIN secrets = {}
    BY <2>1
  <2> QED BY <2>1, <2>2, <2>3
<1>3. /\ secrets' \in Seq(Secret) /\ Len(secrets') = 1
      /\ DOMAIN secrets' = {1} /\ secrets'[1] = NewSecret
  BY <1>1
<1>4. callback' \in Urls \cup {None}
  BY BoundsAssumption DEF CreateIntegration
<1>5. TypeOK'
  BY <1>1, <1>3, <1>4 DEF CreateIntegration, IInv, TypeOK
<1>6. Created' /\ Overtaken' /\ LiveSecretExplained'
  BY <1>1 DEF Created, Overtaken, LiveSecretExplained
<1>7. OneSecretWhileActive'
  <2>1. Live' = {1}
    BY <1>3 DEF Live, Versions, NewSecret
  <2> QED BY <2>1, <1>3 DEF OneSecretWhileActive
<1>8. Stamped'
  BY <1>2, <1>3 DEF CreateIntegration, IInv, Stamped, NewSecret
<1>9. Seen'
  BY <1>2 DEF CreateIntegration, Seen
<1> QED BY <1>5, <1>6, <1>7, <1>8, <1>9 DEF IInv

LEMMA ConfigureStep ==
  ASSUME IInv, NEW offer \in OfferedUrls, ConfigureIntegrationCallback(offer)
  PROVE  IInv'
<1>1. callback' \in Urls \cup {None}
  BY BoundsAssumption DEF ConfigureIntegrationCallback
<1>2. TypeOK'
  BY <1>1 DEF ConfigureIntegrationCallback, IInv, TypeOK
<1>3. Created' /\ Overtaken'
  BY DEF ConfigureIntegrationCallback, IInv, Created, Overtaken
<1>4. Stamped' /\ Seen'
  BY DEF ConfigureIntegrationCallback, IInv, Stamped, Seen, InTime
<1>5. OneSecretWhileActive' /\ LiveSecretExplained'
  BY DEF ConfigureIntegrationCallback, IInv, OneSecretWhileActive, LiveSecretExplained,
         Live, Versions
<1> QED BY <1>2, <1>3, <1>4, <1>5 DEF IInv

LEMMA RotateWriteStep ==
  ASSUME IInv, NEW r \in Requests, RotateWrite(r)
  PROVE  IInv'
<1> DEFINE at == req[r].started
<1>1. /\ TypeOK /\ Stamped
      /\ req[r] \in Request /\ at \in Nat /\ at <= clock /\ clock \in Nat
      /\ req[r].phase = "rotating" /\ status # "none"
  BY InProgress DEF IInv, TypeOK, Stamped, Request, RotateWrite
<1>2. secrets' = Append(Kept(at), NewSecret)
  BY DEF RotateWrite, Kept, Versions
<1> HIDE DEF at
<1>3. /\ secrets' \in Seq(Secret)
      /\ Len(secrets') = Len(secrets) + 1
      /\ DOMAIN secrets' = 1..(Len(secrets) + 1)
      /\ \A v \in DOMAIN secrets : secrets'[v] = Kept(at)[v]
      /\ secrets'[Len(secrets) + 1] = NewSecret
      /\ Live' = {Len(secrets')}
  BY <1>1, <1>2, RotatedLive
<1>4. Len(secrets) \in Nat /\ DOMAIN secrets = 1..Len(secrets)
  BY <1>1 DEF TypeOK
<1>5. /\ req' = [req EXCEPT ![r] = Idle] /\ Idle \in Request
      /\ \A p \in Requests : req'[p] = IF p = r THEN Idle ELSE req[p]
      /\ UNCHANGED <<clock, status, callback, received>>
      /\ holder' = None
      /\ overlapped' = (overlapped \cup
                          IF req[r].overtaken THEN {Len(secrets) + 1} ELSE {})
  BY <1>1 DEF RotateWrite, TypeOK, Idle, Request
<1>6. TypeOK'
  <2>1. req' \in [Requests -> Request]
    BY <1>1, <1>5 DEF TypeOK
  <2>2. overlapped' \subseteq Nat
    <3>1. Len(secrets) + 1 \in Nat /\ overlapped \subseteq Nat
      BY <1>1, <1>4 DEF TypeOK
    <3>2. (IF req[r].overtaken THEN {Len(secrets) + 1} ELSE {}) \subseteq Nat
      BY <3>1
    <3> QED BY <1>5, <3>1, <3>2
  <2>3. secrets' \in Seq(Secret) /\ holder' \in Requests \cup {None}
    BY <1>3, <1>5
  <2> QED BY <1>1, <1>5, <2>1, <2>2, <2>3 DEF TypeOK
<1>7. Created' /\ Overtaken'
  BY <1>1, <1>5 DEF IInv, Created, Overtaken, Idle
<1>8. Stamped'
  <2>1. \A p \in Requests : req'[p].started <= clock
    BY <1>1, <1>5 DEF Stamped, Idle
  <2>2. \A v \in DOMAIN secrets :
          /\ Kept(at)[v].revokedAt # None
          /\ Kept(at)[v].endedAt # None
          /\ Kept(at)[v].revokedAt <= Kept(at)[v].endedAt
          /\ Kept(at)[v].endedAt <= clock
    BY <1>1, KeptRevokes
  <2>3. ASSUME NEW v \in DOMAIN secrets'
        PROVE  /\ secrets'[v].revokedAt = None <=> secrets'[v].endedAt = None
               /\ secrets'[v].revokedAt # None
                    => secrets'[v].revokedAt <= secrets'[v].endedAt
               /\ secrets'[v].endedAt # None => secrets'[v].endedAt <= clock
    <3>1. CASE v \in DOMAIN secrets
      BY <1>3, <2>2, <3>1
    <3>2. CASE v = Len(secrets) + 1
      BY <1>3, <3>2 DEF NewSecret
    <3> QED BY <1>3, <1>4, <3>1, <3>2
  <2> QED BY <1>1, <1>5, <2>1, <2>3 DEF Stamped
<1>9. Seen'
  <2>1. ASSUME NEW v, NEW t \in Nat, t <= clock, InTime(v, t)
        PROVE  InTime(v, t)'
    <3>1. v \in DOMAIN secrets
      BY <2>1 DEF InTime
    <3>2. Kept(at)[v].endedAt # None => t < Kept(at)[v].endedAt + GRACE
      BY <1>1, <2>1, InTimeKept
    <3> QED BY <1>3, <1>4, <3>1, <3>2 DEF InTime
  <2>2. ASSUME NEW p \in Requests, req'[p].phase = "verified"
        PROVE  InTime(req[p].secret, req[p].started)'
    <3>1. p # r /\ req'[p] = req[p]
      BY <1>5, <2>2 DEF Idle
    <3>2. req[p].started \in Nat /\ req[p].started <= clock
      BY <1>1 DEF TypeOK, Request, Stamped
    <3>3. InTime(req[p].secret, req[p].started)
      BY <2>2, <3>1 DEF IInv, Seen
    <3> QED BY <2>1, <3>1, <3>2, <3>3 DEF InTime
  <2>3. ASSUME NEW e \in received PROVE InTime(e.secret, e.at)'
    <3>1. e.at \in Nat /\ e.at <= clock
      BY <1>1, <2>3 DEF TypeOK, Stamped
    <3>2. InTime(e.secret, e.at)
      BY <2>3 DEF IInv, Seen
    <3> QED BY <2>1, <3>1, <3>2
  <2> QED BY <1>5, <2>2, <2>3 DEF Seen, InTime
<1>10. OneSecretWhileActive'
  BY <1>3 DEF OneSecretWhileActive
<1>11. LiveSecretExplained'
  <2> SUFFICES ASSUME status' = "revoked" PROVE Live' \subseteq overlapped'
    BY DEF LiveSecretExplained
  <2>1. req[r].overtaken = TRUE
    BY <1>1, <1>5 DEF IInv, Overtaken
  <2> QED BY <1>3, <1>5, <2>1
<1> QED BY <1>6, <1>7, <1>8, <1>9, <1>10, <1>11 DEF IInv

LEMMA RevokeWriteStep ==
  ASSUME IInv, NEW r \in Requests, RevokeWrite(r)
  PROVE  IInv'
<1> DEFINE at == req[r].started
<1>1. /\ TypeOK /\ Stamped
      /\ req[r] \in Request /\ at \in Nat /\ at <= clock /\ clock \in Nat
  BY DEF IInv, TypeOK, Stamped, Request, RevokeWrite
<1> DEFINE n == req[r].secret
<1>2. /\ secrets \in Seq(Secret) /\ Len(secrets) \in Nat /\ DOMAIN secrets = 1..Len(secrets)
      /\ Kept(at) \in Seq(Secret) /\ DOMAIN Kept(at) = DOMAIN secrets
      /\ secrets' = [v \in DOMAIN secrets |-> IF v <= n THEN Kept(at)[v] ELSE secrets[v]]
  BY <1>1, KeptRevokes DEF RevokeWrite, Kept, Versions, TypeOK
<1>3. /\ secrets' \in Seq(Secret)
      /\ DOMAIN secrets' = DOMAIN secrets
      /\ \A v \in DOMAIN secrets :
           \/ v <= n /\ secrets'[v] = Kept(at)[v]
           \/ ~(v <= n) /\ secrets'[v] = secrets[v]
  BY <1>2
<1> HIDE DEF at, n
<1>4. /\ UNCHANGED <<clock, callback, holder, received>>
      /\ status' = "revoked"
      /\ overlapped' = overlapped \cup {v \in DOMAIN secrets : v > n}
      /\ n \in Nat
  BY <1>1 DEF RevokeWrite, Versions, Request, n
<1>5. \A p \in Requests :
        /\ req'[p] \in Request
        /\ req'[p].started <= clock
        /\ req'[p].phase = "rotating" => req'[p].overtaken = TRUE
        /\ req'[p].phase = "verified" =>
             req'[p].secret = req[p].secret /\ req'[p].started = req[p].started
               /\ req[p].phase = "verified"
  <2> TAKE p \in Requests
  <2>1. CASE p = r
    BY <1>1, <2>1 DEF RevokeWrite, Idle, Request
  <2>2. CASE p # r
    <3>1. req'[p] = [req[p] EXCEPT !.overtaken = (req[p].phase = "rotating")]
      BY <2>2 DEF RevokeWrite
    <3>2. req[p] \in Request /\ req[p].started <= clock
      BY <1>1 DEF TypeOK, Stamped
    <3>3. /\ req'[p].phase = req[p].phase /\ req'[p].secret = req[p].secret
          /\ req'[p].started = req[p].started
          /\ req'[p].overtaken = (req[p].phase = "rotating")
      BY <3>1, <3>2 DEF Request
    <3>4. (req[p].phase = "rotating") \in BOOLEAN
      OBVIOUS
    <3>5. req'[p] \in Request
      BY <3>1, <3>2, <3>4 DEF Request
    <3> QED BY <3>2, <3>3, <3>5
  <2> QED BY <2>1, <2>2
<1>6. TypeOK'
  <2>1. req' \in [Requests -> Request]
    <3>1. req' = [q \in Requests |-> req'[q]]
      BY DEF RevokeWrite
    <3> QED BY <1>5, <3>1
  <2>2. overlapped' \subseteq Nat
    <3>1. overlapped \subseteq Nat /\ DOMAIN secrets \subseteq Nat
      BY <1>1, <1>2 DEF TypeOK
    <3> QED BY <1>4, <3>1
  <2> QED BY <1>1, <1>3, <1>4, <2>1, <2>2 DEF TypeOK
<1>7. Created' /\ Overtaken'
  BY <1>4, <1>5 DEF Created, Overtaken
<1>8. Stamped'
  <2>1. \A v \in DOMAIN secrets :
          /\ Kept(at)[v].revokedAt # None /\ Kept(at)[v].endedAt # None
          /\ Kept(at)[v].revokedAt <= Kept(at)[v].endedAt
          /\ Kept(at)[v].endedAt <= clock
    BY <1>1, KeptRevokes
  <2>2. \A v \in DOMAIN secrets' :
          /\ secrets'[v].revokedAt = None <=> secrets'[v].endedAt = None
          /\ secrets'[v].revokedAt # None => secrets'[v].revokedAt <= secrets'[v].endedAt
          /\ secrets'[v].endedAt # None => secrets'[v].endedAt <= clock
    BY <1>1, <1>3, <2>1 DEF Stamped
  <2> QED BY <1>1, <1>4, <1>5, <2>2 DEF Stamped
<1>9. Seen'
  <2>1. ASSUME NEW v, NEW t \in Nat, t <= clock, InTime(v, t)
        PROVE  InTime(v, t)'
    <3>1. v \in DOMAIN secrets
      BY <2>1 DEF InTime
    <3>2. Kept(at)[v].endedAt # None => t < Kept(at)[v].endedAt + GRACE
      BY <1>1, <2>1, InTimeKept
    <3> QED BY <1>3, <2>1, <3>1, <3>2 DEF InTime
  <2>2. ASSUME NEW p \in Requests, req'[p].phase = "verified"
        PROVE  InTime(req[p].secret, req[p].started)'
    <3>1. /\ req'[p].secret = req[p].secret /\ req'[p].started = req[p].started
          /\ req[p].phase = "verified"
      BY <1>5, <2>2
    <3>2. req[p].started \in Nat /\ req[p].started <= clock
      BY <1>1 DEF TypeOK, Request, Stamped
    <3>3. InTime(req[p].secret, req[p].started)
      BY <3>1 DEF IInv, Seen
    <3> QED BY <2>1, <3>1, <3>2, <3>3 DEF InTime
  <2>3. ASSUME NEW e \in received PROVE InTime(e.secret, e.at)'
    <3>1. e.at \in Nat /\ e.at <= clock
      BY <1>1, <2>3 DEF TypeOK, Stamped
    <3>2. InTime(e.secret, e.at)
      BY <2>3 DEF IInv, Seen
    <3> QED BY <2>1, <3>1, <3>2
  <2> QED BY <1>4, <2>2, <2>3 DEF Seen, InTime
<1>10. OneSecretWhileActive' /\ LiveSecretExplained'
  <2>1. \A v \in DOMAIN secrets : Kept(at)[v].revokedAt # None
    BY <1>1, KeptRevokes
  <2>2. \A v \in Live' : v \in DOMAIN secrets /\ v > n
    BY <1>2, <1>3, <1>4, <2>1 DEF Live, Versions
  <2> QED BY <1>4, <2>2 DEF OneSecretWhileActive, LiveSecretExplained
<1> QED BY <1>6, <1>7, <1>8, <1>9, <1>10 DEF IInv

LEMMA VerifyStep ==
  ASSUME IInv, NEW r \in Requests, NEW v \in Versions, Verify(r, v)
  PROVE  IInv'
<1>1. clock \in Nat /\ secrets \in Seq(Secret) /\ v \in DOMAIN secrets
  BY DEF IInv, TypeOK, Versions
<1>2. v \in Nat /\ secrets[v] \in Secret
  BY <1>1
<1>3. InTime(v, clock)
  <2>1. secrets[v].revokedAt = None \/ clock < secrets[v].revokedAt + GRACE
    BY DEF Verify, Verifying
  <2>2. CASE secrets[v].revokedAt = None
    BY <1>1, <2>2 DEF IInv, Stamped, InTime
  <2>3. CASE secrets[v].revokedAt # None
    <3>1. /\ secrets[v].revokedAt \in Nat /\ secrets[v].endedAt \in Nat \cup {None}
          /\ secrets[v].endedAt # None
          /\ secrets[v].revokedAt <= secrets[v].endedAt
      BY <1>1, <1>2, <2>3 DEF IInv, Stamped, Secret
    <3> QED BY <1>1, <2>1, <2>3, <3>1 DEF InTime
  <2> QED BY <2>2, <2>3
<1> DEFINE q == At("verified", v)
<1>4. /\ q \in Request /\ q.started = clock /\ q.started <= clock
      /\ q.secret = v /\ q.phase = "verified"
  BY <1>1, <1>2 DEF At, Request
<1>5. /\ status # "none" /\ req' = [req EXCEPT ![r] = q]
      /\ holder' \in Requests \cup {None}
      /\ UNCHANGED <<clock, status, callback, secrets, received, overlapped>>
  BY DEF Verify, IInv, TypeOK
<1> HIDE DEF q
<1> QED BY <1>1, <1>3, <1>4, <1>5, RequestStep

LEMMA ReceiveStep ==
  ASSUME IInv, NEW r \in Requests, Receive(r)
  PROVE  IInv'
<1> DEFINE e == [secret |-> req[r].secret, at |-> req[r].started]
<1>1. /\ req[r] \in Request /\ req[r].started <= clock
      /\ InTime(req[r].secret, req[r].started)
  BY DEF IInv, TypeOK, Stamped, Seen, Receive
<1>2. /\ received' = received \cup {e} /\ req' = [req EXCEPT ![r] = Idle]
      /\ Idle \in Request
      /\ \A p \in Requests : req'[p] = IF p = r THEN Idle ELSE req[p]
      /\ UNCHANGED <<clock, status, callback, secrets, holder, overlapped>>
      /\ status = "active"
  BY DEF Receive, IInv, TypeOK, Idle, Request
<1>3. TypeOK'
  BY <1>1, <1>2 DEF IInv, TypeOK, Request
<1>4. Created' /\ Overtaken'
  BY <1>2 DEF IInv, Created, Overtaken, Idle
<1>5. Stamped'
  <2>1. clock \in Nat
    BY DEF IInv, TypeOK
  <2> QED BY <1>1, <1>2, <2>1 DEF IInv, Stamped, Idle
<1>6. Seen'
  BY <1>1, <1>2 DEF IInv, Seen, InTime, Idle
<1>7. OneSecretWhileActive' /\ LiveSecretExplained'
  BY <1>2 DEF IInv, OneSecretWhileActive, LiveSecretExplained, Live, Versions
<1> QED BY <1>3, <1>4, <1>5, <1>6, <1>7 DEF IInv

LEMMA TickStep ==
  ASSUME IInv, Tick
  PROVE  IInv'
<1>1. clock \in Nat /\ clock' = clock + 1
      /\ UNCHANGED <<status, callback, secrets, holder, req, received, overlapped>>
  BY DEF Tick, IInv, TypeOK
<1>2. TypeOK'
  BY <1>1 DEF IInv, TypeOK
<1>3. Created' /\ Overtaken'
  BY <1>1 DEF IInv, Created, Overtaken
<1>4. Stamped'
  <2>1. \A r \in Requests : req[r].started \in Nat
    BY DEF IInv, TypeOK, Request
  <2>2. \A e \in received : e.at \in Nat
    BY DEF IInv, TypeOK
  <2>3. \A v \in DOMAIN secrets : secrets[v].endedAt \in Nat \cup {None}
    <3>1. secrets \in Seq(Secret)
      BY DEF IInv, TypeOK
    <3>2. \A v \in DOMAIN secrets : secrets[v] \in Secret
      BY <3>1
    <3> QED BY <3>2 DEF Secret
  <2>4. \A t \in Nat : t <= clock => t <= clock'
    BY <1>1
  <2>5. \A r \in Requests : req[r].started <= clock'
    BY <2>1, <2>4 DEF IInv, Stamped
  <2>6. \A e \in received : e.at <= clock'
    BY <2>2, <2>4 DEF IInv, Stamped
  <2>7. \A v \in DOMAIN secrets : secrets[v].endedAt # None => secrets[v].endedAt <= clock'
    BY <2>3, <2>4 DEF IInv, Stamped
  <2> QED BY <1>1, <2>5, <2>6, <2>7 DEF IInv, Stamped
<1>5. Seen'
  BY <1>1 DEF IInv, Seen, InTime
<1>6. OneSecretWhileActive' /\ LiveSecretExplained'
  BY <1>1 DEF IInv, OneSecretWhileActive, LiveSecretExplained, Live, Versions
<1> QED BY <1>2, <1>3, <1>4, <1>5, <1>6 DEF IInv

LEMMA StutterStep ==
  ASSUME IInv, UNCHANGED vars
  PROVE  IInv'
<1>1. UNCHANGED <<clock, status, callback, secrets, holder, req, received, overlapped>>
  BY DEF vars
<1>2. TypeOK' /\ Created' /\ Overtaken'
  BY <1>1 DEF IInv, TypeOK, Created, Overtaken
<1>3. Stamped' /\ Seen'
  BY <1>1 DEF IInv, Stamped, Seen, InTime
<1>4. OneSecretWhileActive' /\ LiveSecretExplained'
  BY <1>1 DEF IInv, OneSecretWhileActive, LiveSecretExplained, Live, Versions
<1> QED BY <1>2, <1>3, <1>4 DEF IInv

\* The other actions of a request change its own record, and the lock, alone.
LEMMA StepInvariant == IInv /\ [Next]_vars => IInv'
<1> SUFFICES ASSUME IInv, [Next]_vars PROVE IInv'
  OBVIOUS
<1>1. /\ clock \in Nat /\ holder \in Requests \cup {None}
      /\ \A r \in Requests : req[r] \in Request /\ req[r].started <= clock
  BY DEF IInv, TypeOK, Stamped
<1>2. ASSUME NEW offer \in OfferedUrls \cup {None}, CreateIntegration(offer) PROVE IInv'
  BY <1>2, CreateStep
<1>3. ASSUME NEW offer \in OfferedUrls, ConfigureIntegrationCallback(offer) PROVE IInv'
  BY <1>3, ConfigureStep
<1>4. ASSUME NEW r \in Requests, RotateBegin(r) PROVE IInv'
  <2> DEFINE q == At("waiting", 0)
  <2>1. q \in Request /\ q.started <= clock /\ q.phase = "waiting"
    BY <1>1 DEF At, Request
  <2>2. req' = [req EXCEPT ![r] = q] /\ status # "none"
        /\ UNCHANGED <<clock, status, callback, secrets, holder, received, overlapped>>
    BY <1>4 DEF RotateBegin
  <2> HIDE DEF q
  <2> QED BY <1>1, <2>1, <2>2, RequestStep
<1>5. ASSUME NEW r \in Requests, RotateLock(r) PROVE IInv'
  <2> DEFINE q == [req[r] EXCEPT !.phase = "locked"]
  <2>1. q \in Request /\ q.phase = "locked" /\ q.started = req[r].started
    BY <1>1 DEF Request
  <2>2. req' = [req EXCEPT ![r] = q] /\ holder' = r /\ status # "none"
        /\ UNCHANGED <<clock, status, callback, secrets, received, overlapped>>
    BY <1>5, InProgress DEF RotateLock
  <2> HIDE DEF q
  <2> QED BY <1>1, <2>1, <2>2, RequestStep
<1>6. ASSUME NEW r \in Requests, RotateRead(r) PROVE IInv'
  <2> DEFINE q == [req[r] EXCEPT !.phase = "rotating"]
  <2>1. q \in Request /\ q.phase = "rotating" /\ q.started = req[r].started
    BY <1>1 DEF Request
  <2>2. req' = [req EXCEPT ![r] = q] /\ status # "none" /\ status # "revoked"
        /\ UNCHANGED <<clock, status, callback, secrets, holder, received, overlapped>>
    BY <1>6, InProgress DEF RotateRead
  <2> HIDE DEF q
  <2> QED BY <1>1, <2>1, <2>2, RequestStep
<1>7. ASSUME NEW r \in Requests, RotateWrite(r) PROVE IInv'
  BY <1>7, RotateWriteStep
<1>8. ASSUME NEW r \in Requests, RevokeBegin(r) PROVE IInv'
  <2> DEFINE q == At("revoking", 0)
  <2>1. q \in Request /\ q.started <= clock /\ q.phase = "revoking"
    BY <1>1 DEF At, Request
  <2>2. req' = [req EXCEPT ![r] = q] /\ status # "none"
        /\ UNCHANGED <<clock, status, callback, secrets, holder, received, overlapped>>
    BY <1>8 DEF RevokeBegin
  <2> HIDE DEF q
  <2> QED BY <1>1, <2>1, <2>2, RequestStep
<1>9. ASSUME NEW r \in Requests, RevokeWrite(r) PROVE IInv'
  BY <1>9, RevokeWriteStep
<1>9a. ASSUME NEW r \in Requests, RevokeMark(r) PROVE IInv'
  <2> DEFINE q == [req[r] EXCEPT !.phase = "marked", !.secret = Len(secrets)]
  <2>1. q \in Request /\ q.phase = "marked" /\ q.started = req[r].started
    <3>1. Len(secrets) \in Nat
      BY DEF IInv, TypeOK
    <3> QED BY <1>1, <3>1 DEF Request
  <2>2. req' = [req EXCEPT ![r] = q] /\ status # "none"
        /\ UNCHANGED <<clock, status, callback, secrets, holder, received, overlapped>>
    BY <1>9a, InProgress DEF RevokeMark
  <2> HIDE DEF q
  <2> QED BY <1>1, <2>1, <2>2, RequestStep
<1>10. ASSUME NEW r \in Requests, NEW v \in Versions, Verify(r, v) PROVE IInv'
  BY <1>10, VerifyStep
<1>11. ASSUME NEW r \in Requests, Receive(r) PROVE IInv'
  BY <1>11, ReceiveStep
<1>12. ASSUME NEW r \in Requests, Abandon(r) PROVE IInv'
  <2>1. Idle \in Request /\ Idle.started <= clock /\ Idle.phase = "idle"
    BY <1>1 DEF Idle, Request
  <2>2. /\ req' = [req EXCEPT ![r] = Idle] /\ status # "none"
        /\ holder' \in Requests \cup {None}
        /\ UNCHANGED <<clock, status, callback, secrets, received, overlapped>>
    BY <1>1, <1>12, InProgress DEF Abandon
  <2> QED BY <1>1, <2>1, <2>2, RequestStep
<1>13. CASE Tick
  BY <1>13, TickStep
<1>14. CASE UNCHANGED vars
  BY <1>14, StutterStep
<1> QED
  BY <1>2, <1>3, <1>4, <1>5, <1>6, <1>7, <1>8, <1>9, <1>10, <1>11, <1>12, <1>13, <1>14, <1>9a
     DEF Next, Rotate, Revoke, Deliver

LEMMA Invariant == Spec => []IInv
BY InitInvariant, StepInvariant, PTL DEF Spec

-----------------------------------------------------------------------------
(* The theorems.                                                           *)

\* The variables keep their types.
THEOREM TypeCorrect == Spec => []TypeOK
<1>1. IInv => TypeOK
  BY DEF IInv
<1> QED BY Invariant, <1>1, PTL

\* However rotations overlap with each other and with revocations, an active
\* integration has one live secret, the newest.
THEOREM OneSecret == Spec => []OneSecretWhileActive
<1>1. IInv => OneSecretWhileActive
  BY DEF IInv
<1> QED BY Invariant, <1>1, PTL

\* A live secret of a revoked integration was added by a rotation that overlapped with a
\* revocation: overtaken by it, or newer than its snapshot of the secrets.
THEOREM LiveSecretsExplained == Spec => []LiveSecretExplained
<1>1. IInv => LiveSecretExplained
  BY DEF IInv
<1> QED BY Invariant, <1>1, PTL

\* No event is stored whose secret had ended the grace period before it was looked up,
\* although the time on the secret is that of the rotation's start.
THEOREM SecretsFadeAway == Spec => []SecretsFade
<1>1. IInv => SecretsFade
  BY DEF IInv, Seen, InTime, SecretsFade
<1> QED BY Invariant, <1>1, PTL
=============================================================================
