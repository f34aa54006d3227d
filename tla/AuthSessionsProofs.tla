------------------------- MODULE AuthSessionsProofs -------------------------
(* Proofs about AuthSessions: the inductive invariant SessionInv, and from it *)
(* what is promised of the sessions of an account, for any tokens, requests   *)
(* and bounds.                                                                *)
EXTENDS AuthSessions, TLAPS

LEMMA InitInv == Init => SessionInv
<1> SUFFICES ASSUME Init PROVE SessionInv
  OBVIOUS
<1> USE NoneAssumption, BoundAssumption DEF Init
<1>1. TypeOK
  <2>1. 1 \in 1..MaxPassword /\ 0 \in 0..MaxAdmin
    OBVIOUS
  <2>2. active \in BOOLEAN /\ halfway \in BOOLEAN
    BY Zenon
  <2> QED
    BY <2>1, <2>2 DEF TypeOK, Stages
<1>2. \A r \in Request : StageOK(r)
  BY DEF StageOK, Sweeping
<1>3. \A r \in Request : ~Sweeping(r) /\ ~Refreshing(r) /\ ~LoggingIn(r)
  BY DEF Sweeping, Refreshing, LoggingIn
<1>4. SweepMarks /\ SessionsKnown /\ OneRefresh /\ RefreshLive /\ SweepCovers /\ VersionKept
  <2>1. SweepMarks /\ OneRefresh /\ RefreshLive /\ VersionKept
    BY <1>3 DEF SweepMarks, OneRefresh, RefreshLive, VersionKept
  <2>2. SessionsKnown
    BY DEF SessionsKnown
  <2>3. SweepCovers
    BY <1>3 DEF SweepCovers
  <2> QED
    BY <2>1, <2>2, <2>3
<1>5. OneTokenPerSession /\ PasswordEndsSessions /\ DisabledHasNoSession
  BY DEF OneTokenPerSession, PasswordEndsSessions, DisabledHasNoSession
<1>6. OneChange /\ CheckedMarks
  BY DEF OneChange, CheckedMarks
<1> QED
  BY <1>1, <1>2, <1>4, <1>5, <1>6 DEF SessionInv
-----------------------------------------------------------------------------
\* Types, and the row locks.
LEMMA TypesStep ==
  ASSUME TypeOK, \A r \in Request : StageOK(r), OneChange, Next
  PROVE  TypeOK'
<1> USE NoneAssumption, BoundAssumption DEF TypeOK, Stages
<1>a. ASSUME NEW r \in Request PROVE Revoked(r) \in [Token -> {"unissued", "active", "revoked"}]
  BY DEF Revoked
<1>b. ASSUME NEW r \in Request, End(r)
      PROVE  /\ stage' \in [Request -> Stages] /\ tok' \in [Request -> Token \cup {None}]
             /\ todo' \in [Request -> SUBSET Token] /\ held' \in [Request -> SUBSET Token]
             /\ late' \subseteq Request /\ ver' \in [Request -> 1..MaxPassword]
             /\ \A p, q \in Request : p # q => held'[p] \cap held'[q] = {}
  BY <1>b DEF End
<1>1. ASSUME NEW r \in Request, NEW t \in Token, FindActive(r, t) PROVE TypeOK'
  BY <1>1 DEF FindActive, Findable, Start, MarkLate
<1>2. ASSUME NEW r \in Request, NEW t \in Token, Issue(r, t) PROVE TypeOK'
  <2>1. (IF tok[r] = None THEN t ELSE session[tok[r]]) \in Token
    BY DEF StageOK
  <2>2. token' \in [Token -> {"unissued", "active", "revoked"}]
    BY <1>2, <1>a DEF Issue
  <2>3. /\ session' \in [Token -> Token \cup {None}] /\ version' \in [Token -> 1..MaxPassword]
        /\ slipped' \subseteq Token
    BY <1>2, <2>1 DEF Issue
  <2>4. UNCHANGED <<password, active, admin, raced, halfway>> /\ End(r)
    BY <1>2 DEF Issue
  <2>5. ASSUME NEW u \in Token, token'[u] # "unissued" PROVE session'[u] \in Token
    <3>1. CASE u = t
      BY <1>2, <2>1, <3>1 DEF Issue
    <3>2. CASE u # t
      <4>1. session'[u] = session[u] /\ token'[u] = Revoked(r)[u]
        BY <1>2, <1>a, <3>2 DEF Issue
      <4>2. held[r] = {tok[r]} \ {None}
        BY <1>2 DEF Issue, StageOK, Sweeping
      <4>3. token[u] # "unissued"
        BY <2>5, <4>1, <4>2 DEF Revoked, StageOK
      <4> QED
        BY <4>1, <4>3
    <3> QED
      BY <3>1, <3>2
  <2> QED
    BY <1>b, <2>2, <2>3, <2>4, <2>5
<1>3. ASSUME NEW r \in Request, NEW t \in Token, UpsertCredential(r, t) PROVE TypeOK'
  BY <1>3 DEF UpsertCredential, Start, historyVars
<1>4. ASSUME NEW r \in Request, NEW t \in Token, SweepRow(r, t) PROVE TypeOK'
  BY <1>4 DEF SweepRow, Locked, historyVars
<1>5. ASSUME NEW r \in Request, Rotate(r) PROVE TypeOK'
  BY <1>5 DEF Rotate, Rotated, Locked, StageOK, historyVars
<1>6. ASSUME NEW r \in Request, CheckUser(r) PROVE TypeOK'
  <2>1. CASE active
    BY <1>6, <2>1 DEF CheckUser
  <2>2. CASE ~active
    <3>1. token' = Revoked(r) /\ End(r)
      BY <1>6, <2>2 DEF CheckUser
    <3>2. \A t \in Token : token'[t] # "unissued" => token[t] # "unissued"
      BY <1>6, <3>1 DEF CheckUser, Revoked, StageOK, Sweeping
    <3> QED
      BY <1>6, <1>a, <1>b, <3>1, <3>2 DEF CheckUser
  <2> QED
    BY <2>1, <2>2
<1>7. ASSUME NEW r \in Request, Challenge(r) \/ CheckLogin(r) \/ Claim(r) PROVE TypeOK'
  BY <1>7 DEF Challenge, CheckLogin, Claim, Start, MarkLate, End
<1>8. ASSUME NEW r \in Request, Disable(r) PROVE TypeOK'
  <2>1. active' \in BOOLEAN /\ admin' \in 0..MaxAdmin
    <3>1. active' = FALSE
      BY <1>8 DEF Disable
    <3>2. admin' \in 0..MaxAdmin
      BY <1>8 DEF Disable
    <3> QED
      BY <3>1, <3>2, Zenon
  <2>2. stage' \in [Request -> Stages] /\ tok' \in [Request -> Token \cup {None}]
    BY <1>8 DEF Disable, Start
  <2>3. UNCHANGED <<password, token, ver, todo, held, historyVars>>
    BY <1>8 DEF Disable
  <2> QED
    BY <2>1, <2>2, <2>3 DEF historyVars
<1>9. ASSUME NEW r \in Request, Sweep(r) PROVE TypeOK'
  <2>1. Matching(r) \subseteq Token
    BY DEF Matching
  <2> QED
    BY <1>9, <2>1 DEF Sweep
<1>10. ASSUME NEW r \in Request, Swept(r),
              password' \in 1..MaxPassword, halfway' \in BOOLEAN,
              version' \in [Token -> 1..MaxPassword]
       PROVE  TypeOK'
  <2>1. token' = Revoked(r) /\ End(r)
    BY <1>10 DEF Swept
  <2>2. \A t \in Token : token'[t] # "unissued" => token[t] # "unissued"
    BY <1>10, <2>1 DEF Revoked, StageOK, Swept
  <2> QED
    BY <1>10, <1>a, <1>b, <2>1, <2>2 DEF Swept
<1>13. ASSUME NEW r \in Request, CommitChange(r) PROVE TypeOK'
  <2>1. password + 1 \in 1..MaxPassword
    BY <1>13 DEF CommitChange, OneChange
  <2> QED
    BY <1>13, <1>10, <2>1 DEF CommitChange
<1>14. ASSUME NEW r \in Request, CommitRevoke(r) PROVE TypeOK'
  BY <1>14, <1>10 DEF CommitRevoke
<1>15. ASSUME NEW r \in Request, Abort(r) PROVE TypeOK'
  BY <1>15, <1>b DEF Abort, Deactivating
<1>11. ASSUME NEW t \in Token, RevokeOne(t) PROVE TypeOK'
  BY <1>11 DEF RevokeOne, requestVars
<1>12. Enable => TypeOK'
  BY DEF Enable, requestVars, historyVars
<1> QED
  BY <1>1, <1>2, <1>3, <1>4, <1>5, <1>6, <1>7, <1>8, <1>9, <1>11, <1>12,
     <1>13, <1>14, <1>15 DEF Next, RequestStep, TokenStep
-----------------------------------------------------------------------------
\* A request that is over.
LEMMA EndStage ==
  ASSUME TypeOK, NEW r \in Request, End(r)
  PROVE  /\ StageOK(r)' /\ stage'[r] = "idle"
         /\ \A q \in Request \ {r} : /\ stage'[q] = stage[q] /\ tok'[q] = tok[q]
                                      /\ todo'[q] = todo[q] /\ held'[q] = held[q]
  BY NoneAssumption DEF End, TypeOK, StageOK, Sweeping, Stages

\* Another request's rows, whatever request r commits.
LEMMA OthersRows ==
  ASSUME TypeOK, NEW r \in Request, NEW q \in Request \ {r}, StageOK(q),
         stage'[q] = stage[q], tok'[q] = tok[q], todo'[q] = todo[q], held'[q] = held[q],
         \A t \in Token : token[t] # "unissued" =>
           token'[t] # "unissued" /\ (t \notin held[r] => token'[t] = token[t])
  PROVE  StageOK(q)'
  BY NoneAssumption DEF TypeOK, StageOK, Sweeping

\* Stages, tokens and locks go together.
LEMMA StagesStep ==
  ASSUME TypeOK, \A r \in Request : StageOK(r), Next, NEW q \in Request
  PROVE  StageOK(q)'
<1> USE NoneAssumption
<1>a. ASSUME NEW r \in Request, End(r), token' = token \/ token' = Revoked(r)
      PROVE  StageOK(q)'
  <2>1. \A t \in Token : token[t] # "unissued" =>
          token'[t] # "unissued" /\ (t \notin held[r] => token'[t] = token[t])
    BY <1>a DEF Revoked
  <2> QED
    BY <1>a, <2>1, EndStage, OthersRows
<1>1. ASSUME NEW r \in Request, NEW t \in Token, FindActive(r, t) PROVE StageOK(q)'
  BY <1>1 DEF FindActive, Findable, Start, TypeOK, StageOK, Sweeping
<1>2. ASSUME NEW r \in Request, NEW t \in Token, Issue(r, t) PROVE StageOK(q)'
  <2>1. \A u \in Token : token[u] # "unissued" =>
          token'[u] # "unissued" /\ (u \notin held[r] => token'[u] = token[u])
    BY <1>2 DEF Issue, Revoked, TypeOK
  <2> QED
    BY <1>2, <2>1, EndStage, OthersRows DEF Issue
<1>3. ASSUME NEW r \in Request, NEW t \in Token, UpsertCredential(r, t) PROVE StageOK(q)'
  BY <1>3 DEF UpsertCredential, Start, TypeOK, StageOK, Sweeping
<1>4. ASSUME NEW r \in Request, NEW t \in Token, SweepRow(r, t) PROVE StageOK(q)'
  <2>1. /\ UNCHANGED <<token, stage, tok>> /\ \A u \in Request \ {r} : held'[u] = held[u]
        /\ \A u \in held'[r] : u \in held[r] \/ token[u] = "active"
    BY <1>4 DEF SweepRow, TypeOK
  <2>2. Sweeping(r) /\ \A u \in Request \ {r} : todo'[u] = todo[u]
    BY <1>4 DEF SweepRow, StageOK, TypeOK
  <2> QED
    BY <2>1, <2>2 DEF StageOK, Sweeping
<1>5. ASSUME NEW r \in Request, Rotate(r) PROVE StageOK(q)'
  BY <1>5 DEF Rotate, Rotated, TypeOK, StageOK, Sweeping
<1>6. ASSUME NEW r \in Request, CheckUser(r) PROVE StageOK(q)'
  <2>1. CASE active
    BY <1>6, <2>1 DEF CheckUser, TypeOK, StageOK, Sweeping
  <2>2. CASE ~active
    BY <1>6, <1>a, <2>2 DEF CheckUser
  <2> QED
    BY <2>1, <2>2
<1>7. ASSUME NEW r \in Request, Challenge(r) \/ CheckLogin(r) \/ Claim(r) PROVE StageOK(q)'
  <2>1. CASE CheckLogin(r) /\ ~active
    BY <1>a, <2>1 DEF CheckLogin
  <2>2. CASE CheckLogin(r) /\ active
    BY <2>2 DEF CheckLogin, TypeOK, StageOK, Sweeping
  <2>3. CASE Challenge(r) \/ Claim(r)
    <3>1. /\ stage[r] = "idle" /\ stage' \in {[stage EXCEPT ![r] = "challenged"], [stage EXCEPT ![r] = "checked"]}
          /\ tok' = [tok EXCEPT ![r] = None] /\ UNCHANGED <<token, todo, held>>
      BY <2>3 DEF Challenge, Claim, Start
    <3>2. held[r] = {} /\ todo[r] = {}
      BY <3>1 DEF StageOK, Sweeping
    <3>3. CASE q = r
      BY <3>1, <3>2, <3>3 DEF TypeOK, StageOK, Sweeping
    <3>4. CASE q # r
      BY <3>1, <3>4 DEF TypeOK, StageOK, Sweeping
    <3> QED
      BY <3>3, <3>4
  <2> QED
    BY <1>7, <2>1, <2>2, <2>3
<1>8. ASSUME NEW r \in Request, Disable(r) \/ Sweep(r) PROVE StageOK(q)'
  <2>1. CASE Disable(r)
    BY <2>1 DEF Disable, Start, TypeOK, StageOK, Sweeping
  <2>2. CASE Sweep(r)
    <3>1. held[r] = {}
      BY <2>2 DEF Sweep, StageOK, Sweeping
    <3> QED
      BY <2>2, <3>1 DEF Sweep, TypeOK, StageOK, Sweeping
  <2> QED
    BY <1>8, <2>1, <2>2
<1>9. ASSUME NEW r \in Request, Swept(r) PROVE StageOK(q)'
  BY <1>9, <1>a DEF Swept
<1>10. ASSUME NEW r \in Request, Abort(r) PROVE StageOK(q)'
  BY <1>10, <1>a DEF Abort
<1>11. ASSUME NEW t \in Token, RevokeOne(t) PROVE StageOK(q)'
  BY <1>11 DEF RevokeOne, requestVars, TypeOK, StageOK, Sweeping
<1>12. Enable => StageOK(q)'
  BY DEF Enable, requestVars, TypeOK, StageOK, Sweeping
<1> QED
  BY <1>1, <1>2, <1>3, <1>4, <1>5, <1>6, <1>7, <1>8, <1>9, <1>10, <1>11, <1>12
     DEF Next, RequestStep, TokenStep, CommitChange, CommitRevoke
-----------------------------------------------------------------------------
\* What a step does to tokens and sessions: a token is issued or revoked, an issued one
\* keeps its session, and histories grow.
LEMMA TokenEffects ==
  ASSUME TypeOK, \A r \in Request : StageOK(r), Next
  PROVE  /\ \A t \in Token : \/ token'[t] = token[t]
                             \/ token'[t] = "revoked" /\ token[t] # "unissued"
                             \/ \E r \in Request : Issue(r, t)
         /\ \A t \in Token : token[t] # "unissued" => session'[t] = session[t]
         /\ raced \subseteq raced' /\ slipped \subseteq slipped'
<1> DEFINE P == /\ \A t \in Token : \/ token'[t] = token[t]
                                    \/ token'[t] = "revoked" /\ token[t] # "unissued"
                                    \/ \E r \in Request : Issue(r, t)
                /\ \A t \in Token : token[t] # "unissued" => session'[t] = session[t]
                /\ raced \subseteq raced' /\ slipped \subseteq slipped'
<1>a. \A r \in Request, t \in Token :
        Revoked(r)[t] = token[t] \/ (Revoked(r)[t] = "revoked" /\ token[t] # "unissued")
  BY DEF Revoked, StageOK
<1>b. ASSUME UNCHANGED <<token, session, slipped>>, raced \subseteq raced' PROVE P
  BY <1>b
<1>1. ASSUME NEW r \in Request, NEW t \in Token, FindActive(r, t) PROVE P
  BY <1>1, <1>b DEF FindActive
<1>2. ASSUME NEW r \in Request, NEW t \in Token, Issue(r, t) PROVE P
  <2>1. \A u \in Token \ {t} : session'[u] = session[u] /\ token'[u] = Revoked(r)[u]
    BY <1>2 DEF Issue, Revoked, TypeOK
  <2>2. token[t] = "unissued" /\ UNCHANGED raced /\ slipped \subseteq slipped'
    BY <1>2 DEF Issue
  <2> QED
    BY <1>2, <1>a, <2>1, <2>2
<1>3. ASSUME NEW r \in Request, NEW t \in Token, UpsertCredential(r, t) \/ SweepRow(r, t) PROVE P
  BY <1>3, <1>b DEF UpsertCredential, SweepRow, historyVars
<1>4. ASSUME NEW r \in Request, Rotate(r) \/ Disable(r) \/ Sweep(r) PROVE P
  BY <1>4, <1>b DEF Rotate, Disable, Sweep, historyVars
<1>5. ASSUME NEW r \in Request, CheckUser(r) PROVE P
  BY <1>5, <1>a DEF CheckUser
<1>6. ASSUME NEW r \in Request, Challenge(r) \/ CheckLogin(r) \/ Claim(r) \/ Abort(r) PROVE P
  BY <1>6, <1>b DEF Challenge, CheckLogin, Claim, Abort
<1>7. ASSUME NEW r \in Request, Swept(r) PROVE P
  BY <1>7, <1>a DEF Swept
<1>8. ASSUME NEW t \in Token, RevokeOne(t) PROVE P
  BY <1>8 DEF RevokeOne, TypeOK
<1>9. Enable => P
  BY <1>b DEF Enable, historyVars
<1> QED
  BY <1>1, <1>2, <1>3, <1>4, <1>5, <1>6, <1>7, <1>8, <1>9
     DEF Next, RequestStep, TokenStep, CommitChange, CommitRevoke

\* What a step does to the requests that will issue a token: they begin with FindActive,
\* Challenge or Claim, and one that is late remains so to its end.
LEMMA RequestEffects ==
  ASSUME TypeOK, \A r \in Request : StageOK(r), Next, NEW q \in Request
  PROVE  /\ Refreshing(q)' => tok'[q] \in Token
         /\ Refreshing(q)' =>
              \/ Refreshing(q) /\ tok'[q] = tok[q] /\ (q \in late => q \in late')
              \/ \E t \in Token : FindActive(q, t) /\ tok'[q] = t
         /\ LoggingIn(q)' =>
              \/ LoggingIn(q) /\ ver'[q] = ver[q] /\ (q \in late => q \in late')
              \/ Challenge(q) \/ Claim(q)
<1> DEFINE P == /\ Refreshing(q)' =>
                     \/ Refreshing(q) /\ tok'[q] = tok[q] /\ (q \in late => q \in late')
                     \/ \E t \in Token : FindActive(q, t) /\ tok'[q] = t
                /\ LoggingIn(q)' =>
                     \/ LoggingIn(q) /\ ver'[q] = ver[q] /\ (q \in late => q \in late')
                     \/ Challenge(q) \/ Claim(q)
<1> SUFFICES P /\ (Refreshing(q)' => tok'[q] \in Token)
  OBVIOUS
<1> USE NoneAssumption
<1>a. ASSUME NEW r \in Request, End(r) PROVE P
  BY <1>a DEF End, Refreshing, LoggingIn, TypeOK
<1>b. ASSUME UNCHANGED <<stage, tok, ver>>, late \subseteq late' PROVE P
  <2>1. /\ Refreshing(q)' => Refreshing(q) /\ tok'[q] = tok[q]
        /\ LoggingIn(q)' => LoggingIn(q) /\ ver'[q] = ver[q]
    BY <1>b DEF Refreshing, LoggingIn
  <2>2. q \in late => q \in late'
    BY <1>b
  <2> QED
    BY <2>1, <2>2
<1>1. ASSUME NEW r \in Request, NEW t \in Token, FindActive(r, t) PROVE P
  BY <1>1 DEF FindActive, Start, MarkLate, Refreshing, LoggingIn, TypeOK
<1>2. ASSUME NEW r \in Request, NEW t \in Token, Issue(r, t) PROVE P
  BY <1>2, <1>a DEF Issue
<1>3. ASSUME NEW r \in Request, NEW t \in Token, UpsertCredential(r, t) PROVE P
  BY <1>3 DEF UpsertCredential, Start, historyVars, Refreshing, LoggingIn, TypeOK
<1>4. ASSUME NEW r \in Request, NEW t \in Token, SweepRow(r, t) PROVE P
  BY <1>4, <1>b DEF SweepRow, historyVars
<1>5. ASSUME NEW r \in Request, Rotate(r) PROVE P
  BY <1>5 DEF Rotate, historyVars, Refreshing, LoggingIn, TypeOK, StageOK
<1>6. ASSUME NEW r \in Request, CheckUser(r) PROVE P
  BY <1>6, <1>a DEF CheckUser, Refreshing, LoggingIn, TypeOK, StageOK
<1>7. ASSUME NEW r \in Request, CheckLogin(r) PROVE P
  BY <1>7, <1>a DEF CheckLogin, Refreshing, LoggingIn, TypeOK, StageOK
<1>8. ASSUME NEW r \in Request, Challenge(r) \/ Claim(r) PROVE P
  BY <1>8 DEF Challenge, Claim, Start, MarkLate, Refreshing, LoggingIn, TypeOK
<1>9. ASSUME NEW r \in Request, Disable(r) \/ Sweep(r) PROVE P
  BY <1>9 DEF Disable, Sweep, Start, historyVars, Refreshing, LoggingIn, TypeOK
<1>10. ASSUME NEW r \in Request, Swept(r) \/ Abort(r) PROVE P
  BY <1>10, <1>a DEF Swept, Abort
<1>11. ASSUME NEW t \in Token, RevokeOne(t) PROVE P
  BY <1>11, <1>b DEF RevokeOne, requestVars
<1>12. Enable => P
  BY <1>b DEF Enable, requestVars, historyVars
<1>13. P
  BY <1>1, <1>2, <1>3, <1>4, <1>5, <1>6, <1>7, <1>8, <1>9, <1>10, <1>11, <1>12
     DEF Next, RequestStep, TokenStep, CommitChange, CommitRevoke
<1> QED
  BY <1>13 DEF Refreshing, TypeOK

\* What a step does to a sweep: it begins with Sweep and keeps its rows to the end.
LEMMA SweepEffects ==
  ASSUME TypeOK, \A r \in Request : StageOK(r), Next, NEW q \in Request, Sweeping(q)'
  PROVE  \/ /\ Sweeping(q) /\ stage'[q] = stage[q] /\ tok'[q] = tok[q]
            /\ \A t \in todo[q] \cup held[q] : token[t] = "active" => t \in todo'[q] \cup held'[q]
         \/ Sweep(q)
<1> DEFINE P == \/ /\ Sweeping(q) /\ stage'[q] = stage[q] /\ tok'[q] = tok[q]
                   /\ \A t \in todo[q] \cup held[q] :
                        token[t] = "active" => t \in todo'[q] \cup held'[q]
                \/ Sweep(q)
<1>a. ASSUME NEW r \in Request, End(r) PROVE P
  BY <1>a DEF End, Sweeping, TypeOK
<1>b. ASSUME UNCHANGED requestVars PROVE P
  BY <1>b DEF requestVars, Sweeping
<1>c. ASSUME NEW r \in Request, NEW at \in Stages, NEW t \in Token \cup {None},
             Start(r, at, t), at \notin {"changing", "revoking"}, UNCHANGED <<todo, held>>
      PROVE  P
  BY <1>c DEF Start, Sweeping, TypeOK
<1> USE DEF Stages
<1>1. ASSUME NEW r \in Request, NEW t \in Token, FindActive(r, t) \/ UpsertCredential(r, t) PROVE P
  BY <1>1, <1>c DEF FindActive, UpsertCredential
<1>2. ASSUME NEW r \in Request, NEW t \in Token, Issue(r, t) PROVE P
  BY <1>2, <1>a DEF Issue
<1>3. ASSUME NEW r \in Request, NEW t \in Token, SweepRow(r, t) PROVE P
  BY <1>3 DEF SweepRow, Sweeping, TypeOK
<1>4. ASSUME NEW r \in Request, Rotate(r) PROVE P
  BY <1>4 DEF Rotate, Rotated, Sweeping, TypeOK
<1>5. ASSUME NEW r \in Request, CheckUser(r) \/ CheckLogin(r) PROVE P
  BY <1>5, <1>a DEF CheckUser, CheckLogin, Sweeping, TypeOK
<1>6. ASSUME NEW r \in Request, Challenge(r) \/ Claim(r) \/ Disable(r) PROVE P
  BY <1>6, <1>c DEF Challenge, Claim, Disable
<1>7. ASSUME NEW r \in Request, Sweep(r) PROVE P
  BY <1>7 DEF Sweep, Sweeping, TypeOK
<1>8. ASSUME NEW r \in Request, Swept(r) \/ Abort(r) PROVE P
  BY <1>8, <1>a DEF Swept, Abort
<1>9. ASSUME NEW t \in Token, RevokeOne(t) PROVE P
  BY <1>9, <1>b DEF RevokeOne
<1>10. Enable => P
  BY <1>b DEF Enable
<1> QED
  BY <1>1, <1>2, <1>3, <1>4, <1>5, <1>6, <1>7, <1>8, <1>9, <1>10
     DEF Next, RequestStep, TokenStep, CommitChange, CommitRevoke

-----------------------------------------------------------------------------
\* Requests under way during a sweep are late.
LEMMA MarksStep ==
  ASSUME SessionInv, Next
  PROVE  SweepMarks'
<1> USE DEF SessionInv
<1> SUFFICES ASSUME NEW q \in Request, NEW r \in Request, Sweeping(q)',
                    (Refreshing(r) \/ LoggingIn(r))'
             PROVE  r \in late'
  BY DEF SweepMarks
<1>1. CASE Sweep(q)
  BY <1>1 DEF Sweep, Refreshing, LoggingIn, TypeOK
<1>2. CASE Sweeping(q)
  <2>1. CASE Refreshing(r) \/ LoggingIn(r)
    BY <1>2, <2>1, RequestEffects DEF SweepMarks, Refreshing, LoggingIn, FindActive, Start, Challenge,
       Claim
  <2>2. CASE ~Refreshing(r) /\ ~LoggingIn(r)
    BY <1>2, <2>2, RequestEffects DEF FindActive, Challenge, Claim, MarkLate
  <2> QED
    BY <2>1, <2>2
<1> QED
  BY <1>1, <1>2, SweepEffects

\* Sessions begin with an issued token.
LEMMA KnownStep ==
  ASSUME SessionInv, Next
  PROVE  SessionsKnown'
<1> USE DEF SessionInv
<1>1. ASSUME NEW t \in Token, token[t] # "unissued" PROVE token'[t] # "unissued"
  BY <1>1, TokenEffects DEF Issue
<1>2. ASSUME NEW t \in Token, token'[t] # "unissued"
      PROVE  token'[session'[t]] # "unissued" /\ session'[session'[t]] = session'[t]
  <2>1. CASE token[t] # "unissued"
    BY <1>1, <2>1, TokenEffects DEF SessionsKnown, TypeOK
  <2>2. ASSUME NEW r \in Request, Issue(r, t)
        PROVE  token'[session'[t]] # "unissued" /\ session'[session'[t]] = session'[t]
    <3>1. CASE tok[r] = None
      BY <1>2, <2>2, <3>1 DEF Issue, TypeOK
    <3>2. CASE tok[r] # None
      <4>1. session'[t] = session[tok[r]] /\ session[tok[r]] \in Token
        BY <2>2, <3>2 DEF Issue, TypeOK, StageOK
      <4>2. token[session[tok[r]]] # "unissued" /\ session[session[tok[r]]] = session[tok[r]]
        BY <3>2 DEF SessionsKnown, StageOK, TypeOK
      <4> QED
        BY <1>1, <4>1, <4>2, TokenEffects
    <3> QED
      BY <3>1, <3>2
  <2> QED
    BY <1>2, <2>1, <2>2, TokenEffects
<1> QED
  BY <1>2 DEF SessionsKnown

\* A token issued in a session that did not race is the only active one of the session.
LEMMA IssuedAlone ==
  ASSUME SessionInv, NEW r \in Request, NEW t \in Token, Issue(r, t),
         NEW u \in Token \ {t}, token'[u] = "active", session'[t] \notin raced
  PROVE  token[u] = "active" /\ session'[u] = session[u] /\ session[u] # session'[t]
<1> USE DEF SessionInv
<1>1. token[u] = "active" /\ u \notin held[r] /\ session'[u] = session[u]
  BY DEF Issue, Revoked, TypeOK
<1>2. CASE tok[r] = None
  BY <1>1, <1>2 DEF Issue, SessionsKnown, TypeOK
<1>3. CASE tok[r] # None
  <2>1. Refreshing(r) /\ session'[t] = session[tok[r]] /\ tok[r] \in held[r]
    BY <1>3 DEF Issue, Refreshing, StageOK, TypeOK, Sweeping
  <2> QED
    BY <1>1, <2>1 DEF OneRefresh
<1> QED
  BY <1>2, <1>3

\* One token per session, and one refresh of it under way.
LEMMA OneStep ==
  ASSUME SessionInv, Next
  PROVE  OneTokenPerSession' /\ OneRefresh'
<1> USE DEF SessionInv
<1>1. OneTokenPerSession'
  <2> SUFFICES ASSUME NEW t \in Token, NEW u \in Token \ {t},
                      token'[t] = "active", token'[u] = "active",
                      session'[t] = session'[u], session'[t] \notin raced'
               PROVE  FALSE
    BY DEF OneTokenPerSession
  <2>1. session'[t] \notin raced
    BY TokenEffects
  <2>2. CASE token[t] = "active" /\ token[u] = "active"
    BY <2>1, <2>2, TokenEffects DEF OneTokenPerSession
  <2>3. CASE \E r \in Request : Issue(r, t) \/ Issue(r, u)
    BY <2>1, <2>3, IssuedAlone
  <2> QED
    BY <2>2, <2>3, TokenEffects
<1>2. OneRefresh'
  <2> SUFFICES ASSUME NEW r \in Request, Refreshing(r)', session'[tok'[r]] \notin raced'
               PROVE  /\ \A t \in Token : token'[t] = "active" /\ session'[t] = session'[tok'[r]]
                                            => t = tok'[r]
                      /\ \A q \in Request : Refreshing(q)' /\ session'[tok'[q]] = session'[tok'[r]]
                                              => q = r
    BY DEF OneRefresh
  <2>1. \A q \in Request : Refreshing(q)' =>
          /\ tok'[q] \in Token /\ session'[tok'[q]] = session[tok'[q]]
          /\ token[tok'[q]] # "unissued"
    <3> TAKE q \in Request
    <3> HAVE Refreshing(q)'
    <3>1. tok'[q] \in Token /\ token[tok'[q]] # "unissued"
      <4>1. CASE Refreshing(q) /\ tok'[q] = tok[q]
        BY <4>1, RequestEffects DEF StageOK, Refreshing
      <4>2. CASE \E t \in Token : FindActive(q, t) /\ tok'[q] = t
        BY <4>2 DEF FindActive, Findable
      <4> QED
        BY <4>1, <4>2, RequestEffects
    <3> QED
      BY <3>1, TokenEffects
  <2>2. session[tok'[r]] \notin raced
    BY <2>1, TokenEffects
  <2>3. CASE Refreshing(r) /\ tok'[r] = tok[r]
    <3>1. ASSUME NEW t \in Token, token'[t] = "active", session'[t] = session'[tok'[r]]
          PROVE  t = tok[r]
      <4>1. CASE token[t] = "active"
        BY <2>1, <2>2, <2>3, <3>1, <4>1, TokenEffects DEF OneRefresh
      <4>2. ASSUME NEW q \in Request, Issue(q, t) PROVE FALSE
        <5>1. q # r
          BY <4>2 DEF Issue, End, Refreshing, TypeOK
        <5>2. CASE tok[q] = None
          BY <2>1, <3>1, <4>2, <5>2 DEF Issue, SessionsKnown, TypeOK
        <5>3. CASE tok[q] # None
          <6>1. Refreshing(q) /\ session[tok[q]] = session[tok[r]]
            BY <2>1, <2>3, <3>1, <4>2, <5>3 DEF Issue, Refreshing, TypeOK
          <6> QED
            BY <2>2, <2>3, <5>1, <6>1 DEF OneRefresh
        <5> QED
          BY <5>2, <5>3
      <4> QED
        BY <3>1, <4>1, <4>2, TokenEffects
    <3>2. ASSUME NEW q \in Request, Refreshing(q)', session'[tok'[q]] = session'[tok'[r]]
          PROVE  q = r
      <4>1. CASE Refreshing(q) /\ tok'[q] = tok[q]
        BY <2>1, <2>2, <2>3, <3>2, <4>1 DEF OneRefresh
      <4>2. ASSUME NEW t \in Token, FindActive(q, t), tok'[q] = t PROVE FALSE
        <5>1. t = tok[r]
          BY <2>1, <2>2, <2>3, <3>2, <4>2 DEF OneRefresh, FindActive, Findable
        <5> QED
          BY <2>1, <2>3, <4>2, <5>1 DEF FindActive
      <4> QED
        BY <3>2, <4>1, <4>2, RequestEffects
    <3> QED
      BY <2>3, <3>1, <3>2
  <2>4. ASSUME NEW t \in Token, FindActive(r, t), tok'[r] = t
        PROVE  /\ \A u \in Token : token'[u] = "active" /\ session'[u] = session'[t] => u = t
               /\ \A q \in Request : Refreshing(q)' /\ session'[tok'[q]] = session'[t] => q = r
    <3>1. ASSUME NEW u \in Token, token'[u] = "active", session'[u] = session'[t] PROVE u = t
      BY <2>2, <2>4, <3>1 DEF FindActive, Findable, OneTokenPerSession
    <3>2. ASSUME NEW q \in Request \ {r}, Refreshing(q)', session'[tok'[q]] = session'[t]
          PROVE  FALSE
      <4>1. Refreshing(q) /\ tok'[q] = tok[q] /\ UNCHANGED <<token, session>>
        BY <2>4, <3>2 DEF FindActive, Start, Refreshing, TypeOK
      <4>2. t = tok[q]
        BY <2>2, <2>4, <3>2, <4>1 DEF OneRefresh, FindActive, Findable
      <4> QED
        BY <2>4, <4>1, <4>2 DEF FindActive
    <3> QED
      BY <3>1, <3>2
  <2> QED
    BY <2>3, <2>4, RequestEffects
<1> QED
  BY <1>1, <1>2

\* What becomes of the token of a refresh that is not late.
LEMMA LiveStep ==
  ASSUME SessionInv, Next
  PROVE  RefreshLive'
<1> USE DEF SessionInv
<1> SUFFICES ASSUME NEW r \in Request, r \notin late', Refreshing(r)',
                    session'[tok'[r]] \notin raced', session'[tok'[r]] \notin slipped'
             PROVE  token'[tok'[r]] = "active"
  BY DEF RefreshLive
<1>1. CASE Refreshing(r) /\ tok'[r] = tok[r] /\ (r \in late => r \in late')
  <2>1. tok[r] \in Token /\ token[tok[r]] # "unissued" /\ session'[tok[r]] = session[tok[r]]
    BY <1>1, RequestEffects, TokenEffects DEF StageOK, Refreshing
  <2>2. session[tok[r]] \notin raced /\ session[tok[r]] \notin slipped
    BY <1>1, <2>1, TokenEffects
  <2>3. token[tok[r]] = "active"
    BY <1>1, <2>2 DEF RefreshLive
  <2>4. ASSUME NEW q \in Request, NEW t \in Token, Issue(q, t) PROVE token'[tok[r]] = "active"
    <3>1. q # r /\ held[q] = {tok[q]} \ {None}
      BY <1>1, <2>4 DEF Issue, End, Refreshing, TypeOK, StageOK, Sweeping
    <3>2. tok[q] # tok[r]
      BY <1>1, <2>1, <2>2, <2>4, <3>1, NoneAssumption DEF OneRefresh, Issue, Refreshing
    <3> QED
      BY <2>1, <2>3, <2>4, <3>1, <3>2 DEF Issue, Revoked, TypeOK
  <2>5. ASSUME NEW q \in Request, CheckUser(q) PROVE token'[tok[r]] = "active"
    <3>1. CASE active
      BY <2>3, <2>5, <3>1 DEF CheckUser
    <3>2. CASE ~active
      <4>1. q # r /\ held[q] = {tok[q]} /\ Refreshing(q)
        BY <1>1, <2>5, <3>2, NoneAssumption
           DEF CheckUser, End, Refreshing, TypeOK, StageOK, Sweeping
      <4>2. tok[q] # tok[r]
        BY <1>1, <2>2, <4>1 DEF OneRefresh
      <4> QED
        BY <2>1, <2>3, <2>5, <3>2, <4>1, <4>2 DEF CheckUser, Revoked
    <3> QED
      BY <3>1, <3>2
  <2>6. ASSUME NEW q \in Request, Swept(q) PROVE FALSE
    BY <1>1, <2>6 DEF Swept, SweepMarks, End, Refreshing, TypeOK
  <2>7. ASSUME NEW t \in Token, RevokeOne(t) PROVE token'[tok[r]] = "active"
    BY <1>1, <2>1, <2>3, <2>7 DEF RevokeOne, TypeOK
  <2>8. ASSUME token' = token PROVE token'[tok[r]] = "active"
    BY <2>3, <2>8
  <2>9. \/ \E q \in Request, t \in Token : Issue(q, t)
        \/ \E q \in Request : CheckUser(q) \/ Swept(q)
        \/ \E t \in Token : RevokeOne(t)
        \/ token' = token
    BY DEF Next, RequestStep, TokenStep, CommitChange, CommitRevoke, FindActive, UpsertCredential,
       SweepRow, Rotate, Challenge, CheckLogin, Claim, Disable, Sweep, Abort, Enable
  <2> QED
    BY <1>1, <2>4, <2>5, <2>6, <2>7, <2>8, <2>9
<1>2. ASSUME NEW t \in Token, FindActive(r, t), tok'[r] = t PROVE token'[tok'[r]] = "active"
  BY <1>2 DEF FindActive, Findable
<1> QED
  BY <1>1, <1>2, RequestEffects

\* What is issued while a sweep runs is issued to a request that is late.
LEMMA IssuedLate ==
  ASSUME SessionInv, NEW r \in Request, NEW t \in Token, Issue(r, t),
         NEW q \in Request, Sweeping(q)
  PROVE  session'[t] \in slipped'
  BY DEF SessionInv, Issue, SweepMarks, Refreshing, LoggingIn, TypeOK

\* Sweeps see every active token but those that slip in.
LEMMA CoversStep ==
  ASSUME SessionInv, Next
  PROVE  SweepCovers'
<1> USE DEF SessionInv
<1> SUFFICES ASSUME NEW r \in Request, NEW t \in Token, Sweeping(r)', token'[t] = "active",
                    t # tok'[r], session'[t] \notin slipped'
             PROVE  t \in todo'[r] \cup held'[r]
  BY DEF SweepCovers
<1>1. CASE Sweep(r)
  BY <1>1 DEF Sweep, Matching, TypeOK
<1>2. CASE /\ Sweeping(r) /\ tok'[r] = tok[r]
           /\ \A u \in todo[r] \cup held[r] : token[u] = "active" => u \in todo'[r] \cup held'[r]
  <2>1. CASE token[t] = "active"
    <3>1. session[t] \notin slipped
      BY <2>1, TokenEffects
    <3> QED
      BY <1>2, <2>1, <3>1 DEF SweepCovers
  <2>2. CASE \E q \in Request : Issue(q, t)
    BY <1>2, <2>2, IssuedLate
  <2> QED
    BY <2>1, <2>2, TokenEffects
<1> QED
  BY <1>1, <1>2, SweepEffects
-----------------------------------------------------------------------------
\* Password changes are one after the other.
LEMMA ChangeStep ==
  ASSUME SessionInv, Next
  PROVE  OneChange'
<1> DEFINE Changing(q) == stage[q] \in {"upserted", "changing"}
<1> USE DEF SessionInv
<1>1. ASSUME UNCHANGED password, \A q \in Request : Changing(q)' => Changing(q)
      PROVE  OneChange'
  BY <1>1 DEF OneChange
<1>2. ASSUME NEW r \in Request, End(r) PROVE \A q \in Request : Changing(q)' => Changing(q) /\ q # r
  BY <1>2 DEF End, TypeOK
<1>3. ASSUME NEW r \in Request, NEW t \in Token, UpsertCredential(r, t) PROVE OneChange'
  BY <1>3 DEF UpsertCredential, Start, OneChange, TypeOK
<1>4. ASSUME NEW r \in Request, CommitChange(r) PROVE OneChange'
  <2>1. \A q \in Request : ~Changing(q)'
    BY <1>2, <1>4 DEF CommitChange, Swept, OneChange
  <2> QED
    BY <2>1 DEF OneChange
<1>5. ASSUME NEW r \in Request, NEW t \in Token, FindActive(r, t) PROVE OneChange'
  BY <1>1, <1>5 DEF FindActive, Start, TypeOK
<1>6. ASSUME NEW r \in Request, NEW t \in Token, Issue(r, t) PROVE OneChange'
  BY <1>1, <1>2, <1>6 DEF Issue
<1>7. ASSUME NEW r \in Request, NEW t \in Token, SweepRow(r, t) PROVE OneChange'
  BY <1>1, <1>7 DEF SweepRow
<1>8. ASSUME NEW r \in Request, Rotate(r) \/ Challenge(r) \/ Claim(r) \/ Disable(r) \/ Sweep(r)
      PROVE  OneChange'
  BY <1>1, <1>8 DEF Rotate, Challenge, Claim, Disable, Sweep, Start, TypeOK
<1>9. ASSUME NEW r \in Request, CheckUser(r) \/ CheckLogin(r) PROVE OneChange'
  BY <1>1, <1>2, <1>9 DEF CheckUser, CheckLogin, TypeOK
<1>10. ASSUME NEW r \in Request, CommitRevoke(r) \/ Abort(r) PROVE OneChange'
  BY <1>1, <1>2, <1>10 DEF CommitRevoke, Swept, Abort
<1>11. (\E t \in Token : RevokeOne(t)) \/ Enable => OneChange'
  BY <1>1 DEF RevokeOne, Enable, requestVars
<1> QED
  BY <1>3, <1>4, <1>5, <1>6, <1>7, <1>8, <1>9, <1>10, <1>11 DEF Next, RequestStep, TokenStep

\* Versions change with a password change and with a login.
LEMMA VersionEffects ==
  ASSUME SessionInv, Next
  PROVE  \/ UNCHANGED <<password, version>>
         \/ \E r \in Request : CommitChange(r)
         \/ \E r \in Request, t \in Token : Issue(r, t)
  BY DEF Next, RequestStep, TokenStep, FindActive, UpsertCredential, SweepRow, Rotate, CheckUser,
     Challenge, CheckLogin, Claim, Disable, Sweep, CommitRevoke, Abort, RevokeOne, Enable,
     historyVars

\* Active tokens, and those about to be issued, go with the current password.
LEMMA PasswordStep ==
  ASSUME SessionInv, Next
  PROVE  PasswordEndsSessions' /\ VersionKept'
<1> USE DEF SessionInv
<1>1. CASE UNCHANGED <<password, version>> /\ \A r \in Request, t \in Token : ~Issue(r, t)
  <2>1. PasswordEndsSessions'
    <3> SUFFICES ASSUME NEW t \in Token, token'[t] = "active", session'[t] \notin slipped'
                 PROVE  version'[session'[t]] = password'
      BY DEF PasswordEndsSessions
    <3>1. token[t] = "active" /\ session'[t] = session[t] /\ session[t] \notin slipped
      BY <1>1, TokenEffects
    <3> QED
      BY <1>1, <3>1 DEF PasswordEndsSessions
  <2>2. ASSUME NEW r \in Request, r \notin late', LoggingIn(r)' PROVE ver'[r] = password'
    <3>1. CASE LoggingIn(r) /\ ver'[r] = ver[r] /\ (r \in late => r \in late')
      BY <1>1, <2>2, <3>1 DEF VersionKept
    <3>2. CASE Challenge(r) \/ Claim(r)
      BY <1>1, <3>2 DEF Challenge, Claim, TypeOK
    <3> QED
      BY <2>2, <3>1, <3>2, RequestEffects
  <2>3. ASSUME NEW r \in Request, r \notin late', Refreshing(r)', session'[tok'[r]] \notin slipped'
        PROVE  version'[session'[tok'[r]]] = password'
    <3>1. CASE Refreshing(r) /\ tok'[r] = tok[r] /\ (r \in late => r \in late')
      <4>1. tok[r] \in Token /\ token[tok[r]] # "unissued"
        BY <3>1 DEF StageOK, Refreshing, TypeOK
      <4>2. session'[tok[r]] = session[tok[r]] /\ session[tok[r]] \notin slipped
        BY <2>3, <3>1, <4>1, TokenEffects
      <4> QED
        BY <1>1, <2>3, <3>1, <4>2 DEF VersionKept
    <3>2. ASSUME NEW t \in Token, FindActive(r, t), tok'[r] = t
          PROVE  version'[session'[tok'[r]]] = password'
      BY <1>1, <2>3, <3>2 DEF FindActive, Findable, PasswordEndsSessions
    <3> QED
      BY <2>3, <3>1, <3>2, RequestEffects
  <2> QED
    BY <2>1, <2>2, <2>3 DEF VersionKept
<1>2. ASSUME NEW r \in Request, CommitChange(r)
      PROVE  PasswordEndsSessions' /\ VersionKept'
  <2>1. /\ Sweeping(r) /\ todo[r] = {} /\ tok[r] \in Token /\ UNCHANGED <<session, slipped>>
        /\ token' = Revoked(r) /\ End(r) /\ password' = password + 1
        /\ version' = [version EXCEPT ![session[tok[r]]] = password + 1]
    BY <1>2 DEF CommitChange, Swept, StageOK
  <2>2. ASSUME NEW t \in Token, token'[t] = "active", session'[t] \notin slipped'
        PROVE  version'[session'[t]] = password'
    <3>1. token[t] = "active" /\ t \notin held[r]
      BY <2>1, <2>2 DEF Revoked
    <3>2. t = tok[r]
      BY <2>1, <2>2, <3>1 DEF SweepCovers
    <3> QED
      BY <2>1, <3>1, <3>2 DEF TypeOK
  <2>3. ASSUME NEW q \in Request, (Refreshing(q) \/ LoggingIn(q))' PROVE q \in late'
    <3>1. q # r /\ (Refreshing(q) \/ LoggingIn(q))
      BY <2>1, <2>3 DEF End, Refreshing, LoggingIn, TypeOK
    <3> QED
      BY <2>1, <3>1 DEF SweepMarks, End
  <2> QED
    BY <2>2, <2>3 DEF PasswordEndsSessions, VersionKept
<1>3. ASSUME NEW r \in Request, NEW t \in Token, Issue(r, t)
      PROVE  PasswordEndsSessions' /\ VersionKept'
  <2>1. password' = password /\ stage[r] = "checked" /\ token[t] = "unissued" /\ End(r)
    BY <1>3 DEF Issue
  <2>2. \A u \in Token : token[u] # "unissued" =>
          /\ session'[u] = session[u] /\ session[u] \in Token
          /\ version'[session[u]] = version[session[u]]
    BY <1>3, <2>1 DEF Issue, SessionsKnown, TypeOK
  <2>3. ASSUME NEW u \in Token, token'[u] = "active", session'[u] \notin slipped'
        PROVE  version'[session'[u]] = password'
    <3>1. CASE u # t
      <4>1. token[u] = "active" /\ session'[u] = session[u] /\ session[u] \notin slipped
        BY <1>3, <2>2, <2>3, <3>1 DEF Issue, Revoked, TypeOK
      <4> QED
        BY <2>1, <2>2, <4>1 DEF PasswordEndsSessions
    <3>2. CASE u = t /\ tok[r] = None
      <4>1. session'[t] = t /\ version'[t] = ver[r] /\ r \notin late
        BY <1>3, <2>3, <3>2 DEF Issue, TypeOK
      <4> QED
        BY <2>1, <3>2, <4>1 DEF VersionKept, LoggingIn
    <3>3. CASE u = t /\ tok[r] # None
      <4>1. session'[t] = session[tok[r]] /\ version' = version /\ r \notin late
        BY <1>3, <2>3, <3>3 DEF Issue, TypeOK
      <4>2. session[tok[r]] \notin slipped
        BY <2>3, <3>3, <4>1, TokenEffects
      <4> QED
        BY <2>1, <3>3, <4>1, <4>2 DEF VersionKept, Refreshing
    <3> QED
      BY <3>1, <3>2, <3>3
  <2>4. ASSUME NEW q \in Request, (Refreshing(q) \/ LoggingIn(q))'
        PROVE  /\ q # r /\ stage'[q] = stage[q] /\ tok'[q] = tok[q] /\ ver'[q] = ver[q]
               /\ (q \in late => q \in late')
    BY <2>1, <2>4 DEF End, Refreshing, LoggingIn, TypeOK
  <2>5. ASSUME NEW q \in Request, q \notin late', LoggingIn(q)' PROVE ver'[q] = password'
    BY <2>1, <2>4, <2>5 DEF LoggingIn, VersionKept
  <2>6. ASSUME NEW q \in Request, q \notin late', Refreshing(q)', session'[tok'[q]] \notin slipped'
        PROVE  version'[session'[tok'[q]]] = password'
    <3>1. Refreshing(q) /\ q \notin late /\ tok'[q] = tok[q]
      BY <2>4, <2>6 DEF Refreshing
    <3>2. tok[q] \in Token /\ token[tok[q]] # "unissued"
      BY <3>1 DEF Refreshing, StageOK, TypeOK
    <3>3. session[tok[q]] \notin slipped
      BY <2>2, <2>6, <3>1, <3>2, TokenEffects
    <3> QED
      BY <2>1, <2>2, <3>1, <3>2, <3>3 DEF VersionKept
  <2> QED
    BY <2>3, <2>5, <2>6 DEF PasswordEndsSessions, VersionKept
<1> QED
  BY <1>1, <1>2, <1>3, VersionEffects
-----------------------------------------------------------------------------
\* How a deactivation comes to be complete, and what is checked meanwhile.
LEMMA DisabledEffects ==
  ASSUME SessionInv, Next, ~active', ~halfway', \A q \in Request : ~Deactivating(q)'
  PROVE  \/ \E r \in Request : CommitRevoke(r)
         \/ /\ ~active /\ ~halfway /\ \A q \in Request : ~Deactivating(q)
            /\ \A q \in Request : stage'[q] = "checked" => stage[q] = "checked"
<1> DEFINE P == /\ ~active /\ ~halfway /\ \A q \in Request : ~Deactivating(q)
                /\ \A q \in Request : stage'[q] = "checked" => stage[q] = "checked"
<1> USE DEF SessionInv, Deactivating
<1>a. ASSUME UNCHANGED <<active, halfway, stage>> PROVE P
  BY <1>a
<1>b. ASSUME NEW r \in Request, End(r), active' = active, ~halfway, ~Deactivating(r)
      PROVE  P
  BY <1>b DEF End, TypeOK
<1>c. ASSUME NEW r \in Request, NEW at \in Stages, ~Deactivating(r), at # "checked",
             stage' = [stage EXCEPT ![r] = at], UNCHANGED <<active, halfway>>
      PROVE  P
  BY <1>c DEF TypeOK
<1>1. ASSUME NEW r \in Request, NEW t \in Token, FindActive(r, t) \/ UpsertCredential(r, t) PROVE P
  BY <1>1, <1>c DEF FindActive, UpsertCredential, Start, historyVars, Stages
<1>2. ASSUME NEW r \in Request, NEW t \in Token, Issue(r, t) PROVE P
  BY <1>2, <1>b DEF Issue
<1>3. ASSUME NEW r \in Request, NEW t \in Token, SweepRow(r, t) PROVE P
  BY <1>3, <1>a DEF SweepRow, historyVars
<1>4. ASSUME NEW r \in Request, Rotate(r) \/ Challenge(r) PROVE P
  BY <1>4, <1>c DEF Rotate, Challenge, Start, historyVars, Stages
<1>5. ASSUME NEW r \in Request, CheckUser(r) \/ CheckLogin(r) \/ Claim(r) PROVE P
  BY <1>5, <1>b DEF CheckUser, CheckLogin, Claim
<1>6. ASSUME NEW r \in Request, Disable(r) PROVE FALSE
  BY <1>6 DEF Disable, Start, TypeOK
<1>7. ASSUME NEW r \in Request, Sweep(r) PROVE P
  BY <1>7 DEF Sweep, TypeOK
<1>8. ASSUME NEW r \in Request, CommitChange(r) PROVE P
  BY <1>8, <1>b DEF CommitChange, Swept
<1>9. ASSUME NEW r \in Request, Abort(r) PROVE P
  <2>1. End(r) /\ UNCHANGED active /\ halfway' = (halfway \/ Deactivating(r))
    BY <1>9 DEF Abort
  <2>2. ~halfway /\ ~Deactivating(r)
    BY <2>1
  <2> QED
    BY <1>b, <2>1, <2>2
<1>10. ASSUME NEW t \in Token, RevokeOne(t) PROVE P
  BY <1>10, <1>a DEF RevokeOne, requestVars
<1>11. ~Enable
  BY DEF Enable
<1> QED
  BY <1>1, <1>2, <1>3, <1>4, <1>5, <1>6, <1>7, <1>8, <1>9, <1>10, <1>11
     DEF Next, RequestStep, TokenStep

\* A deactivation leaves no token but those that slipped in, and none is issued after it.
LEMMA DisabledStep ==
  ASSUME SessionInv, Next
  PROVE  DisabledHasNoSession' /\ CheckedMarks'
<1> USE DEF SessionInv
<1> SUFFICES ASSUME ~active', ~halfway', \A q \in Request : ~Deactivating(q)'
             PROVE  /\ \A t \in Token : token'[t] = "active" => session'[t] \in slipped'
                    /\ \A q \in Request : stage'[q] = "checked" => q \in late'
  BY DEF DisabledHasNoSession, CheckedMarks, Deactivated
<1>1. ASSUME NEW r \in Request, CommitRevoke(r)
      PROVE  /\ \A t \in Token : token'[t] = "active" => session'[t] \in slipped'
             /\ \A q \in Request : stage'[q] = "checked" => q \in late'
  <2>1. /\ Sweeping(r) /\ todo[r] = {} /\ tok[r] = None /\ UNCHANGED <<session, slipped>>
        /\ token' = Revoked(r) /\ End(r)
    BY <1>1 DEF CommitRevoke, Swept, StageOK
  <2>2. \A t \in Token : token'[t] = "active" => session'[t] \in slipped'
    BY <2>1, NoneAssumption DEF Revoked, SweepCovers
  <2>3. ASSUME NEW q \in Request, stage'[q] = "checked" PROVE q \in late'
    <3>1. q # r /\ stage[q] = "checked"
      BY <2>1, <2>3 DEF End, TypeOK
    <3> QED
      BY <2>1, <3>1 DEF SweepMarks, Refreshing, LoggingIn, End
  <2> QED
    BY <2>2, <2>3
<1>2. CASE /\ ~active /\ ~halfway /\ \A q \in Request : ~Deactivating(q)
           /\ \A q \in Request : stage'[q] = "checked" => stage[q] = "checked"
  <2>1. ASSUME NEW t \in Token, token'[t] = "active" PROVE session'[t] \in slipped'
    <3>1. CASE token[t] = "active"
      BY <1>2, <3>1, TokenEffects DEF DisabledHasNoSession, Deactivated
    <3>2. ASSUME NEW r \in Request, Issue(r, t) PROVE session'[t] \in slipped'
      BY <1>2, <3>2 DEF Issue, CheckedMarks, Deactivated, TypeOK
    <3> QED
      BY <2>1, <3>1, <3>2, TokenEffects
  <2>2. ASSUME NEW q \in Request, stage'[q] = "checked" PROVE q \in late'
    <3>1. q \in late /\ (Refreshing(q) \/ LoggingIn(q)) /\ (Refreshing(q) \/ LoggingIn(q))'
      BY <1>2, <2>2 DEF CheckedMarks, Deactivated, Refreshing, LoggingIn
    <3>2. ~(\E t \in Token : FindActive(q, t)) /\ ~Challenge(q) /\ ~Claim(q)
      BY <1>2, <2>2 DEF FindActive, Challenge, Claim, Start
    <3> QED
      BY <3>1, <3>2, RequestEffects
  <2> QED
    BY <2>1, <2>2
<1> QED
  BY <1>1, <1>2, DisabledEffects
-----------------------------------------------------------------------------
\* SessionInv is inductive.
LEMMA InvStep == SessionInv /\ [Next]_vars => SessionInv'
<1> SUFFICES ASSUME SessionInv, [Next]_vars PROVE SessionInv'
  OBVIOUS
<1>1. CASE Next
  <2>1. TypeOK /\ (\A r \in Request : StageOK(r)) /\ OneChange
    BY DEF SessionInv
  <2>2. TypeOK' /\ \A r \in Request : StageOK(r)'
    BY <1>1, <2>1, TypesStep, StagesStep
  <2> QED
    BY <1>1, <2>2, MarksStep, KnownStep, OneStep, LiveStep, CoversStep, ChangeStep, PasswordStep,
       DisabledStep DEF SessionInv
<1>2. CASE UNCHANGED vars
  <2> USE <1>2 DEF vars, requestVars, historyVars
  <2>1. TypeOK' = TypeOK /\ \A r \in Request : StageOK(r)' = StageOK(r)
    BY DEF TypeOK, StageOK, Sweeping
  <2>2. SweepMarks' = SweepMarks /\ SessionsKnown' = SessionsKnown
    BY DEF SweepMarks, SessionsKnown, Sweeping, Refreshing, LoggingIn
  <2>3. OneTokenPerSession' = OneTokenPerSession /\ OneRefresh' = OneRefresh
    BY DEF OneTokenPerSession, OneRefresh, Refreshing
  <2>4. RefreshLive' = RefreshLive
    BY DEF RefreshLive, Refreshing
  <2>5. SweepCovers' = SweepCovers /\ OneChange' = OneChange
    BY DEF SweepCovers, OneChange, Sweeping
  <2>6. PasswordEndsSessions' = PasswordEndsSessions /\ VersionKept' = VersionKept
    BY DEF PasswordEndsSessions, VersionKept, Refreshing, LoggingIn
  <2>7. DisabledHasNoSession' = DisabledHasNoSession /\ CheckedMarks' = CheckedMarks
    BY DEF DisabledHasNoSession, CheckedMarks, Deactivated, Deactivating
  <2> QED
    BY <2>1, <2>2, <2>3, <2>4, <2>5, <2>6, <2>7 DEF SessionInv
<1> QED
  BY <1>1, <1>2

LEMMA InvAlways == Spec => []SessionInv
  BY InitInv, InvStep, PTL DEF Spec

\* Types and locks: a refresh_tokens row is updated by one open transaction at a time.
THEOREM SessionTypes == Spec => []TypeOK
<1>1. SessionInv => TypeOK
  BY DEF SessionInv
<1> QED
  BY <1>1, InvAlways, PTL

\* A session has one active refresh token unless two refreshes of one token overlapped
\* (AuthService.refresh).
THEOREM SessionsHaveOneToken == Spec => []OneTokenPerSession
<1>1. SessionInv => OneTokenPerSession
  BY DEF SessionInv
<1> QED
  BY <1>1, InvAlways, PTL

\* After a password change, the sessions left are the caller's, newer ones and those that a
\* request under way during the change renewed (AuthService.changePassword).
THEOREM PasswordChangeEndsSessions == Spec => []PasswordEndsSessions
<1>1. SessionInv => PasswordEndsSessions
  BY DEF SessionInv
<1> QED
  BY <1>1, InvAlways, PTL

\* A deactivation that ran to its end leaves no token but those of requests under way
\* during its sweep (AdminQueryService.setUserActive).
THEOREM DeactivationEndsSessions == Spec => []DisabledHasNoSession
<1>1. SessionInv => DisabledHasNoSession
  BY DEF SessionInv
<1> QED
  BY <1>1, InvAlways, PTL
-----------------------------------------------------------------------------
(* AuthSessions implements Sessions. *)

\* The session that begins with token s: it has begun, it is loose, it has an active token.
Begun(s) == token[s] # "unissued" /\ session[s] = s
IsLoose(s) == s \in raced \/ s \in slipped
Alive(s) == \E t \in Token : token[t] = "active" /\ session[t] = s

\* What State is in a state of the invariant: no session outlives its password.
StateIs(s) ==
  /\ State(s) = "none" <=> ~Begun(s)
  /\ State(s) = "loose" <=> Begun(s) /\ IsLoose(s)
  /\ State(s) = "open" <=> Begun(s) /\ ~IsLoose(s) /\ Alive(s)
  /\ State(s) = "closed" <=> Begun(s) /\ ~IsLoose(s) /\ ~Alive(s)

LEMMA StateNow ==
  ASSUME SessionInv, NEW s \in Token
  PROVE  StateIs(s)
<1>1. Alive(s) /\ ~IsLoose(s) => version[s] = password
  BY DEF SessionInv, PasswordEndsSessions, Alive, IsLoose
<1> QED
  BY <1>1 DEF StateIs, State, Begun, IsLoose, Alive

LEMMA StateNext ==
  ASSUME SessionInv', NEW s \in Token
  PROVE  StateIs(s)'
<1>1. Alive(s)' /\ ~IsLoose(s)' => version'[s] = password'
  BY DEF SessionInv, PasswordEndsSessions, Alive, IsLoose
<1> QED
  BY <1>1 DEF StateIs, State, Begun, IsLoose, Alive

\* A session that has begun has begun, and one that is loose is loose.
LEMMA StateGrows ==
  ASSUME SessionInv, Next, NEW s \in Token
  PROVE  (Begun(s) => Begun(s)') /\ (IsLoose(s) => IsLoose(s)')
<1>1. token[s] # "unissued" => token'[s] # "unissued"
  BY TokenEffects DEF SessionInv, Issue
<1> QED
  BY <1>1, TokenEffects DEF SessionInv, Begun, IsLoose

\* A session is as it was if it has begun or not, is loose or not, is alive or not as before.
LEMMA SameState ==
  ASSUME SessionInv, SessionInv', NEW s \in Token,
         Begun(s)' <=> Begun(s), IsLoose(s)' <=> IsLoose(s), Alive(s)' <=> Alive(s)
  PROVE  State(s)' = State(s)
  BY StateNow, StateNext DEF StateIs

\* The steps of Sessions, one session at a time ...
LEMMA OneGoes ==
  ASSUME NEW s \in Token, UNCHANGED password, UNCHANGED Deactivated,
         \A x \in Token \ {s} : State(x)' = State(x),
         \/ State(s)' = State(s)
         \/ State(s) = "none" /\ State(s)' = "open" /\ ~Deactivated
         \/ State(s) = "open" /\ State(s)' = "closed"
         \/ State(s) \in {"none", "open", "closed"} /\ State(s)' = "loose"
  PROVE  [Promised!Next]_Promised!vars
<1>1. CASE State(s)' = State(s)
  <2>1. UNCHANGED States
    BY <1>1 DEF States
  <2> QED
    BY <2>1 DEF Promised!vars
<1>2. ASSUME State(s)' # State(s) PROVE Promised!Next
  <2>1. States[s] = State(s) /\ States'[s] = State(s)'
    BY DEF States
  <2>2. States' = [States EXCEPT ![s] = State(s)']
    BY DEF States
  <2>3. CASE State(s) = "none" /\ State(s)' = "open" /\ ~Deactivated
    <3>1. Promised!Open(s)
      BY <2>1, <2>2, <2>3 DEF Promised!Open, Promised!Goes
    <3> QED
      BY <3>1 DEF Promised!Next
  <2>4. CASE State(s) = "open" /\ State(s)' = "closed"
    <3>1. Promised!Close(s)
      BY <2>1, <2>2, <2>4 DEF Promised!Close, Promised!Goes
    <3> QED
      BY <3>1 DEF Promised!Next
  <2>5. CASE State(s) \in {"none", "open", "closed"} /\ State(s)' = "loose"
    <3>1. Promised!Loosen(s)
      BY <2>1, <2>2, <2>5 DEF Promised!Loosen, Promised!Goes
    <3> QED
      BY <3>1 DEF Promised!Next
  <2> QED
    BY <1>2, <2>3, <2>4, <2>5
<1> QED
  BY <1>1, <1>2

\* ... or no session, while the account is enabled or is to be disabled again.
LEMMA NoneGoes ==
  ASSUME UNCHANGED password, Deactivated' => Deactivated, \A x \in Token : State(x)' = State(x)
  PROVE  [Promised!Next]_Promised!vars
<1>1. UNCHANGED States
  BY DEF States
<1>2. CASE Deactivated' <=> Deactivated
  BY <1>1, <1>2 DEF Promised!vars, Deactivated
<1>3. CASE Deactivated /\ ~Deactivated'
  BY <1>1, <1>3 DEF Promised!Next, Promised!Reconsider
<1> QED
  BY <1>2, <1>3

\* Of the sessions that are open only one that is kept may stay.
LEMMA AllClose ==
  ASSUME NEW kept \in SUBSET Token,
         \A x \in Token : State(x)' = IF State(x) = "open" /\ x \notin kept
                                      THEN "closed" ELSE State(x)
  PROVE  Promised!CloseAllBut(kept)
  BY DEF Promised!CloseAllBut, States

\* Deactivation is as it was, unless a request begins or ends one.
LEMMA DeactivatedKept ==
  ASSUME TypeOK, NEW r \in Request, End(r), UNCHANGED <<active, halfway>>, ~Deactivating(r)
  PROVE  UNCHANGED Deactivated
<1>1. \A q \in Request : Deactivating(q)' <=> Deactivating(q)
  BY DEF End, Deactivating, TypeOK
<1> QED
  BY <1>1 DEF Deactivated

\* Nothing but the end of a deactivation makes the account disabled for good.
LEMMA DisablingEnds ==
  ASSUME SessionInv, Next, \A r \in Request : ~CommitRevoke(r)
  PROVE  Deactivated' => Deactivated
  BY DisabledEffects DEF Deactivated

\* A step that neither issues nor revokes a token.
LEMMA QuietStep ==
  ASSUME SessionInv, SessionInv', Next, \A r \in Request : ~CommitRevoke(r),
         UNCHANGED <<password, token, session, raced, slipped>>
  PROVE  [Promised!Next]_Promised!vars
<1>1. \A x \in Token : State(x)' = State(x)
  <2> TAKE x \in Token
  <2>1. (Begun(x)' <=> Begun(x)) /\ (IsLoose(x)' <=> IsLoose(x)) /\ (Alive(x)' <=> Alive(x))
    BY DEF Begun, IsLoose, Alive
  <2> QED
    BY <2>1, SameState
<1> QED
  BY <1>1, NoneGoes, DisablingEnds

\* A refresh that finds a token another refresh has found.
LEMMA FoundStep ==
  ASSUME SessionInv, SessionInv', NEW r \in Request, NEW t \in Token, FindActive(r, t)
  PROVE  [Promised!Next]_Promised!vars
<1>1. UNCHANGED <<password, active, token, session, slipped, halfway>>
      /\ raced' \subseteq raced \cup {session[t]} /\ raced \subseteq raced'
  BY DEF FindActive
<1>2. UNCHANGED Deactivated
  <2>1. \A q \in Request : Deactivating(q)' <=> Deactivating(q)
    BY DEF FindActive, Start, Deactivating, SessionInv, TypeOK
  <2> QED
    BY <1>1, <2>1 DEF Deactivated
<1>3. session[t] \in Token /\ token[t] = "active"
  BY DEF SessionInv, TypeOK, FindActive, Findable
<1>4. ASSUME NEW s \in Token, s = session[t]
      PROVE  [Promised!Next]_Promised!vars
  <2>1. \A x \in Token : (Begun(x)' <=> Begun(x)) /\ (Alive(x)' <=> Alive(x))
    BY <1>1 DEF Begun, Alive
  <2>2. ASSUME NEW x \in Token \ {s} PROVE State(x)' = State(x)
    <3>1. IsLoose(x)' <=> IsLoose(x)
      BY <1>1, <1>4 DEF IsLoose
    <3> QED
      BY <2>1, <3>1, SameState
  <2>3. IsLoose(s) => IsLoose(s)'
    BY <1>1 DEF IsLoose
  <2>4. State(s)' = State(s) \/ (State(s) \in {"none", "open", "closed"} /\ State(s)' = "loose")
    BY <2>1, <2>3, StateNow, StateNext DEF StateIs
  <2> QED
    BY <1>1, <1>2, <2>2, <2>4, OneGoes
<1> QED
  BY <1>3, <1>4

\* A login that is given its first token, with the password of this moment or late.
LEMMA LoginStep ==
  ASSUME SessionInv, SessionInv', NEW r \in Request, NEW t \in Token, Issue(r, t), tok[r] = None
  PROVE  [Promised!Next]_Promised!vars
<1> USE DEF SessionInv
<1>1. /\ UNCHANGED <<password, active, raced, halfway>> /\ End(r) /\ stage[r] = "checked"
      /\ token[t] = "unissued" /\ token'[t] = "active" /\ session'[t] = t
      /\ slipped' = IF r \in late THEN slipped \cup {t} ELSE slipped
      /\ \A u \in Token \ {t} : session'[u] = session[u]
  BY DEF Issue, TypeOK
<1>2. \A u \in Token \ {t} : token'[u] = token[u]
  <2>1. held[r] = {}
    BY <1>1 DEF StageOK, Sweeping
  <2> QED
    BY <2>1 DEF Issue, Revoked, TypeOK
<1>3. UNCHANGED Deactivated
  BY <1>1, DeactivatedKept DEF Deactivating
<1>4. ASSUME NEW x \in Token \ {t} PROVE State(x)' = State(x)
  <2>1. Begun(x)' <=> Begun(x)
    BY <1>1, <1>2 DEF Begun
  <2>2. IsLoose(x)' <=> IsLoose(x)
    BY <1>1 DEF IsLoose
  <2>3. Alive(x)' <=> Alive(x)
    BY <1>1, <1>2 DEF Alive
  <2> QED
    BY <2>1, <2>2, <2>3, SameState
<1>5. State(t) = "none" /\ Begun(t)' /\ Alive(t)'
  <2>1. ~Begun(t)
    BY <1>1 DEF Begun
  <2>2. Begun(t)' /\ Alive(t)'
    BY <1>1 DEF Begun, Alive
  <2> QED
    BY <2>1, <2>2, StateNow DEF StateIs
<1>6. Deactivated => r \in late
  BY <1>1 DEF CheckedMarks
<1>7. r \in late => IsLoose(t)'
  BY <1>1 DEF IsLoose
<1>8. State(t)' = "loose" \/ (State(t)' = "open" /\ ~Deactivated)
  BY <1>5, <1>6, <1>7, StateNext DEF StateIs
<1> QED
  BY <1>1, <1>3, <1>4, <1>5, <1>8, OneGoes

\* A refresh that is given the next token of its session: the session goes on, or is loose.
LEMMA RenewalStep ==
  ASSUME SessionInv, SessionInv', NEW r \in Request, NEW t \in Token, Issue(r, t), tok[r] # None
  PROVE  [Promised!Next]_Promised!vars
<1> USE DEF SessionInv
<1>1. /\ UNCHANGED <<password, active, raced, halfway>> /\ End(r) /\ stage[r] = "checked"
      /\ token[t] = "unissued" /\ token'[t] = "active" /\ session'[t] = session[tok[r]]
      /\ slipped' = IF r \in late THEN slipped \cup {session[tok[r]]} ELSE slipped
      /\ \A u \in Token \ {t} : session'[u] = session[u]
  BY DEF Issue, TypeOK
<1>2. Refreshing(r) /\ tok[r] \in Token /\ token[tok[r]] # "unissued" /\ held[r] = {tok[r]}
  BY <1>1 DEF StageOK, Sweeping, Refreshing, TypeOK
<1>3. /\ token'[tok[r]] = "revoked"
      /\ \A u \in Token \ {t, tok[r]} : token'[u] = token[u]
  BY <1>1, <1>2 DEF Issue, Revoked, TypeOK
<1>4. UNCHANGED Deactivated
  BY <1>1, DeactivatedKept DEF Deactivating
<1>5. ASSUME NEW s \in Token, s = session[tok[r]]
      PROVE  [Promised!Next]_Promised!vars
  <2>1. token[s] # "unissued" /\ session[s] = s /\ s # t
    BY <1>1, <1>2, <1>5 DEF SessionsKnown
  <2>2. ASSUME NEW x \in Token \ {s} PROVE State(x)' = State(x)
    <3>1. Begun(x)' <=> Begun(x)
      <4>1. CASE x = t
        BY <1>1, <1>5, <2>1, <4>1 DEF Begun
      <4>2. CASE x # t
        BY <1>1, <1>2, <1>3, <4>2 DEF Begun
      <4> QED
        BY <4>1, <4>2
    <3>2. IsLoose(x)' <=> IsLoose(x)
      BY <1>1, <1>5, <2>2 DEF IsLoose
    <3>3. Alive(x)' <=> Alive(x)
      BY <1>1, <1>2, <1>3, <1>5, <2>2 DEF Alive
    <3> QED
      BY <3>1, <3>2, <3>3, SameState
  <2>3. Begun(s) /\ Begun(s)' /\ Alive(s)'
    <3>1. Begun(s)
      BY <2>1 DEF Begun
    <3>2. Begun(s)'
      BY <1>1, <1>2, <1>3, <2>1 DEF Begun
    <3>3. Alive(s)'
      BY <1>1, <1>5 DEF Alive
    <3> QED
      BY <3>1, <3>2, <3>3
  <2>4. IsLoose(s) => IsLoose(s)'
    BY <1>1 DEF IsLoose
  <2>5. r \in late => IsLoose(s)'
    BY <1>1, <1>5 DEF IsLoose
  <2>6. r \notin late /\ ~IsLoose(s) => Alive(s)
    BY <1>2, <1>5 DEF RefreshLive, IsLoose, Alive
  <2>7. State(s)' = State(s) \/ (State(s) \in {"none", "open", "closed"} /\ State(s)' = "loose")
    BY <2>3, <2>4, <2>5, <2>6, StateNow, StateNext DEF StateIs
  <2> QED
    BY <1>1, <1>4, <2>2, <2>7, OneGoes
<1> QED
  BY <1>2, <1>5 DEF TypeOK

\* A step that revokes one token closes its session, if that was open.
LEMMA LossStep ==
  ASSUME SessionInv, SessionInv', NEW t \in Token, token[t] # "unissued",
         token'[t] = "revoked", \A u \in Token \ {t} : token'[u] = token[u],
         UNCHANGED <<password, session, raced, slipped>>, UNCHANGED Deactivated
  PROVE  [Promised!Next]_Promised!vars
<1>1. ASSUME NEW s \in Token, s = session[t]
      PROVE  [Promised!Next]_Promised!vars
  <2>1. \A x \in Token : (Begun(x)' <=> Begun(x)) /\ (IsLoose(x)' <=> IsLoose(x))
    BY DEF Begun, IsLoose
  <2>2. ASSUME NEW x \in Token \ {s} PROVE State(x)' = State(x)
    <3>1. Alive(x)' <=> Alive(x)
      BY <1>1, <2>2 DEF Alive
    <3> QED
      BY <2>1, <3>1, SameState
  <2>3. Alive(s)' => Alive(s)
    BY DEF Alive
  <2>4. State(s)' = State(s) \/ (State(s) = "open" /\ State(s)' = "closed")
    BY <2>1, <2>3, StateNow, StateNext DEF StateIs
  <2> QED
    BY <2>2, <2>4, OneGoes
<1> QED
  BY <1>1 DEF SessionInv, TypeOK

\* A refresh that the disabled account is refused has revoked its token.
LEMMA RefusedStep ==
  ASSUME SessionInv, SessionInv', NEW r \in Request, CheckUser(r), ~active
  PROVE  [Promised!Next]_Promised!vars
<1> USE DEF SessionInv
<1>1. /\ UNCHANGED <<password, active, session, raced, slipped, halfway>>
      /\ token' = Revoked(r) /\ End(r) /\ stage[r] = "rotated"
  BY DEF CheckUser
<1>2. tok[r] \in Token /\ token[tok[r]] # "unissued" /\ held[r] = {tok[r]}
  BY <1>1, NoneAssumption DEF StageOK, Sweeping
<1>3. token'[tok[r]] = "revoked" /\ \A u \in Token \ {tok[r]} : token'[u] = token[u]
  BY <1>1, <1>2 DEF Revoked
<1>4. UNCHANGED Deactivated
  BY <1>1, DeactivatedKept DEF Deactivating
<1> QED
  BY <1>1, <1>2, <1>3, <1>4, LossStep

\* A logout, or a device that is revoked.
LEMMA RevokedStep ==
  ASSUME SessionInv, SessionInv', NEW t \in Token, RevokeOne(t)
  PROVE  [Promised!Next]_Promised!vars
<1>1. /\ UNCHANGED <<password, active, stage, session, raced, slipped, halfway>>
      /\ token[t] = "active" /\ token' = [token EXCEPT ![t] = "revoked"]
  BY DEF RevokeOne, requestVars
<1>2. UNCHANGED Deactivated
  BY <1>1 DEF Deactivated, Deactivating
<1>3. token'[t] = "revoked" /\ \A u \in Token \ {t} : token'[u] = token[u]
  BY <1>1 DEF SessionInv, TypeOK
<1> QED
  BY <1>1, <1>2, <1>3, LossStep

\* What the commit of a sweep does to the sessions: those that are open close, but for the
\* one of the token it keeps.
LEMMA SweptStep ==
  ASSUME SessionInv, SessionInv', NEW r \in Request, Swept(r), NEW x \in Token
  PROVE  /\ State(x) # "open" => State(x)' = State(x)
         /\ State(x) = "open" => State(x)' \in {"open", "closed"}
         /\ State(x)' = "open" => tok[r] \in Token /\ session[tok[r]] = x
<1> USE DEF SessionInv
<1>1. /\ UNCHANGED <<session, raced, slipped>> /\ token' = Revoked(r)
      /\ Sweeping(r) /\ todo[r] = {}
  BY DEF Swept
<1>2. \A u \in Token : u \in held[r] => token[u] = "active"
  BY <1>1 DEF StageOK
<1>3. \A u \in Token : /\ token'[u] = "unissued" <=> token[u] = "unissued"
                       /\ token'[u] = "active" <=> token[u] = "active" /\ u \notin held[r]
  BY <1>1, <1>2 DEF Revoked
<1>4. (Begun(x)' <=> Begun(x)) /\ (IsLoose(x)' <=> IsLoose(x))
  BY <1>1, <1>3 DEF Begun, IsLoose
<1>5. Alive(x)' => Alive(x)
  BY <1>1, <1>3 DEF Alive
<1>6. Alive(x)' /\ ~IsLoose(x) => tok[r] \in Token /\ session[tok[r]] = x
  BY <1>1, <1>3 DEF Alive, IsLoose, SweepCovers
<1> QED
  BY <1>4, <1>5, <1>6, StateNow, StateNext DEF StateIs

\* A password change closes all sessions but the caller's.
LEMMA ChangedStep ==
  ASSUME SessionInv, SessionInv', NEW r \in Request, CommitChange(r)
  PROVE  [Promised!Next]_Promised!vars
<1> USE DEF SessionInv
<1>1. Swept(r) /\ password' = password + 1 /\ UNCHANGED halfway /\ stage[r] = "changing"
  BY DEF CommitChange
<1>2. UNCHANGED Deactivated
  <2>1. End(r) /\ UNCHANGED active
    BY <1>1 DEF Swept
  <2> QED
    BY <1>1, <2>1, DeactivatedKept DEF Deactivating
<1>3. tok[r] \in Token /\ session[tok[r]] \in Token
  BY <1>1 DEF StageOK, TypeOK
<1>4. ASSUME NEW s \in Token, s = session[tok[r]]
      PROVE  [Promised!Next]_Promised!vars
  <2>1. \A x \in Token \ {s} : State(x)' # "open"
    BY <1>1, <1>4, SweptStep
  <2>2. ASSUME State(s)' = "open" PROVE Promised!CloseAllBut({s})
    <3>1. \A x \in Token : State(x)' = IF State(x) = "open" /\ x \notin {s}
                                       THEN "closed" ELSE State(x)
      BY <1>1, <2>1, <2>2, SweptStep
    <3> QED
      BY <3>1, AllClose
  <2>3. ASSUME State(s)' # "open" PROVE Promised!CloseAllBut({})
    <3>1. \A x \in Token : State(x)' = IF State(x) = "open" /\ x \notin {}
                                       THEN "closed" ELSE State(x)
      BY <1>1, <2>1, <2>3, SweptStep
    <3> QED
      BY <3>1, AllClose
  <2>4. \E kept \in {{}, {s}} : Promised!CloseAllBut(kept)
    BY <2>2, <2>3
  <2>5. Promised!ChangePassword
    BY <1>1, <1>2, <2>4 DEF Promised!ChangePassword
  <2> QED
    BY <2>5 DEF Promised!Next
<1> QED
  BY <1>3, <1>4

\* A deactivation closes them all.
LEMMA RevokedAllStep ==
  ASSUME SessionInv, SessionInv', NEW r \in Request, CommitRevoke(r)
  PROVE  [Promised!Next]_Promised!vars
<1> USE DEF SessionInv
<1>1. Swept(r) /\ UNCHANGED password /\ tok[r] = None
  BY DEF CommitRevoke, StageOK
<1>2. \A x \in Token : State(x)' = IF State(x) = "open" /\ x \notin {} THEN "closed" ELSE State(x)
  BY <1>1, SweptStep, NoneAssumption
<1>3. Promised!CloseAllBut({})
  BY <1>2, AllClose
<1>4. Deactivated' \in BOOLEAN
  BY DEF Deactivated
<1>5. Promised!Deactivate
  BY <1>1, <1>3, <1>4 DEF Promised!Deactivate
<1> QED
  BY <1>5 DEF Promised!Next

\* Every step of AuthSessions is one of Sessions, or none.
LEMMA SessionsStep ==
  ASSUME SessionInv, SessionInv', Next
  PROVE  [Promised!Next]_Promised!vars
<1>1. \/ \E r \in Request, t \in Token : FindActive(r, t) \/ Issue(r, t)
      \/ \E r \in Request : CommitChange(r) \/ CommitRevoke(r)
      \/ \E r \in Request : CheckUser(r) /\ ~active
      \/ \E t \in Token : RevokeOne(t)
      \/ UNCHANGED <<password, token, session, raced, slipped>>
  BY DEF Next, RequestStep, TokenStep, UpsertCredential, SweepRow, Rotate, CheckUser, Challenge,
     CheckLogin, Claim, Disable, Sweep, Abort, Enable, historyVars
<1>2. CASE UNCHANGED <<password, token, session, raced, slipped>>
  BY <1>2, QuietStep, RevokedAllStep
<1> QED
  BY <1>1, <1>2, FoundStep, LoginStep, RenewalStep, ChangedStep, RevokedAllStep, RefusedStep,
     RevokedStep

LEMMA SessionsInit == Init => Promised!Init
<1> SUFFICES ASSUME Init PROVE Promised!Init
  OBVIOUS
<1>1. \A x \in Token : State(x) = "none"
  BY DEF Init, State
<1>2. States = [x \in Token |-> "none"]
  BY <1>1 DEF States
<1>3. password = 1 /\ Deactivated = FALSE
  BY DEF Init, Deactivated
<1> QED
  BY <1>2, <1>3 DEF Promised!Init

\* Requests, transactions and sweeps, seen from the sessions, are steps of Sessions
\* (AuthService, AdminQueryService.setUserActive).
THEOREM AccountsImplementSessions == Spec => ImplementsSessions
<1>1. SessionInv /\ SessionInv' /\ [Next]_vars => [Promised!Next]_Promised!vars
  <2> SUFFICES ASSUME SessionInv, SessionInv', [Next]_vars PROVE [Promised!Next]_Promised!vars
    OBVIOUS
  <2>1. CASE UNCHANGED vars
    <3>1. UNCHANGED <<password, States, Deactivated>>
      BY <2>1 DEF vars, requestVars, historyVars, States, State, Deactivated, Deactivating
    <3> QED
      BY <3>1 DEF Promised!vars
  <2> QED
    BY <2>1, SessionsStep
<1> QED
  BY <1>1, SessionsInit, InvAlways, PTL DEF Spec, ImplementsSessions, Promised!Spec
=============================================================================
