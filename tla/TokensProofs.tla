---------------------------- MODULE TokensProofs ----------------------------
(***************************************************************************)
(* Proofs about Tokens: for any number of accounts, browsers and requests, *)
(* any durations and any set of edits.                                     *)
(***************************************************************************)
EXTENDS Tokens, TLAPS

\* What a token says.
Claims == [uid : Uid, permission : SUBSET Permission, rating : Rating \cup {0},
           flush : BOOLEAN, exp : Int]

\* The table.
UsersOK ==
  /\ now \in 0..MaxTime
  /\ users \in [Uid -> [rating : Rating \cup {0}, permission : SUBSET Permission]]

\* The locals of a request that the table and the tokens depend on.
CallOK(r) ==
  /\ call[r].op \in {"none", "editPermission", "permission", "editRating", "rating"}
  /\ call[r].op # "none" => call[r].target \in Uid
  /\ call[r].op \in {"editPermission", "permission"} =>
       call[r].permission \subseteq Permission
  /\ call[r].op \in {"editRating", "rating"} => call[r].rating \in Rating

\* The history follows the table.
SeenOK ==
  /\ seen \in [Uid -> Int]
  /\ \A u \in Uid : /\ seen[u] \in -1..now
                    /\ Watched \in users[u].permission => seen[u] = now

\* Token t was signed while the row had what the token says.
Signed(t) ==
  /\ t \in Claims
  /\ Watched \in t.permission => t.exp - (Expires + Refresh) <= seen[t.uid]

\* A browser has a token of each kind, and the refresh token lasts longer.
SessionOK(s) ==
  session[s] # None =>
    /\ Signed(session[s].token) /\ ~session[s].token.flush
    /\ Signed(session[s].flush) /\ session[s].flush.flush
    /\ Refresh > 0 => session[s].flush.exp > session[s].token.exp

TokensInv ==
  /\ UsersOK
  /\ DOMAIN call = Request /\ \A r \in Request : CallOK(r)
  /\ SeenOK
  /\ DOMAIN session = Session /\ \A s \in Session : SessionOK(s)

-----------------------------------------------------------------------------
(* Tokens. *)

\* A token made from the row is signed, and says for how long.
LEMMA NewClaimsSigned ==
  ASSUME UsersOK, SeenOK, NEW uid \in Uid, NEW flush \in BOOLEAN
  PROVE  /\ Signed(NewClaims(uid, flush))
         /\ NewClaims(uid, flush).flush <=> flush
         /\ ~flush => NewClaims(uid, flush).exp = now + Expires
         /\ flush => NewClaims(uid, flush).exp = now + Expires + Refresh
<1> USE TokensAssumption
<1>1. now \in Int /\ users[uid] \in [rating : Rating \cup {0}, permission : SUBSET Permission]
  BY DEF UsersOK
<1>2. NewClaims(uid, flush) \in Claims
  BY <1>1 DEF NewClaims, Claims
<1>3. Watched \in users[uid].permission => seen[uid] = now
  BY DEF SeenOK
<1>4. now + Expires + (IF flush THEN Refresh ELSE 0) - (Expires + Refresh) <= now
  BY <1>1
<1>5. Signed(NewClaims(uid, flush))
  BY <1>1, <1>2, <1>3, <1>4 DEF Signed, NewClaims
<1> QED BY <1>1, <1>5 DEF NewClaims

\* The token of a request is one the browser was given, and has not expired.
LEMMA BearerSigned ==
  ASSUME NEW s \in Session, SessionOK(s), NEW claims \in Bearer(s)
  PROVE  /\ session[s] # None
         /\ claims \in {session[s].token, session[s].flush}
         /\ Signed(claims) /\ claims \in Claims /\ claims.uid \in Uid
         /\ now < claims.exp
  BY DEF Bearer, SessionOK, Signed, Claims, jwtMiddleware

\* What a token was signed for stays true while the history grows.
LEMMA SessionsKept ==
  ASSUME SeenOK, seen' \in [Uid -> Int], \A u \in Uid : seen'[u] >= seen[u],
         session' = session, NEW s \in Session, SessionOK(s)
  PROVE  SessionOK(s)'
<1>1. ASSUME NEW t, Signed(t)
      PROVE  /\ t \in Claims
             /\ Watched \in t.permission => t.exp - (Expires + Refresh) <= seen'[t.uid]
  <2>1. t.uid \in Uid /\ t.exp \in Int /\ t \in Claims
    BY <1>1 DEF Signed, Claims
  <2>2. seen[t.uid] \in Int /\ seen'[t.uid] \in Int /\ seen'[t.uid] >= seen[t.uid]
    BY <2>1 DEF SeenOK
  <2> QED BY <1>1, <2>1, <2>2, TokensAssumption DEF Signed
<1> QED BY <1>1 DEF SessionOK, Signed

\* A table whose rows change at time t.
LEMMA LookStep ==
  ASSUME SeenOK, UsersOK, NEW t \in {now, now + 1}, Look(users', t), now' = t,
         t = now \/ users' = users
  PROVE  SeenOK' /\ seen' \in [Uid -> Int] /\ \A u \in Uid : seen'[u] >= seen[u]
  BY TokensAssumption DEF SeenOK, UsersOK, Look

-----------------------------------------------------------------------------
(* One lemma per handler. *)

\* A request that only changes its own locals.
LEMMA LocalStep ==
  ASSUME TokensInv, NEW r \in Request, NEW locals, Continue(r, locals),
         UNCHANGED <<now, users, session, seen>>,
         locals.op \in {"none", "editPermission", "permission", "editRating", "rating"},
         locals.op # "none" => locals.target \in Uid,
         locals.op \in {"editPermission", "permission"} =>
           locals.permission \subseteq Permission,
         locals.op \in {"editRating", "rating"} => locals.rating \in Rating
  PROVE  TokensInv'
<1>1. DOMAIN call' = Request /\ \A q \in Request : CallOK(q)'
  BY DEF TokensInv, Continue, CallOK
<1>2. UsersOK' /\ SeenOK' /\ DOMAIN session' = Session /\ \A s \in Session : SessionOK(s)'
  BY DEF TokensInv, UsersOK, SeenOK, SessionOK, Signed
<1> QED BY <1>1, <1>2 DEF TokensInv

\* A browser that gets two tokens.
LEMMA AnswerStep ==
  ASSUME TokensInv, NEW s \in Session, NEW token, NEW flush,
         AnswerTokens(s, token, flush),
         Signed(token), ~token.flush, Signed(flush), flush.flush,
         Refresh > 0 => flush.exp > token.exp
  PROVE  TokensInv'
<1>1. DOMAIN session' = Session /\ \A q \in Session : SessionOK(q)'
  <2>1. \A t : Signed(t) => Signed(t)'
    BY DEF Signed, AnswerTokens
  <2>2. /\ DOMAIN session' = Session
        /\ session'[s] = [token |-> token, flush |-> flush]
        /\ \A q \in Session \ {s} : session'[q] = session[q]
    BY DEF TokensInv, AnswerTokens
  <2>3. SessionOK(s)'
    BY <2>1, <2>2 DEF SessionOK
  <2>4. \A q \in Session \ {s} : SessionOK(q)'
    BY <2>1, <2>2 DEF SessionOK, TokensInv
  <2> QED BY <2>2, <2>3, <2>4
<1>2. UsersOK' /\ SeenOK' /\ DOMAIN call' = Request /\ \A r \in Request : CallOK(r)'
  BY DEF TokensInv, UsersOK, SeenOK, CallOK, AnswerTokens
<1> QED BY <1>1, <1>2 DEF TokensInv

\* A login signs both tokens.
LEMMA LoginStep ==
  ASSUME TokensInv, NEW s \in Session, NEW uid \in Uid, UserLogin(s, uid)
  PROVE  TokensInv'
<1> DEFINE token == NewClaims(uid, FALSE)
           fresh == NewClaims(uid, TRUE)
<1>1. /\ Signed(token) /\ ~token.flush /\ token.exp = now + Expires
      /\ Signed(fresh) /\ fresh.flush /\ fresh.exp = now + Expires + Refresh
  BY NewClaimsSigned DEF TokensInv
<1>2. AnswerTokens(s, token, fresh)
  BY DEF UserLogin
<1> HIDE DEF token, fresh
<1>3. now \in Int /\ Expires \in Nat /\ Refresh \in Nat
  BY TokensAssumption DEF TokensInv, UsersOK
<1>4. token.exp = now + Expires /\ fresh.exp = now + Expires + Refresh
  BY <1>1
<1>5. Refresh > 0 => fresh.exp > token.exp
  BY <1>3, <1>4
<1> QED BY <1>1, <1>2, <1>5, AnswerStep

\* A renewal signs the access token again and keeps or renews the other.
LEMMA RenewStep ==
  ASSUME TokensInv, NEW s \in Session, GetTokenWithFlushToken(s)
  PROVE  TokensInv'
<1>1. PICK claims \in Bearer(s) :
        /\ claims.flush
        /\ AnswerTokens(s, Renewed(claims, FALSE),
                        IF Kept(claims) THEN claims ELSE Renewed(claims, TRUE))
  BY DEF GetTokenWithFlushToken
<1>2. Signed(claims) /\ claims \in Claims /\ claims.uid \in Uid
  BY BearerSigned DEF TokensInv
<1> DEFINE token == Renewed(claims, FALSE)
           fresh == Renewed(claims, TRUE)
<1>3. /\ Signed(token) /\ ~token.flush /\ token.exp = now + Expires
      /\ Signed(fresh) /\ fresh.flush /\ fresh.exp = now + Expires + Refresh
  BY <1>2, NewClaimsSigned DEF TokensInv, Renewed
<1> HIDE DEF token, fresh
<1>4. /\ now \in Int /\ Expires \in Nat /\ Refresh \in Nat /\ claims.exp \in Int
      /\ token.exp = now + Expires /\ fresh.exp = now + Expires + Refresh
  BY <1>2, <1>3, TokensAssumption DEF TokensInv, UsersOK, Claims
<1>5. /\ Refresh > 0 => fresh.exp > token.exp
      /\ Kept(claims) => claims.exp > token.exp
  BY <1>4 DEF Kept
<1>6. CASE Kept(claims)
  BY <1>1, <1>2, <1>3, <1>5, <1>6, AnswerStep DEF token
<1>7. CASE ~Kept(claims)
  BY <1>1, <1>3, <1>5, <1>7, AnswerStep DEF token, fresh
<1> QED BY <1>6, <1>7

\* What an edit computes are permissions.
LEMMA ComputeStep ==
  ASSUME TokensInv, NEW r \in Request, ComputePermission(r)
  PROVE  TokensInv'
<1> DEFINE perms == Edited(users[call[r].target].permission, call[r].change)
           locals == [op |-> "permission", target |-> call[r].target, permission |-> perms]
<1>1. call[r].target \in Uid /\ DOMAIN call[r].change \subseteq Permission
  BY DEF TokensInv, CallOK, ComputePermission, MayEdit, Permission
<1>2. perms \subseteq Permission
  BY <1>1 DEF TokensInv, UsersOK, Edited, Grant, Revoke
<1>3. Continue(r, locals) /\ UNCHANGED <<now, users, session, seen>>
  BY DEF ComputePermission
<1> HIDE DEF perms
<1>4. locals.op = "permission" /\ locals.target \in Uid /\ locals.permission \subseteq Permission
  BY <1>1, <1>2
<1> HIDE DEF locals
<1> QED BY <1>3, <1>4, LocalStep

\* A write of the table: the request ends, and the history sees the new row.
LEMMA UpdateStep ==
  ASSUME TokensInv, NEW r \in Request,
         UpdateUserPermission(r) \/ UpdateUserRating(r)
  PROVE  TokensInv'
<1>1. UsersOK' /\ Look(users', now) /\ Continue(r, Idle) /\ UNCHANGED <<now, session>>
  <2>0. UsersOK /\ CallOK(r)
    BY DEF TokensInv
  <2>1. CASE UpdateUserPermission(r)
    BY <2>0, <2>1 DEF CallOK, UsersOK, UpdateUserPermission
  <2>2. CASE UpdateUserRating(r)
    BY <2>0, <2>2 DEF CallOK, UsersOK, UpdateUserRating
  <2> QED BY <2>1, <2>2
<1>2. DOMAIN call' = Request /\ \A q \in Request : CallOK(q)'
  BY <1>1 DEF TokensInv, Continue, CallOK, Idle
<1>3. SeenOK' /\ seen' \in [Uid -> Int] /\ \A u \in Uid : seen'[u] >= seen[u]
  BY <1>1, LookStep DEF TokensInv
<1>4. DOMAIN session' = Session /\ \A s \in Session : SessionOK(s)'
  BY <1>1, <1>3, SessionsKept DEF TokensInv
<1> QED BY <1>1, <1>2, <1>3, <1>4 DEF TokensInv

\* The clock.
LEMMA TickStep ==
  ASSUME TokensInv, Tick
  PROVE  TokensInv'
<1>1. /\ now' = now + 1 /\ Look(users', now + 1)
      /\ UNCHANGED <<users, session, call>>
  BY DEF Tick
<1>2. UsersOK'
  BY TokensAssumption DEF Tick, TokensInv, UsersOK
<1>3. SeenOK' /\ seen' \in [Uid -> Int] /\ \A u \in Uid : seen'[u] >= seen[u]
  BY <1>1, LookStep DEF TokensInv
<1>4. DOMAIN session' = Session /\ \A s \in Session : SessionOK(s)'
  BY <1>1, <1>3, SessionsKept DEF TokensInv
<1>5. DOMAIN call' = Request /\ \A q \in Request : CallOK(q)'
  BY <1>1 DEF TokensInv, CallOK
<1> QED BY <1>2, <1>3, <1>4, <1>5 DEF TokensInv

-----------------------------------------------------------------------------
(* The theorems. *)

\* The inductive invariant: what a token says was true of the row when the
\* token was signed.
THEOREM TokensInvariant == Spec => []TokensInv
<1>1. Init => TokensInv
  BY TokensAssumption DEF Init, TokensInv, UsersOK, CallOK, Idle, SeenOK, SessionOK
<1>2. ASSUME TokensInv, [Next]_vars PROVE TokensInv'
  <2>1. CASE Tick
    BY <1>2, <2>1, TickStep
  <2>2. ASSUME NEW s \in Session, NEW uid \in Uid, UserLogin(s, uid) PROVE TokensInv'
    BY <1>2, <2>2, LoginStep
  <2>3. ASSUME NEW s \in Session, GetTokenWithFlushToken(s) PROVE TokensInv'
    BY <1>2, <2>3, RenewStep
  <2>4. ASSUME NEW r \in Request, NEW s \in Session, NEW target \in Uid,
               NEW change \in Change, EditUserPermission(r, s, target, change)
        PROVE  TokensInv'
    <3>1. PICK claims \in Bearer(s) :
            /\ Continue(r, [op |-> "editPermission", target |-> target, change |-> change,
                            permission |-> users[claims.uid].permission])
            /\ UNCHANGED <<now, users, session, seen>>
      BY <2>4 DEF EditUserPermission
    <3>2. users[claims.uid].permission \subseteq Permission
      BY <1>2, BearerSigned DEF TokensInv, UsersOK
    <3> QED BY <1>2, <3>1, <3>2, LocalStep
  <2>5. ASSUME NEW r \in Request, NEW s \in Session, NEW target \in Uid,
               NEW rating \in Rating, EditUserRating(r, s, target, rating)
        PROVE  TokensInv'
    <3>1. /\ Continue(r, [op |-> "editRating", target |-> target, rating |-> rating])
          /\ UNCHANGED <<now, users, session, seen>>
      BY <2>5 DEF EditUserRating
    <3> QED BY <1>2, <3>1, LocalStep
  <2>6. ASSUME NEW r \in Request, ComputePermission(r) PROVE TokensInv'
    BY <1>2, <2>6, ComputeStep
  <2>7. ASSUME NEW r \in Request, CompareRating(r) PROVE TokensInv'
    <3>1. /\ Continue(r, [op |-> "rating", target |-> call[r].target,
                          rating |-> call[r].rating])
          /\ UNCHANGED <<now, users, session, seen>>
          /\ call[r].target \in Uid /\ call[r].rating \in Rating
      BY <1>2, <2>7 DEF CompareRating, TokensInv, CallOK
    <3> QED BY <1>2, <3>1, LocalStep
  <2>8. ASSUME NEW r \in Request, UpdateUserPermission(r) \/ UpdateUserRating(r)
        PROVE  TokensInv'
    BY <1>2, <2>8, UpdateStep
  <2>9. ASSUME NEW r \in Request, Fail(r) PROVE TokensInv'
    BY <1>2, <2>9, LocalStep DEF Fail, Idle
  <2>10. CASE UNCHANGED vars
    BY <1>2, <2>10 DEF vars, TokensInv, UsersOK, CallOK, SeenOK, SessionOK, Signed
  <2> QED
    BY <1>2, <2>1, <2>2, <2>3, <2>4, <2>5, <2>6, <2>7, <2>8, <2>9, <2>10 DEF Next
<1> QED BY <1>1, <1>2, PTL DEF Spec

\* The table keeps its columns and a browser has a token of each kind.
THEOREM TokensTyped == Spec => []TypeOK
<1>1. TokensInv => TypeOK
  BY DEF TokensInv, TypeOK, UsersOK, CallOK, SeenOK, SessionOK
<1> QED BY <1>1, TokensInvariant, PTL

\* A browser can always renew its tokens after the access token has expired,
\* whatever the two durations are.
THEOREM RefreshTokensOutliveAccess == Spec => []RefreshOutlivesAccess
<1>1. TokensInv => RefreshOutlivesAccess
  BY DEF TokensInv, RefreshOutlivesAccess, SessionOK
<1> QED BY <1>1, TokensInvariant, PTL

\* A revoked permission is answered to for at most Expires + Refresh.
THEOREM RevokedAnswersEnd == Spec => []AnswersAuthorised
<1>1. ASSUME TokensInv PROVE AnswersAuthorised
  <2> SUFFICES ASSUME NEW s \in Session, NEW claims \in Bearer(s), Watched \in Used(claims)
               PROVE  now - seen[claims.uid] <= Expires + Refresh
    BY DEF AnswersAuthorised
  <2>1. Signed(claims) /\ claims \in Claims /\ claims.uid \in Uid /\ now < claims.exp
    BY <1>1, BearerSigned DEF TokensInv
  <2>2. Watched \in claims.permission
    BY DEF Used, GetUserProfile, GetUserList, GetControllerList, GetAuditLogPage, HasPermission
  <2>3. claims.exp \in Int /\ seen[claims.uid] \in Int /\ now \in Int
    BY <1>1, <2>1 DEF Claims, TokensInv, SeenOK, UsersOK
  <2> QED BY <2>1, <2>2, <2>3, TokensAssumption DEF Signed
<1> QED BY <1>1, TokensInvariant, PTL

\* A permission nobody has, writes or edits with is gone for good, for any
\* number of edits side by side.
THEOREM PermissionsComeFromSomewhere == Spec => NoPermissionFromNowhere
<1>1. ASSUME TokensInv, [Next]_vars, NEW perm \in Permission, Extinct(perm)
      PROVE  Extinct(perm)'
  <2>0. /\ \A u \in Uid : perm \notin users[u].permission
        /\ \A r \in Request : call[r].op \in {"editPermission", "permission"} =>
             perm \notin call[r].permission
    BY <1>1 DEF Extinct
  <2>1. ASSUME UNCHANGED users, NEW r \in Request, NEW locals, Continue(r, locals),
               locals.op \in {"editPermission", "permission"} => perm \notin locals.permission
        PROVE  Extinct(perm)'
    BY <1>1, <2>0, <2>1 DEF TokensInv, Continue, Extinct
  <2>2. CASE UNCHANGED <<users, call>>
    BY <2>0, <2>2 DEF Extinct
  <2>3. ASSUME NEW r \in Request, NEW s \in Session, NEW target \in Uid,
               NEW change \in Change, EditUserPermission(r, s, target, change)
        PROVE  Extinct(perm)'
    <3>1. PICK claims \in Bearer(s) :
            /\ Continue(r, [op |-> "editPermission", target |-> target, change |-> change,
                            permission |-> users[claims.uid].permission])
            /\ UNCHANGED users
      BY <2>3 DEF EditUserPermission
    <3>2. perm \notin users[claims.uid].permission
      BY <1>1, <2>0, BearerSigned DEF TokensInv
    <3> QED BY <2>1, <3>1, <3>2
  <2>4. ASSUME NEW r \in Request, NEW s \in Session, NEW target \in Uid,
               NEW rating \in Rating, EditUserRating(r, s, target, rating)
        PROVE  Extinct(perm)'
    BY <2>1, <2>4 DEF EditUserRating
  <2>5. ASSUME NEW r \in Request, ComputePermission(r) PROVE Extinct(perm)'
    <3> DEFINE perms == Edited(users[call[r].target].permission, call[r].change)
    <3>1. /\ Continue(r, [op |-> "permission", target |-> call[r].target, permission |-> perms])
          /\ UNCHANGED users
      BY <2>5 DEF ComputePermission
    <3>2. call[r].target \in Uid /\ perm \notin DOMAIN call[r].change
      BY <1>1, <2>0, <2>5 DEF ComputePermission, MayEdit, HasPermission, TokensInv, CallOK
    <3>3. perm \notin perms
      BY <2>0, <3>2 DEF Edited, Grant, Revoke
    <3> HIDE DEF perms
    <3> QED BY <2>1, <3>1, <3>3
  <2>6. ASSUME NEW r \in Request, UpdateUserPermission(r) PROVE Extinct(perm)'
    <3>1. \A u \in Uid : perm \notin users'[u].permission
      BY <1>1, <2>0, <2>6 DEF UpdateUserPermission, TokensInv, UsersOK
    <3>2. \A q \in Request : call'[q].op \in {"editPermission", "permission"} =>
            perm \notin call'[q].permission
      BY <1>1, <2>0, <2>6 DEF UpdateUserPermission, TokensInv, Continue, Idle
    <3> QED BY <3>1, <3>2 DEF Extinct
  <2>7. ASSUME NEW r \in Request, UpdateUserRating(r) PROVE Extinct(perm)'
    <3>1. \A u \in Uid : perm \notin users'[u].permission
      BY <1>1, <2>0, <2>7 DEF UpdateUserRating, TokensInv, UsersOK
    <3>2. \A q \in Request : call'[q].op \in {"editPermission", "permission"} =>
            perm \notin call'[q].permission
      BY <1>1, <2>0, <2>7 DEF UpdateUserRating, TokensInv, Continue, Idle
    <3> QED BY <3>1, <3>2 DEF Extinct
  <2>8. ASSUME NEW r \in Request, CompareRating(r) \/ Fail(r) PROVE Extinct(perm)'
    BY <2>1, <2>8 DEF CompareRating, Fail, Idle
  <2> QED
    BY <1>1, <2>2, <2>3, <2>4, <2>5, <2>6, <2>7, <2>8
       DEF Next, vars, Tick, UserLogin, GetTokenWithFlushToken, AnswerTokens
<1>2. TokensInv /\ [Next]_vars => [\A perm \in Permission : Extinct(perm) => Extinct(perm)']_vars
  BY <1>1
<1> QED BY <1>2, TokensInvariant, PTL DEF Spec, NoPermissionFromNowhere
=============================================================================
