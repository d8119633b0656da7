------------------------------- MODULE Tokens -------------------------------
(***************************************************************************)
(* What a web session may do: access and refresh tokens (JWT), which carry *)
(* a copy of the account's permissions and rating until they expire, and   *)
(* the requests that change permissions and ratings.                       *)
(*                                                                         *)
(* Most handlers trust the copy in the token.  Those that edit permissions *)
(* and ratings read the account again, in one query for the editor and one *)
(* for the target, and write the target in a third step; handlers run      *)
(* concurrently and no transaction spans the three.                        *)
(*                                                                         *)
(* Passwords, the contents of the lists, the mails that announce a change  *)
(* and the audit log are left out; tokens cannot be forged.  A token is     *)
(* signed in the unit of time in which the row was read.                   *)
(***************************************************************************)
EXTENDS Integers

CONSTANTS Uid,             \* accounts
          Administrators,  \* accounts that start with every permission
          Change,          \* permission edits requests send: names to true or false
          Rating,          \* ratings requests send; accounts start with 0
          Ban, Administrator,  \* the lowest and the highest rating
          Expires, Refresh,    \* ExpiresDuration, RefreshDuration
          MaxTime,         \* bound: the clock stops here
          Watched,         \* the permission the history follows
          Session,         \* browsers: each keeps the last tokens it got
          Request,         \* goroutines that handle requests side by side
          None

\* The permissions a request can name, and the two it cannot.
PermissionMap ==
  {"AdminEntry", "UserShowList", "UserGetProfile", "UserEditBaseInfo",
   "UserEditPermission", "UserEditRating", "ActivityPublish",
   "ActivityShowList", "ActivityEdit", "ActivityEditState",
   "ActivityEditPilotState", "ActivityDelete", "ClientSendMessage", "ClientKill"}
Permission == PermissionMap \cup {"UserSetPassword", "AuditLogShow"}

ASSUME TokensAssumption ==
  /\ Administrators \subseteq Uid
  /\ Watched \in Permission
  /\ Expires \in Nat /\ Refresh \in Nat /\ MaxTime \in Nat
  /\ Rating \subseteq Int /\ Ban \in Int /\ Administrator \in Int

VARIABLES
  now,      \* time.Now
  users,    \* the columns permission (a set of bits) and rating
  session,  \* [token, flush] of each browser, None before its first login
  call,     \* what each request goroutine is doing, with its locals
  seen      \* history: when each row last had the permission Watched, or -1

vars == <<now, users, session, call, seen>>

Idle == [op |-> "none"]

Init ==
  /\ now = 0
  /\ users = [u \in Uid |-> [rating |-> 0,
                permission |-> IF u \in Administrators THEN Permission ELSE {}]]
  /\ session = [s \in Session |-> None]
  /\ call = [r \in Request |-> Idle]
  /\ seen = [u \in Uid |-> IF u \in Administrators THEN 0 ELSE -1]

\* seen, when the rows are rows at time t.
Look(rows, t) ==
  seen' = [u \in Uid |-> IF Watched \in rows[u].permission THEN t ELSE seen[u]]

Tick ==
  /\ now < MaxTime
  /\ now' = now + 1
  /\ Look(users, now + 1)
  /\ UNCHANGED <<users, session, call>>

Continue(r, locals) == call' = [call EXCEPT ![r] = locals]

\* A refused or failed edit ends the handler.
Fail(r) ==
  /\ call[r] # Idle
  /\ Continue(r, Idle)
  /\ UNCHANGED <<now, users, session, seen>>

-----------------------------------------------------------------------------
(* Tokens. *)

NewClaims(uid, flush) ==
  [uid |-> uid, permission |-> users[uid].permission, rating |-> users[uid].rating,
   flush |-> flush, exp |-> now + Expires + IF flush THEN Refresh ELSE 0]

\* The middleware admits any token that has not expired; a refresh token
\* passes for an access token.
jwtMiddleware(claims) == now < claims.exp

\* The tokens a request of s can carry.
Bearer(s) ==
  IF session[s] = None THEN {}
  ELSE {t \in {session[s].token, session[s].flush} : jwtMiddleware(t)}

\* The browser keeps the tokens of the answer.
AnswerTokens(s, token, flush) ==
  /\ session' = [session EXCEPT ![s] = [token |-> token, flush |-> flush]]
  /\ UNCHANGED <<now, users, call, seen>>

\* A login with the right password.
UserLogin(s, uid) == AnswerTokens(s, NewClaims(uid, FALSE), NewClaims(uid, TRUE))

\* Variant: the refresh token is kept until it expires.
KeptUntilExpiry(claims) == now < claims.exp

\* A refresh token is kept while it lasts twice as long as an access token.
Kept(claims) == claims.exp - 2 * Expires > now

\* Variant: the claims of the old token are signed again.
RenewedClaims(claims, flush) ==
  [claims EXCEPT !.flush = flush, !.exp = NewClaims(claims.uid, flush).exp]

\* Variant: both tokens are signed as refresh tokens.
FlushClaims(claims, flush) == NewClaims(claims.uid, TRUE)

\* New tokens are made from the row.
Renewed(claims, flush) == NewClaims(claims.uid, flush)

GetTokenWithFlushToken(s) ==
  \E claims \in Bearer(s) :
    /\ claims.flush
    /\ AnswerTokens(s, Renewed(claims, FALSE),
                    IF Kept(claims) THEN claims ELSE Renewed(claims, TRUE))

-----------------------------------------------------------------------------
(* Handlers that trust the token. *)

HasPermission(permission, perm) == perm \in permission

\* They change nothing: whether a token gets an answer is all there is to them.
GetUserProfile(claims) == HasPermission(claims.permission, "UserGetProfile")
GetUserList(claims) == HasPermission(claims.permission, "UserShowList")
GetControllerList(claims) == HasPermission(claims.permission, "UserShowList")
GetAuditLogPage(claims) == HasPermission(claims.permission, "AuditLogShow")

-----------------------------------------------------------------------------
(* Handlers that read the account. *)

\* The editor's row, not the token, must have the permission.
GetUsersAndCheckPermission(uid, perm) ==
  HasPermission(users[uid].permission, perm)

Grant(permission, perms) == permission \cup perms
Revoke(permission, perms) == permission \ perms

\* Variant: any permission can be given away.
MayEditAny(permission, change) == DOMAIN change \subseteq PermissionMap

\* An editor changes only permissions it has itself.
MayEdit(permission, change) ==
  \A key \in DOMAIN change :
    key \in PermissionMap /\ HasPermission(permission, key)

\* The request maps names to true or false.
Edited(permission, change) ==
  Revoke(Grant(permission, {key \in DOMAIN change : change[key]}),
         {key \in DOMAIN change : ~change[key]})

\* GetUsersAndCheckPermission reads the editor first, for both requests.
EditUserPermission(r, s, target, change) ==
  /\ call[r] = Idle
  /\ \E claims \in Bearer(s) :
       /\ GetUsersAndCheckPermission(claims.uid, "UserEditPermission")
       /\ Continue(r, [op |-> "editPermission", target |-> target, change |-> change,
                       permission |-> users[claims.uid].permission])
  /\ UNCHANGED <<now, users, session, seen>>

EditUserRating(r, s, target, rating) ==
  /\ rating \in Ban..Administrator
  /\ call[r] = Idle
  /\ \E claims \in Bearer(s) :
       /\ GetUsersAndCheckPermission(claims.uid, "UserEditRating")
       /\ Continue(r, [op |-> "editRating", target |-> target, rating |-> rating])
  /\ UNCHANGED <<now, users, session, seen>>

\* Then the target, and what is asked is compared with the two rows.
ComputePermission(r) ==
  LET req == call[r]
  IN /\ req.op = "editPermission"
     /\ MayEdit(req.permission, req.change)
     /\ Continue(r, [op |-> "permission", target |-> req.target,
                     permission |-> Edited(users[req.target].permission, req.change)])
     /\ UNCHANGED <<now, users, session, seen>>

CompareRating(r) ==
  LET req == call[r]
  IN /\ req.op = "editRating"
     /\ users[req.target].rating # req.rating
     /\ Continue(r, [op |-> "rating", target |-> req.target, rating |-> req.rating])
     /\ UNCHANGED <<now, users, session, seen>>

\* The bits are written as they were computed, whatever the row has become.
UpdateUserPermission(r) ==
  LET req == call[r]
      rows == [users EXCEPT ![req.target].permission = req.permission]
  IN /\ req.op = "permission"
     /\ users' = rows
     /\ Look(rows, now)
     /\ Continue(r, Idle)
     /\ UNCHANGED <<now, session>>

UpdateUserRating(r) ==
  LET req == call[r]
      rows == [users EXCEPT ![req.target].rating = req.rating]
  IN /\ req.op = "rating"
     /\ users' = rows
     /\ Look(rows, now)
     /\ Continue(r, Idle)
     /\ UNCHANGED <<now, session>>

-----------------------------------------------------------------------------
Next ==
  \/ Tick
  \/ \E s \in Session :
       \/ \E uid \in Uid : UserLogin(s, uid)
       \/ GetTokenWithFlushToken(s)
  \/ \E r \in Request, s \in Session, target \in Uid :
       \/ \E change \in Change : EditUserPermission(r, s, target, change)
       \/ \E rating \in Rating : EditUserRating(r, s, target, rating)
  \/ \E r \in Request :
       \/ ComputePermission(r)
       \/ UpdateUserPermission(r)
       \/ CompareRating(r)
       \/ UpdateUserRating(r)
       \/ Fail(r)

Spec == Init /\ [][Next]_vars

-----------------------------------------------------------------------------
(* Properties. *)

\* A row has its columns, a browser a token of each kind.
TypeOK ==
  /\ now \in 0..MaxTime
  /\ \A u \in Uid : /\ users[u].permission \subseteq Permission
                    /\ users[u].rating \in Rating \cup {0}
  /\ \A s \in Session : session[s] # None =>
       ~session[s].token.flush /\ session[s].flush.flush
  /\ \A r \in Request : call[r].op \in
       {"none", "editPermission", "permission", "editRating", "rating"}
  /\ \A u \in Uid : seen[u] \in -1..now

\* A browser that logs in or renews its tokens always gets time to renew them
\* again after the access token has expired: the refresh token it is left
\* with, kept or new, expires later (GetTokenWithFlushToken).
RefreshOutlivesAccess ==
  \A s \in Session : session[s] # None /\ Refresh > 0 =>
    session[s].flush.exp > session[s].token.exp

\* The permission an answer to the token shows the use of.
Used(claims) ==
     (IF GetUserProfile(claims) THEN {"UserGetProfile"} ELSE {})
\cup (IF GetUserList(claims) \/ GetControllerList(claims) THEN {"UserShowList"} ELSE {})
\cup (IF GetAuditLogPage(claims) THEN {"AuditLogShow"} ELSE {})

\* A list or a profile is shown only to an account that had the permission at
\* most Expires + Refresh ago: the handlers trust the copy in the token, and
\* renewing tokens again and again does not carry a revoked permission
\* further (NewClaims, GetTokenWithFlushToken).
AnswersAuthorised ==
  \A s \in Session : \A claims \in Bearer(s) :
    Watched \in Used(claims) => now - seen[claims.uid] <= Expires + Refresh

Extinct(perm) ==
  /\ \A u \in Uid : perm \notin users[u].permission
  /\ \A r \in Request :
       call[r].op \in {"editPermission", "permission"} => perm \notin call[r].permission

\* A permission that no account has, that no edit under way is about to write
\* and that no editor had when its edit began, is never had again: nobody
\* grants what they lack, however the reads and writes of several edits
\* interleave (EditUserPermission).
NoPermissionFromNowhere ==
  [][\A perm \in Permission : Extinct(perm) => Extinct(perm)']_vars
=============================================================================
