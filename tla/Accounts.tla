------------------------------ MODULE Accounts ------------------------------
(***************************************************************************)
(* Web accounts: verification codes sent by e-mail, registration, and the  *)
(* two ways to edit a profile (one's own, and another's by staff).         *)
(*                                                                         *)
(* Requests are handled concurrently.  What they share is the users table  *)
(* and the two maps of EmailService, which no lock protects: VerifyCode    *)
(* looks a code up in one step and deletes it in another.  A restart,      *)
(* after a crash or by the operator, empties the maps and keeps the table. *)
(*                                                                         *)
(* QQ numbers, avatars and their files, and the audit log are left out.    *)
(* E-mail addresses are spellings, compared as SQLite and PostgreSQL       *)
(* compare them; strings.ToLower maps a spelling to its mailbox.  Of time  *)
(* only two facts matter: whether a code is past VerifyExpiredDuration and *)
(* whether a mailbox is past SendDuration; each comes true at any moment.  *)
(***************************************************************************)
EXTENDS Naturals

CONSTANTS MaxUsers,      \* bound: accounts ever registered
          Cid, Username, Email, Password, Code,  \* what requests send
          Edits,                \* the edits of a profile requests ask for
          Mailbox, Lower,       \* the mailbox of each spelling
          Length, Min, Max,     \* of a string, and the configured limits
          EmailServer,   \* mail is configured
          Request,       \* goroutines that handle requests side by side
          Empty,         \* the empty string: a field left out
          None

Uid == 1..MaxUsers
Field == {"username", "email", "password", "cid"}
Text == Username \cup Email \cup Password \cup {Empty}

\* A row of the table.
Users == [username : Username, email : Email, cid : Cid,
          password : Password \cup {Empty}]

\* nil is no row.
ASSUME AccountsAssumption ==
  /\ MaxUsers \in Nat /\ Cid \subseteq Nat /\ EmailServer \in BOOLEAN
  /\ Edits \subseteq [username : Username \cup {Empty}, email : Email \cup {Empty},
                     origin : Password \cup {Empty}, new : Password \cup {Empty}]
  /\ Lower \in [Email -> Mailbox] /\ Length \in [Text -> Nat]
  /\ Min \in [Field -> Nat] /\ Max \in [Field -> Nat]
  /\ Empty \notin Username \cup Email \cup Password
  /\ None \notin Users

VARIABLES
  users,     \* the users table: a row, or None before it exists
  codes,     \* emailCodes, by mailbox
  waiting,   \* mailboxes whose lastSendTime is less than SendDuration ago
  call,      \* what each request goroutine is doing, with its locals
  proved,    \* history: <<mailbox, cid>> whose code was given back, or staff entered
  held       \* history: the passwords each row has had

vars == <<users, codes, waiting, call, proved, held>>
history == <<proved, held>>

Idle == [op |-> "none"]

Init ==
  /\ users = [u \in Uid |-> None]
  /\ codes = [m \in Mailbox |-> None]
  /\ waiting = {}
  /\ call = [r \in Request |-> Idle]
  /\ proved = {}
  /\ held = [u \in Uid |-> {}]

\* VerifyExpiredDuration passes after a code was made.
CodeExpires(m) ==
  /\ codes[m] # None
  /\ codes' = [codes EXCEPT ![m].expired = TRUE]
  /\ UNCHANGED <<users, waiting, call, history>>

\* SendDuration passes after a mail was sent.
IntervalEnds(m) ==
  /\ m \in waiting
  /\ waiting' = waiting \ {m}
  /\ UNCHANGED <<users, codes, call, history>>

\* The process starts again: its memory is lost.
Restart ==
  /\ codes' = [m \in Mailbox |-> None]
  /\ waiting' = {}
  /\ call' = [r \in Request |-> Idle]
  /\ UNCHANGED <<users, history>>

Continue(r, locals) == call' = [call EXCEPT ![r] = locals]

\* The handler answers, with success or with an error.
Answer(r) == Continue(r, Idle)

\* A failed query, hash or write ends the handler.
Fail(r) ==
  /\ call[r].op \in {"add", "store"}
  /\ Answer(r)
  /\ UNCHANGED <<users, codes, waiting, history>>

-----------------------------------------------------------------------------
(* The users table. *)

Rows == {u \in Uid : users[u] # None}

GetUserByUid(uid) == users[uid]

NewUser(req) == [username |-> req.username, email |-> req.email,
                 cid |-> req.cid, password |-> req.password]

IsUserIdentifierTaken(cid, username, email) ==
  \E u \in Rows : \/ users[u].cid = cid
                  \/ users[u].username = username
                  \/ users[u].email = email

\* Variant: the stored password is not consulted.
VerifyNothing(user, password) == TRUE

VerifyUserPassword(user, password) == user.password = password

-----------------------------------------------------------------------------
(* Requests and their validation. *)

CheckString(field, value) == Length[value] \in Min[field]..Max[field]
CheckInt(field, value) == value \in Min[field]..Max[field]

\* What the web controllers bind; the account comes from the token.
RegisterRequest(username, email, cid, password, code) ==
  [username |-> username, email |-> email, cid |-> cid,
   password |-> password, code |-> code]
EditCurrentRequest(uid, edit, code) ==
  [uid |-> uid, cid |-> users[uid].cid, edit |-> edit, code |-> code]
\* skip: the staff member's token gives the permission to set passwords.
EditProfileRequest(uid, edit, skip) == [uid |-> uid, edit |-> edit, skip |-> skip]

-----------------------------------------------------------------------------
(* Codes by e-mail. *)

\* SendEmailCode replaces the mailbox's code; whether the mail arrives is not
\* waited for.
SendEmailCode(email, cid, code) ==
  LET m == Lower[email] IN
  /\ m \notin waiting
  /\ codes' = [codes EXCEPT ![m] = [code |-> code, cid |-> cid, expired |-> FALSE]]
  /\ waiting' = waiting \cup {m}

SendEmailVerifyCode(email, cid, code) ==
  /\ EmailServer
  /\ cid > 0
  /\ SendEmailCode(email, cid, code)
  /\ UNCHANGED <<users, call, history>>

\* History: what giving this code proves, by the entry in force: the mailbox
\* got it for this cid and it has not expired.
Proves(email, code, cid) ==
  {m \in {Lower[email]} :
     codes[m] = [code |-> code, cid |-> cid, expired |-> FALSE]} \X {cid}

\* Variant: a mailbox that waits for a code may give any.
VerifyCodeAnyCode(email, code, cid) ==
  LET entry == codes[Lower[email]] IN
  EmailServer => entry # None /\ ~entry.expired /\ entry.cid = cid

\* The look of VerifyCode.
VerifyCode(email, code, cid) ==
  LET entry == codes[Lower[email]] IN
  EmailServer => /\ entry # None
                 /\ ~entry.expired
                 /\ entry.code = code
                 /\ entry.cid = cid

\* The end of VerifyCode: whatever code the mailbox has by now is deleted.
DeleteCode(email) ==
  codes' = IF EmailServer THEN [codes EXCEPT ![Lower[email]] = None] ELSE codes

verifyEmailCode(email, code, cid) == VerifyCode(email, code, cid)

-----------------------------------------------------------------------------
(* Registration. *)

\* The validators run after the code is spent: a refused name costs the code.
Valid(req) ==
  /\ CheckString("username", req.username)
  /\ CheckString("email", req.email)
  /\ CheckString("password", req.password)
  /\ CheckInt("cid", req.cid)

UserRegister(r, req) ==
  /\ call[r] = Idle
  /\ Empty \notin {req.username, req.email, req.password}
  /\ req.cid > 0
  /\ verifyEmailCode(req.email, req.code, req.cid)
  /\ Continue(r, [op |-> "register", valid |-> Valid(req), user |-> NewUser(req)])
  /\ proved' = proved \cup Proves(req.email, req.code, req.cid)
  /\ UNCHANGED <<users, codes, waiting, held>>

\* The code is spent and the password hashed, which takes a while.
RegisterVerified(r) ==
  /\ call[r].op = "register"
  /\ DeleteCode(call[r].user.email)
  /\ IF call[r].valid THEN Continue(r, [op |-> "add", user |-> call[r].user])
     ELSE Answer(r)
  /\ UNCHANGED <<users, waiting, history>>

\* One transaction: the look, and the insert under the unique indexes.
AddUser(r) ==
  LET user == call[r].user IN
  /\ call[r].op = "add"
  /\ ~IsUserIdentifierTaken(user.cid, user.username, user.email)
  /\ \E u \in Uid \ Rows :
       /\ \A v \in Uid \ Rows : u <= v
       /\ users' = [users EXCEPT ![u] = user]
       /\ held' = [held EXCEPT ![u] = {user.password}]
  /\ Answer(r)
  /\ UNCHANGED <<codes, waiting, proved>>

-----------------------------------------------------------------------------
(* Profiles. *)

\* The early returns of editUserProfile.  A new password is tested when the
\* old one comes with it.
Acceptable(edit, skip) ==
  /\ edit.origin # Empty => edit.new # Empty /\ CheckString("password", edit.new)
  /\ edit.new # Empty => edit.origin # Empty \/ skip
  /\ edit.username # Empty => CheckString("username", edit.username)
  /\ edit.email # Empty => CheckString("email", edit.email)

\* The password column, None when it is not written.  With skip it is always
\* written, also when the request names no new password.
UpdateUserPassword(edit, skip) ==
  IF edit.origin # Empty \/ skip THEN edit.new ELSE None

\* Variant: a field left out is written too.
UpdateInfoEmpty(user, edit, skip) ==
  [username |-> edit.username, email |-> edit.email,
   password |-> UpdateUserPassword(edit, skip)]

\* Variant: every column is written, as it was read or as it is asked for.
UpdateInfoWhole(user, edit, skip) ==
  [username |-> IF edit.username = Empty THEN user.username ELSE edit.username,
   email |-> IF edit.email = Empty THEN user.email ELSE edit.email,
   password |-> IF edit.origin # Empty \/ skip THEN edit.new ELSE user.password]

\* The columns that differ from the row the handler read.
UpdateInfo(user, edit, skip) ==
  [username |-> IF edit.username \in {Empty, user.username} THEN None
                ELSE edit.username,
   email |-> IF edit.email \in {Empty, user.email} THEN None ELSE edit.email,
   password |-> UpdateUserPassword(edit, skip)]

\* editUserProfile reads the row, looks for the identifiers and verifies the
\* old password against what it read.
editUserProfile(r, uid, edit, staff, skip) ==
  LET user == GetUserByUid(uid) IN
  IF /\ {edit.username, edit.email} # {Empty} =>
          ~IsUserIdentifierTaken(0, edit.username, edit.email)
     /\ edit.origin # Empty /\ ~skip => VerifyUserPassword(user, edit.origin)
  THEN Continue(r, [op |-> "store", uid |-> uid, edit |-> edit, staff |-> staff,
                    skip |-> skip, info |-> UpdateInfo(user, edit, skip)])
  ELSE Answer(r)

\* A new e-mail address needs a code.
EditCurrentProfile(r, req) ==
  /\ call[r] = Idle
  /\ Acceptable(req.edit, FALSE)
  /\ IF req.edit.email = Empty
       THEN /\ editUserProfile(r, req.uid, req.edit, FALSE, FALSE)
            /\ UNCHANGED proved
       ELSE /\ verifyEmailCode(req.edit.email, req.code, req.cid)
            /\ Continue(r, [op |-> "edit", uid |-> req.uid, edit |-> req.edit])
            /\ proved' = proved \cup Proves(req.edit.email, req.code, req.cid)
  /\ UNCHANGED <<users, codes, waiting, held>>

EditVerified(r) ==
  /\ call[r].op = "edit"
  /\ DeleteCode(call[r].edit.email)
  /\ editUserProfile(r, call[r].uid, call[r].edit, FALSE, FALSE)
  /\ UNCHANGED <<users, waiting, history>>

\* Staff edit any profile; no code is asked for.
EditUserProfile(r, req) ==
  /\ call[r] = Idle
  /\ Acceptable(req.edit, req.skip)
  /\ editUserProfile(r, req.uid, req.edit, TRUE, req.skip)
  /\ UNCHANGED <<users, codes, waiting, history>>

Column(new, old) == IF new = None THEN old ELSE new

\* The row after the update of the named columns.
Updated(user, info) ==
  [user EXCEPT !.username = Column(info.username, @),
               !.email = Column(info.email, @),
               !.password = Column(info.password, @)]

\* The write, under the unique indexes.
UpdateUserInfo(r) ==
  LET uid == call[r].uid
      info == call[r].info
      row == Updated(users[uid], info)
  IN /\ call[r].op = "store"
     /\ \A v \in Rows \ {uid} : /\ users[v].username # row.username
                                /\ users[v].email # row.email
     /\ users' = [users EXCEPT ![uid] = row]
     /\ held' = [held EXCEPT ![uid] = @ \cup {row.password}]
     /\ proved' = IF call[r].staff /\ info.email # None
                  THEN proved \cup {<<Lower[row.email], row.cid>>} ELSE proved
     /\ Answer(r)
     /\ UNCHANGED <<codes, waiting>>

-----------------------------------------------------------------------------
Next ==
  \/ Restart
  \/ \E m \in Mailbox : CodeExpires(m) \/ IntervalEnds(m)
  \/ \E email \in Email, cid \in Cid, code \in Code :
       SendEmailVerifyCode(email, cid, code)
  \/ \E r \in Request, username \in Username, email \in Email, cid \in Cid,
        password \in Password, code \in Code :
       UserRegister(r, RegisterRequest(username, email, cid, password, code))
  \/ \E r \in Request, u \in Rows, edit \in Edits :
       \/ \E code \in Code :
            EditCurrentProfile(r, EditCurrentRequest(u, edit, code))
       \/ \E skip \in BOOLEAN :
            EditUserProfile(r, EditProfileRequest(u, edit, skip))
  \/ \E r \in Request :
       \/ RegisterVerified(r)
       \/ AddUser(r)
       \/ EditVerified(r)
       \/ UpdateUserInfo(r)
       \/ Fail(r)

Spec == Init /\ [][Next]_vars

-----------------------------------------------------------------------------
(* Properties. *)

\* Rows have their columns and codes their mailbox; no column is left empty
\* but a password staff have cleared.
TypeOK ==
  /\ users \in [Uid -> Users \cup {None}]
  /\ codes \in [Mailbox -> [code : Code, cid : Cid, expired : BOOLEAN] \cup {None}]
  /\ waiting \subseteq Mailbox
  /\ \A r \in Request : call[r].op \in {"none", "register", "add", "edit", "store"}
  /\ proved \subseteq Mailbox \X Cid
  /\ held \in [Uid -> SUBSET (Password \cup {Empty})]

\* For every account's e-mail address someone gave back the code that mailbox
\* had got for that cid, before it expired, or staff entered it (UserRegister,
\* EditCurrentProfile), although a code is looked up, deleted and followed by
\* the write in separate steps, may be replaced in between, and mailboxes are
\* spelled in any case.
EmailProved ==
  EmailServer =>
    \A u \in Rows : <<Lower[users[u].email], users[u].cid>> \in proved

\* r's handler writes to the row of u in this step.
Writes(r, u) == call[r].op = "store" /\ call[r].uid = u /\ call'[r] = Idle

\* An edit changes the name and the address only when its request names new
\* ones, and only to those, so that requests that overlap do not undo one
\* another (updateInfo in editUserProfile).  It changes the password only to
\* the new one the request names - or, by staff allowed to set passwords, to
\* the empty one when the request names none (UpdateUserPassword runs then).
EditsKeepOtherColumns ==
  [][\A u \in Rows : users'[u] # users[u] =>
       \E r \in Request :
         LET edit == call[r].edit IN
         /\ Writes(r, u)
         /\ users'[u].username # users[u].username =>
              edit.username # Empty /\ users'[u].username = edit.username
         /\ users'[u].email # users[u].email =>
              edit.email # Empty /\ users'[u].email = edit.email
         /\ users'[u].password # users[u].password =>
              /\ users'[u].password = edit.new
              /\ edit.new # Empty \/ call[r].skip]_vars

\* A password changes only for someone who gave a password the account has
\* had, or by staff allowed to set passwords (UpdateUserPassword).
PasswordProved ==
  [][\A u \in Rows : users'[u].password # users[u].password =>
       \E r \in Request :
         Writes(r, u) /\ (call[r].skip \/ call[r].edit.origin \in held[u])]_vars
=============================================================================
