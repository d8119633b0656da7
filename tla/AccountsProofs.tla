--------------------------- MODULE AccountsProofs ---------------------------
(***************************************************************************)
(* Accounts for any number of users, requests, mailboxes and edits.        *)
(*                                                                         *)
(* A handler verifies a code or a password in one step and writes the row  *)
(* in a later one.  The inductive invariant keeps what was verified with   *)
(* the locals of the handler (LocalsOK); it stays true because rows are    *)
(* never deleted, keep their cid, and the history only grows (Grows).      *)
(***************************************************************************)
EXTENDS Accounts, TLAPS

\* The table: the current password is one the row has had.
UsersOK ==
  /\ users \in [Uid -> Users \cup {None}]
  /\ held \in [Uid -> SUBSET (Password \cup {Empty})]
  /\ \A u \in Uid : users[u] # None => users[u].password \in held[u]
  /\ EmailProved

\* The maps of EmailService.
CodesOK ==
  /\ codes \in [Mailbox -> [code : Code, cid : Cid, expired : BOOLEAN] \cup {None}]
  /\ waiting \subseteq Mailbox
  /\ proved \subseteq Mailbox \X Cid

\* A registration under way has its address proved.
RegisterOK(l) ==
  /\ l.user.username \in Username /\ l.user.email \in Email
  /\ l.user.cid \in Cid /\ l.user.password \in Password
  /\ l.user \in Users
  /\ EmailServer => <<Lower[l.user.email], l.user.cid>> \in proved

\* So has an edit that waits for its code to be spent.
EditOK(l) ==
  /\ l.edit.email \in Email
  /\ EmailServer => <<Lower[l.edit.email], users[l.uid].cid>> \in proved

\* What a write under way may put in the row.
StoreOK(l) ==
  /\ l.info.username \in {None, l.edit.username} /\ l.info.username \in Username \cup {None}
  /\ l.info.username # None => l.edit.username # Empty
  /\ l.info.email \in {None, l.edit.email} /\ l.info.email \in Email \cup {None}
  /\ l.info.email # None => l.edit.email # Empty
  /\ l.info.password \in {None, l.edit.new}
  /\ ~l.skip /\ l.info.password # None => l.edit.new # Empty
  /\ l.info.password \in Password \cup {Empty, None}
  /\ EmailServer /\ ~l.staff /\ l.info.email # None =>
       <<Lower[l.info.email], users[l.uid].cid>> \in proved
  /\ ~l.skip /\ l.info.password # None => l.edit.origin \in held[l.uid]

LocalsOK(l) ==
  /\ l.op \in {"none", "register", "add", "edit", "store"}
  /\ l.op \in {"register", "add"} => RegisterOK(l)
  /\ l.op \in {"edit", "store"} =>
       /\ l.uid \in Uid /\ users[l.uid] # None /\ l.edit \in Edits
       /\ l.edit.origin # Empty => l.edit.new # Empty
  /\ l.op = "edit" => EditOK(l)
  /\ l.op = "store" => StoreOK(l)

AccountsInv ==
  /\ UsersOK /\ CodesOK
  /\ DOMAIN call = Request /\ \A r \in Request : LocalsOK(call[r])

-----------------------------------------------------------------------------
(* What handlers rely on stays true. *)

\* Rows stay and keep their cid; nothing proved or held is forgotten.
Grows ==
  /\ proved \subseteq proved'
  /\ \A u \in Uid : users[u] # None =>
       /\ users'[u] # None /\ users'[u].cid = users[u].cid
       /\ held[u] \subseteq held'[u]

\* What a handler verified stays verified while others write.
LEMMA LocalsKept ==
  ASSUME Grows
  PROVE  \A l : LocalsOK(l) => LocalsOK(l)'
<1> SUFFICES ASSUME NEW l, LocalsOK(l) PROVE LocalsOK(l)'
  OBVIOUS
<1>1. l.op \in {"register", "add"} => RegisterOK(l)'
  BY DEF LocalsOK, RegisterOK, Grows
<1>2. l.op \in {"edit", "store"} =>
        /\ l.uid \in Uid /\ users'[l.uid] # None /\ l.edit \in Edits
        /\ l.edit.origin # Empty => l.edit.new # Empty
  BY DEF LocalsOK, Grows
<1>3. l.op = "edit" => EditOK(l)'
  BY DEF LocalsOK, EditOK, Grows
<1>4. l.op = "store" => StoreOK(l)'
  BY DEF LocalsOK, StoreOK, Grows
<1> QED BY <1>1, <1>2, <1>3, <1>4 DEF LocalsOK

\* A step of r that leaves the table alone; a code may have been given.
LEMMA GiveStep ==
  ASSUME AccountsInv, UNCHANGED <<users, held>>, proved \subseteq proved', CodesOK',
         NEW r \in Request, NEW locals, Continue(r, locals), LocalsOK(locals)'
  PROVE  AccountsInv'
<1>1. UsersOK'
  BY DEF AccountsInv, UsersOK, EmailProved, Rows
<1>2. Grows
  BY DEF Grows
<1>3. /\ DOMAIN call' = Request /\ call'[r] = locals
      /\ \A q \in Request \ {r} : call'[q] = call[q]
  BY DEF Continue, AccountsInv
<1>4. \A q \in Request : LocalsOK(call[q])
  BY DEF AccountsInv
<1>5. \A l : LocalsOK(l) => LocalsOK(l)'
  BY <1>2, LocalsKept
<1>6. \A q \in Request \ {r} : LocalsOK(call[q])'
  <2> TAKE q \in Request \ {r}
  <2>1. LocalsOK(call'[q])
    BY <1>3, <1>4
  <2> QED BY <1>5, <2>1
<1>7. LocalsOK(call[r])'
  BY <1>3
<1> QED BY <1>1, <1>3, <1>6, <1>7 DEF AccountsInv

\* A step of r in which no code is given either.
LEMMA CallStep ==
  ASSUME AccountsInv, UNCHANGED <<users, history>>, CodesOK',
         NEW r \in Request, NEW locals, Continue(r, locals), LocalsOK(locals)
  PROVE  AccountsInv'
<1>1. Grows /\ UNCHANGED <<users, held>> /\ proved \subseteq proved'
  BY DEF Grows, history
<1>2. LocalsOK(locals)'
  BY <1>1, LocalsKept
<1> QED BY <1>1, <1>2, GiveStep

\* A step of r that writes the table and ends the handler.
LEMMA WriteStep ==
  ASSUME AccountsInv, Grows, UsersOK', CodesOK', NEW r \in Request, Answer(r)
  PROVE  AccountsInv'
<1>1. /\ DOMAIN call' = Request /\ call'[r] = Idle
      /\ \A q \in Request \ {r} : call'[q] = call[q]
  BY DEF Answer, Continue, AccountsInv
<1>2. \A q \in Request : LocalsOK(call[q])
  BY DEF AccountsInv
<1>3. LocalsOK(Idle)
  BY DEF LocalsOK, Idle
<1>4. \A l : LocalsOK(l) => LocalsOK(l)'
  BY LocalsKept
<1>5. \A q \in Request : LocalsOK(call'[q])
  BY <1>1, <1>2, <1>3
<1>6. \A q \in Request : LocalsOK(call[q])'
  BY <1>4, <1>5
<1> QED BY <1>1, <1>6 DEF AccountsInv

\* The answer of a handler.
LEMMA AnswerStep ==
  ASSUME AccountsInv, UNCHANGED <<users, history>>, CodesOK', NEW r \in Request, Answer(r)
  PROVE  AccountsInv'
<1>1. LocalsOK(Idle)
  BY DEF LocalsOK, Idle
<1> QED BY <1>1, CallStep DEF Answer

-----------------------------------------------------------------------------
(* Codes. *)

\* A code that passes is the one the mailbox got for the cid, not expired.
LEMMA CodeProves ==
  ASSUME CodesOK, NEW email \in Email, NEW code, NEW cid \in Cid,
         verifyEmailCode(email, code, cid)
  PROVE  /\ Proves(email, code, cid) \subseteq Mailbox \X Cid
         /\ EmailServer => <<Lower[email], cid>> \in Proves(email, code, cid)
<1> DEFINE m == Lower[email]
<1>1. m \in Mailbox
  BY AccountsAssumption
<1>2. Proves(email, code, cid) \subseteq Mailbox \X Cid
  BY <1>1 DEF Proves
<1>3. ASSUME EmailServer PROVE codes[m] = [code |-> code, cid |-> cid, expired |-> FALSE]
  <2>1. codes[m] # None /\ ~codes[m].expired /\ codes[m].code = code /\ codes[m].cid = cid
    BY <1>3 DEF verifyEmailCode, VerifyCode
  <2>2. codes[m] \in [code : Code, cid : Cid, expired : BOOLEAN]
    BY <1>1, <2>1 DEF CodesOK
  <2>3. codes[m].expired = FALSE
    BY <2>1, <2>2
  <2> QED BY <2>1, <2>2, <2>3
<1>4. EmailServer => <<m, cid>> \in Proves(email, code, cid)
  BY <1>3 DEF Proves
<1> QED BY <1>2, <1>4

\* A code is deleted.
LEMMA DeleteKeeps ==
  ASSUME CodesOK, NEW email \in Email, DeleteCode(email), UNCHANGED <<waiting, history>>
  PROVE  CodesOK'
<1>1. Lower[email] \in Mailbox
  BY AccountsAssumption
<1>2. CASE EmailServer
  <2>1. codes' = [codes EXCEPT ![Lower[email]] = None]
    BY <1>2 DEF DeleteCode
  <2> QED BY <1>1, <2>1 DEF CodesOK, history
<1>3. CASE ~EmailServer
  BY <1>3 DEF DeleteCode, CodesOK, history
<1> QED BY <1>2, <1>3

\* Steps of the mail service and the clock, which no handler waits for.
LEMMA MailStep ==
  ASSUME AccountsInv, UNCHANGED <<users, call, held>>, proved \subseteq proved', CodesOK'
  PROVE  AccountsInv'
<1>1. Grows
  BY DEF Grows
<1>2. UsersOK'
  BY DEF AccountsInv, UsersOK, EmailProved, Rows
<1>3. \A l : LocalsOK(l) => LocalsOK(l)'
  BY <1>1, LocalsKept
<1>4. \A q \in Request : LocalsOK(call[q])'
  BY <1>3 DEF AccountsInv
<1> QED BY <1>2, <1>4 DEF AccountsInv

\* A code expires.
LEMMA ExpiresStep ==
  ASSUME AccountsInv, NEW m \in Mailbox, CodeExpires(m)
  PROVE  AccountsInv'
<1>1. /\ codes[m] \in [code : Code, cid : Cid, expired : BOOLEAN]
      /\ codes' = [codes EXCEPT ![m].expired = TRUE]
      /\ UNCHANGED <<users, waiting, call, held, proved>>
  BY DEF CodeExpires, AccountsInv, CodesOK, history
<1> DEFINE entry == [codes[m] EXCEPT !.expired = TRUE]
<1>2. entry \in [code : Code, cid : Cid, expired : BOOLEAN]
  BY <1>1
<1>3. codes' = [codes EXCEPT ![m] = entry] /\ codes[m] # None
  BY <1>1 DEF CodeExpires
<1> HIDE DEF entry
<1>4. CodesOK'
  BY <1>1, <1>2, <1>3 DEF AccountsInv, CodesOK
<1> QED BY <1>1, <1>4, MailStep

\* A mailbox gets a new code.
LEMMA SendStep ==
  ASSUME AccountsInv, NEW email \in Email, NEW cid \in Cid, NEW code \in Code,
         SendEmailVerifyCode(email, cid, code)
  PROVE  AccountsInv'
<1> DEFINE m == Lower[email]
           entry == [code |-> code, cid |-> cid, expired |-> FALSE]
<1>1. /\ codes' = [codes EXCEPT ![m] = entry]
      /\ waiting' = waiting \cup {m}
      /\ UNCHANGED <<users, call, held, proved>>
  BY DEF SendEmailVerifyCode, SendEmailCode, history
<1>2. m \in Mailbox
  BY AccountsAssumption
<1>3. entry \in [code : Code, cid : Cid, expired : BOOLEAN]
  OBVIOUS
<1> HIDE DEF m, entry
<1>4. CodesOK'
  BY <1>1, <1>2, <1>3 DEF AccountsInv, CodesOK
<1> QED BY <1>1, <1>4, MailStep

-----------------------------------------------------------------------------
(* Registration. *)

\* The locals of a registration.
LEMMA RegisterStep ==
  ASSUME AccountsInv, NEW r \in Request, NEW username \in Username, NEW email \in Email,
         NEW cid \in Cid, NEW password \in Password, NEW code \in Code,
         UserRegister(r, RegisterRequest(username, email, cid, password, code))
  PROVE  AccountsInv'
<1> DEFINE req == RegisterRequest(username, email, cid, password, code)
           locals == [op |-> "register", valid |-> Valid(req), user |-> NewUser(req)]
<1>1. /\ Continue(r, locals) /\ UNCHANGED <<users, codes, waiting, held>>
      /\ verifyEmailCode(req.email, req.code, req.cid)
      /\ proved' = proved \cup Proves(req.email, req.code, req.cid)
  BY DEF UserRegister
<1>2. /\ req.email = email /\ req.cid = cid /\ req.username = username
      /\ req.password = password /\ req.code = code
  BY DEF RegisterRequest
<1>3. /\ EmailServer => <<Lower[email], cid>> \in proved'
      /\ proved' \subseteq Mailbox \X Cid /\ proved \subseteq proved'
  <2>1. /\ Proves(email, code, cid) \subseteq Mailbox \X Cid
        /\ EmailServer => <<Lower[email], cid>> \in Proves(email, code, cid)
    BY <1>1, <1>2, CodeProves DEF AccountsInv
  <2> QED BY <1>1, <1>2, <2>1 DEF AccountsInv, CodesOK
<1> HIDE DEF req
<1>4. /\ locals.op = "register"
      /\ locals.user = [username |-> username, email |-> email,
                        cid |-> cid, password |-> password]
  BY <1>2 DEF NewUser
<1> HIDE DEF locals
<1>5. LocalsOK(locals)'
  BY <1>3, <1>4 DEF LocalsOK, RegisterOK, Users
<1>6. CodesOK'
  BY <1>1, <1>3 DEF AccountsInv, CodesOK
<1> QED BY <1>1, <1>3, <1>5, <1>6, GiveStep

\* The code is spent.
LEMMA RegisterVerifiedStep ==
  ASSUME AccountsInv, NEW r \in Request, RegisterVerified(r)
  PROVE  AccountsInv'
<1>1. /\ call[r].op = "register" /\ DeleteCode(call[r].user.email)
      /\ UNCHANGED <<users, waiting, history>>
      /\ \/ Continue(r, [op |-> "add", user |-> call[r].user])
         \/ Answer(r)
  BY DEF RegisterVerified
<1>2. RegisterOK(call[r])
  BY <1>1 DEF AccountsInv, LocalsOK
<1>3. CodesOK'
  BY <1>1, <1>2, DeleteKeeps DEF AccountsInv, RegisterOK
<1>4. LocalsOK([op |-> "add", user |-> call[r].user])
  BY <1>2 DEF LocalsOK, RegisterOK
<1> QED BY <1>1, <1>3, <1>4, CallStep, AnswerStep

\* A new row comes with a proved address.
LEMMA AddStep ==
  ASSUME AccountsInv, NEW r \in Request, AddUser(r)
  PROVE  AccountsInv'
<1> DEFINE user == call[r].user
<1>1. PICK u \in Uid \ Rows :
        /\ users' = [users EXCEPT ![u] = user]
        /\ held' = [held EXCEPT ![u] = {user.password}]
        /\ UNCHANGED <<codes, waiting, proved>>
        /\ Answer(r) /\ call[r].op = "add"
  BY DEF AddUser
<1>2. /\ user \in Users /\ user.password \in Password /\ users[u] = None
      /\ EmailServer => <<Lower[user.email], user.cid>> \in proved
  BY <1>1 DEF AccountsInv, LocalsOK, RegisterOK, Rows
<1> HIDE DEF user
<1>3. UsersOK'
  BY <1>1, <1>2 DEF AccountsInv, UsersOK, EmailProved, Rows
<1>4. CodesOK'
  BY <1>1 DEF AccountsInv, CodesOK
<1>5. Grows
  BY <1>1, <1>2 DEF Grows, AccountsInv, UsersOK
<1> QED BY <1>1, <1>3, <1>4, <1>5, WriteStep

-----------------------------------------------------------------------------
(* Profiles. *)

\* What editUserProfile has verified when it goes on to write.
LEMMA EditKeeps ==
  ASSUME AccountsInv, NEW r \in Request, NEW uid \in Uid, users[uid] # None,
         NEW edit \in Edits, NEW staff \in BOOLEAN, NEW skip \in BOOLEAN,
         editUserProfile(r, uid, edit, staff, skip),
         EmailServer /\ ~staff /\ edit.email # Empty =>
           <<Lower[edit.email], users[uid].cid>> \in proved,
         edit.origin # Empty => edit.new # Empty,
         CodesOK', UNCHANGED <<users, history>>
  PROVE  AccountsInv'
<1> DEFINE info == UpdateInfo(users[uid], edit, skip)
           locals == [op |-> "store", uid |-> uid, edit |-> edit, staff |-> staff,
                      skip |-> skip, info |-> info]
<1>0. /\ edit.username \in Username \cup {Empty} /\ edit.email \in Email \cup {Empty}
      /\ edit.origin \in Password \cup {Empty} /\ edit.new \in Password \cup {Empty}
  BY AccountsAssumption
<1>1. CASE Answer(r)
  BY <1>1, AnswerStep
<1>2. CASE /\ Continue(r, locals)
           /\ edit.origin # Empty /\ ~skip => VerifyUserPassword(users[uid], edit.origin)
  <2>1. /\ info.username \in {None, edit.username} /\ info.username \in Username \cup {None}
        /\ info.email \in {None, edit.email} /\ info.email \in Email \cup {None}
        /\ info.email # None => edit.email # Empty
        /\ info.username # None => edit.username # Empty
    BY <1>0 DEF UpdateInfo
  <2>2. /\ info.password \in {None, edit.new} /\ info.password \in Password \cup {Empty, None}
        /\ info.password # None => edit.origin # Empty \/ skip
    BY <1>0 DEF UpdateInfo, UpdateUserPassword
  <2>3. ~skip /\ info.password # None => edit.origin \in held[uid]
    BY <1>2, <2>2 DEF AccountsInv, UsersOK, VerifyUserPassword
  <2> HIDE DEF info
  <2>4. /\ locals.op = "store" /\ locals.uid = uid /\ locals.edit = edit
        /\ locals.staff = staff /\ locals.skip = skip /\ locals.info = info
    OBVIOUS
  <2> HIDE DEF locals
  <2>5. StoreOK(locals)
    BY <2>1, <2>2, <2>3, <2>4 DEF StoreOK
  <2>6. LocalsOK(locals)
    BY <2>4, <2>5 DEF LocalsOK
  <2> QED BY <1>2, <2>6, CallStep
<1> QED BY <1>1, <1>2 DEF editUserProfile, GetUserByUid

\* A user edits the own profile.
LEMMA EditCurrentStep ==
  ASSUME AccountsInv, NEW r \in Request, NEW u \in Rows, NEW edit \in Edits, NEW code,
         EditCurrentProfile(r, EditCurrentRequest(u, edit, code))
  PROVE  AccountsInv'
<1> DEFINE req == EditCurrentRequest(u, edit, code)
<1>1. /\ req.uid = u /\ req.cid = users[u].cid /\ req.edit = edit
      /\ u \in Uid /\ users[u] # None
  BY DEF EditCurrentRequest, Rows
<1>2. /\ UNCHANGED <<users, codes, waiting, held>>
      /\ edit.origin # Empty => edit.new # Empty
  BY <1>1 DEF EditCurrentProfile, Acceptable
<1>3. CASE edit.email = Empty
  <2>1. editUserProfile(r, u, edit, FALSE, FALSE) /\ UNCHANGED proved
    BY <1>1, <1>3 DEF EditCurrentProfile
  <2>2. CodesOK' /\ UNCHANGED <<users, history>>
    BY <1>2, <2>1 DEF AccountsInv, CodesOK, history
  <2> QED BY <1>1, <1>2, <1>3, <2>1, <2>2, EditKeeps
<1>4. CASE edit.email # Empty
  <2> DEFINE locals == [op |-> "edit", uid |-> u, edit |-> edit]
  <2>1. /\ verifyEmailCode(edit.email, req.code, users[u].cid) /\ Continue(r, locals)
        /\ proved' = proved \cup Proves(edit.email, req.code, users[u].cid)
    BY <1>1, <1>4 DEF EditCurrentProfile
  <2>2. edit.email \in Email /\ users[u].cid \in Cid
    BY <1>1, <1>4, AccountsAssumption DEF AccountsInv, UsersOK, Users
  <2>3. /\ EmailServer => <<Lower[edit.email], users[u].cid>> \in proved'
        /\ proved' \subseteq Mailbox \X Cid /\ proved \subseteq proved'
    <3>1. /\ Proves(edit.email, req.code, users[u].cid) \subseteq Mailbox \X Cid
          /\ EmailServer => <<Lower[edit.email], users[u].cid>> \in
                              Proves(edit.email, req.code, users[u].cid)
      BY <2>1, <2>2, CodeProves DEF AccountsInv
    <3> QED BY <2>1, <3>1 DEF AccountsInv, CodesOK
  <2>4. LocalsOK(locals)'
    BY <1>1, <1>2, <2>2, <2>3 DEF LocalsOK, EditOK
  <2>5. CodesOK'
    BY <1>2, <2>3 DEF AccountsInv, CodesOK
  <2> QED BY <1>2, <2>1, <2>3, <2>4, <2>5, GiveStep
<1> QED BY <1>3, <1>4

\* The edit goes on when its code is spent.
LEMMA EditVerifiedStep ==
  ASSUME AccountsInv, NEW r \in Request, EditVerified(r)
  PROVE  AccountsInv'
<1>1. /\ call[r].op = "edit" /\ DeleteCode(call[r].edit.email)
      /\ editUserProfile(r, call[r].uid, call[r].edit, FALSE, FALSE)
      /\ UNCHANGED <<users, waiting, history>>
  BY DEF EditVerified
<1>2. /\ EditOK(call[r]) /\ call[r].uid \in Uid /\ users[call[r].uid] # None
      /\ call[r].edit \in Edits /\ (call[r].edit.origin # Empty => call[r].edit.new # Empty)
  BY <1>1 DEF AccountsInv, LocalsOK
<1>3. CodesOK'
  BY <1>1, <1>2, DeleteKeeps DEF AccountsInv, EditOK
<1> QED BY <1>1, <1>2, <1>3, EditKeeps DEF EditOK

\* Staff edit a profile.
LEMMA EditStaffStep ==
  ASSUME AccountsInv, NEW r \in Request, NEW u \in Rows, NEW edit \in Edits,
         NEW skip \in BOOLEAN, EditUserProfile(r, EditProfileRequest(u, edit, skip))
  PROVE  AccountsInv'
<1> DEFINE req == EditProfileRequest(u, edit, skip)
<1>1. req.uid = u /\ req.edit = edit /\ req.skip = skip /\ u \in Uid /\ users[u] # None
  BY DEF EditProfileRequest, Rows
<1>2. UNCHANGED <<users, codes, waiting, history>> /\ CodesOK'
  BY DEF EditUserProfile, AccountsInv, CodesOK, history
<1>3. editUserProfile(r, u, edit, TRUE, skip) /\ (edit.origin # Empty => edit.new # Empty)
  BY <1>1 DEF EditUserProfile, Acceptable
<1> QED BY <1>1, <1>2, <1>3, EditKeeps

\* The row a write leaves: each column as it was or as it was asked for.
LEMMA UpdatedRow ==
  ASSUME AccountsInv, NEW r \in Request, call[r].op = "store"
  PROVE  LET uid == call[r].uid
             info == call[r].info
             row == Updated(users[uid], info)
         IN  /\ uid \in Uid /\ users[uid] \in Users /\ users[uid] # None
             /\ StoreOK(call[r])
             /\ row \in Users /\ row.cid = users[uid].cid
             /\ row.username = Column(info.username, users[uid].username)
             /\ row.email = Column(info.email, users[uid].email)
             /\ row.password = Column(info.password, users[uid].password)
<1> DEFINE user == users[call[r].uid]
           info == call[r].info
<1>1. call[r].uid \in Uid /\ StoreOK(call[r]) /\ user # None /\ user \in Users
  BY DEF AccountsInv, LocalsOK, UsersOK
<1>2. /\ Column(info.username, user.username) \in Username
      /\ Column(info.email, user.email) \in Email
      /\ Column(info.password, user.password) \in Password \cup {Empty}
  BY <1>1 DEF StoreOK, Column, Users
<1> HIDE DEF user, info
<1>3. Updated(user, info) =
        [user EXCEPT !.username = Column(info.username, user.username),
                     !.email = Column(info.email, user.email),
                     !.password = Column(info.password, user.password)]
  BY DEF Updated
<1>4. /\ Updated(user, info) \in Users /\ Updated(user, info).cid = user.cid
      /\ Updated(user, info).username = Column(info.username, user.username)
      /\ Updated(user, info).email = Column(info.email, user.email)
      /\ Updated(user, info).password = Column(info.password, user.password)
  BY <1>1, <1>2, <1>3 DEF Users
<1> QED BY <1>1, <1>4 DEF user, info

\* The write keeps addresses proved and passwords remembered.
LEMMA UpdateStep ==
  ASSUME AccountsInv, NEW r \in Request, UpdateUserInfo(r)
  PROVE  AccountsInv'
<1> DEFINE uid == call[r].uid
           info == call[r].info
           row == Updated(users[uid], info)
<1>1. /\ call[r].op = "store" /\ Answer(r) /\ UNCHANGED <<codes, waiting>>
      /\ users' = [users EXCEPT ![uid] = row]
      /\ held' = [held EXCEPT ![uid] = held[uid] \cup {row.password}]
      /\ proved' = IF call[r].staff /\ info.email # None
                   THEN proved \cup {<<Lower[row.email], row.cid>>} ELSE proved
  BY DEF UpdateUserInfo
<1>2. /\ uid \in Uid /\ users[uid] \in Users /\ users[uid] # None
      /\ StoreOK(call[r])
      /\ row \in Users /\ row.cid = users[uid].cid
      /\ row.email = Column(info.email, users[uid].email)
  BY <1>1, UpdatedRow
<1>3. EmailServer => <<Lower[row.email], row.cid>> \in proved'
  <2>1. CASE info.email = None
    BY <1>1, <1>2, <2>1 DEF Column, AccountsInv, UsersOK, EmailProved, Rows
  <2>2. CASE info.email # None /\ call[r].staff
    BY <1>1, <2>2
  <2>3. CASE info.email # None /\ ~call[r].staff
    BY <1>1, <1>2, <2>3 DEF Column, StoreOK
  <2> QED BY <2>1, <2>2, <2>3
<1>4. proved \subseteq proved' /\ proved' \subseteq Mailbox \X Cid
  <2>1. <<Lower[row.email], row.cid>> \in Mailbox \X Cid
    BY <1>2, AccountsAssumption DEF Users
  <2> QED BY <1>1, <2>1 DEF AccountsInv, CodesOK
<1>5. row.password \in Password \cup {Empty}
  BY <1>2 DEF Users
<1> HIDE DEF uid, info, row
<1>6. UsersOK'
  <2>1. /\ users' \in [Uid -> Users \cup {None}]
        /\ held' \in [Uid -> SUBSET (Password \cup {Empty})]
    BY <1>1, <1>2, <1>5 DEF AccountsInv, UsersOK
  <2>2. \A u \in Uid : users'[u] # None => users'[u].password \in held'[u]
    BY <1>1, <1>2 DEF AccountsInv, UsersOK
  <2>3. EmailProved'
    BY <1>1, <1>2, <1>3, <1>4 DEF AccountsInv, UsersOK, EmailProved, Rows
  <2> QED BY <2>1, <2>2, <2>3 DEF UsersOK
<1>7. CodesOK'
  BY <1>1, <1>4 DEF AccountsInv, CodesOK
<1>8. Grows
  <2>1. row # None
    BY <1>2, AccountsAssumption
  <2> QED BY <1>1, <1>2, <1>4, <2>1 DEF Grows, AccountsInv, UsersOK
<1> QED BY <1>1, <1>6, <1>7, <1>8, WriteStep

-----------------------------------------------------------------------------
(* The theorems. *)

\* The inductive invariant: what a handler verified in one step still holds
\* when it writes in a later one.
THEOREM AccountsInvariant == Spec => []AccountsInv
<1>1. Init => AccountsInv
  BY AccountsAssumption
     DEF Init, AccountsInv, UsersOK, CodesOK, LocalsOK, Idle, EmailProved, Rows
<1>2. ASSUME AccountsInv, [Next]_vars PROVE AccountsInv'
  <2>1. CASE Restart
    <3>1. UsersOK' /\ CodesOK'
      BY <1>2, <2>1 DEF Restart, AccountsInv, UsersOK, CodesOK, EmailProved, Rows, history
    <3>2. DOMAIN call' = Request /\ \A r \in Request : LocalsOK(call[r])'
      BY <2>1 DEF Restart, LocalsOK, Idle
    <3> QED BY <3>1, <3>2 DEF AccountsInv
  <2>2. ASSUME NEW m \in Mailbox, CodeExpires(m) PROVE AccountsInv'
    BY <1>2, <2>2, ExpiresStep
  <2>3. ASSUME NEW m \in Mailbox, IntervalEnds(m) PROVE AccountsInv'
    BY <1>2, <2>3, MailStep DEF IntervalEnds, AccountsInv, CodesOK, history
  <2>4. ASSUME NEW email \in Email, NEW cid \in Cid, NEW code \in Code,
               SendEmailVerifyCode(email, cid, code)
        PROVE  AccountsInv'
    BY <1>2, <2>4, SendStep
  <2>5. ASSUME NEW r \in Request, NEW username \in Username, NEW email \in Email,
               NEW cid \in Cid, NEW password \in Password, NEW code \in Code,
               UserRegister(r, RegisterRequest(username, email, cid, password, code))
        PROVE  AccountsInv'
    BY <1>2, <2>5, RegisterStep
  <2>6. ASSUME NEW r \in Request, NEW u \in Rows, NEW edit \in Edits, NEW code \in Code,
               EditCurrentProfile(r, EditCurrentRequest(u, edit, code))
        PROVE  AccountsInv'
    BY <1>2, <2>6, EditCurrentStep
  <2>7. ASSUME NEW r \in Request, NEW u \in Rows, NEW edit \in Edits, NEW skip \in BOOLEAN,
               EditUserProfile(r, EditProfileRequest(u, edit, skip))
        PROVE  AccountsInv'
    BY <1>2, <2>7, EditStaffStep
  <2>8. ASSUME NEW r \in Request, RegisterVerified(r) PROVE AccountsInv'
    BY <1>2, <2>8, RegisterVerifiedStep
  <2>9. ASSUME NEW r \in Request, AddUser(r) PROVE AccountsInv'
    BY <1>2, <2>9, AddStep
  <2>10. ASSUME NEW r \in Request, EditVerified(r) PROVE AccountsInv'
    BY <1>2, <2>10, EditVerifiedStep
  <2>11. ASSUME NEW r \in Request, UpdateUserInfo(r) PROVE AccountsInv'
    BY <1>2, <2>11, UpdateStep
  <2>12. ASSUME NEW r \in Request, Fail(r) PROVE AccountsInv'
    BY <1>2, <2>12, AnswerStep DEF Fail, AccountsInv, CodesOK, history
  <2>13. CASE UNCHANGED vars
    BY <1>2, <2>13, MailStep DEF vars, history, AccountsInv, CodesOK
  <2> QED
    BY <1>2, <2>1, <2>2, <2>3, <2>4, <2>5, <2>6, <2>7, <2>8, <2>9, <2>10, <2>11, <2>12,
       <2>13 DEF Next
<1> QED BY <1>1, <1>2, PTL DEF Spec

\* Rows have their columns; no column is empty but a cleared password.
THEOREM AccountsTyped == Spec => []TypeOK
<1>1. AccountsInv => TypeOK
  BY DEF AccountsInv, UsersOK, CodesOK, LocalsOK, TypeOK
<1> QED BY <1>1, AccountsInvariant, PTL

\* For every account's address the code its mailbox got for its cid was given
\* back unexpired, or staff entered it: RegisterOK, EditOK and StoreOK carry
\* what the look of VerifyCode found to the write, however late it comes.
THEOREM EmailsAreProved == Spec => []EmailProved
<1>1. AccountsInv => EmailProved
  BY DEF AccountsInv, UsersOK
<1> QED BY <1>1, AccountsInvariant, PTL

\* Only the write at the end of an edit changes a row that exists.
LEMMA OnlyEditsWrite ==
  ASSUME AccountsInv, [Next]_vars, NEW u \in Rows, users'[u] # users[u]
  PROVE  \E r \in Request : UpdateUserInfo(r) /\ call[r].uid = u
<1>1. ASSUME NEW r \in Request, AddUser(r) PROVE FALSE
  <2>1. PICK v \in Uid \ Rows : users' = [users EXCEPT ![v] = call[r].user]
    BY <1>1 DEF AddUser
  <2>2. u # v /\ u \in Uid
    BY DEF Rows
  <2> QED BY <2>1, <2>2 DEF AccountsInv, UsersOK
<1>2. ASSUME NEW r \in Request, UpdateUserInfo(r) PROVE call[r].uid = u
  <2>1. users' = [users EXCEPT ![call[r].uid] = Updated(users[call[r].uid], call[r].info)]
    BY <1>2 DEF UpdateUserInfo
  <2> QED BY <2>1 DEF AccountsInv, UsersOK, Rows
<1>3. CASE \E r \in Request : AddUser(r)
  BY <1>1, <1>3
<1>4. CASE \E r \in Request : UpdateUserInfo(r)
  BY <1>2, <1>4
<1>5. users' = users \/ (\E r \in Request : AddUser(r)) \/ \E r \in Request : UpdateUserInfo(r)
  <2>1. CASE \/ Restart
             \/ \E m \in Mailbox : CodeExpires(m) \/ IntervalEnds(m)
             \/ UNCHANGED vars
    BY <2>1, Zenon DEF Restart, CodeExpires, IntervalEnds, vars
  <2>2. CASE \/ \E email \in Email, cid \in Cid, code \in Code :
                  SendEmailVerifyCode(email, cid, code)
             \/ \E r \in Request, username \in Username, email \in Email, cid \in Cid,
                   password \in Password, code \in Code :
                  UserRegister(r, RegisterRequest(username, email, cid, password, code))
    <3>1. ASSUME NEW email, NEW cid, NEW code, SendEmailVerifyCode(email, cid, code)
          PROVE  users' = users
      BY <3>1 DEF SendEmailVerifyCode
    <3>2. ASSUME NEW r, NEW req, UserRegister(r, req) PROVE users' = users
      BY <3>2 DEF UserRegister
    <3> QED BY <2>2, <3>1, <3>2
  <2>3. CASE \E r \in Request, v \in Rows, edit \in Edits :
               \/ \E code \in Code : EditCurrentProfile(r, EditCurrentRequest(v, edit, code))
               \/ \E skip \in BOOLEAN : EditUserProfile(r, EditProfileRequest(v, edit, skip))
    <3>1. ASSUME NEW r, NEW req, EditCurrentProfile(r, req) PROVE users' = users
      BY <3>1, Zenon DEF EditCurrentProfile
    <3>2. ASSUME NEW r, NEW req, EditUserProfile(r, req) PROVE users' = users
      BY <3>2, Zenon DEF EditUserProfile
    <3> QED BY <2>3, <3>1, <3>2
  <2>4. CASE \E r \in Request : RegisterVerified(r) \/ EditVerified(r) \/ Fail(r)
    BY <2>4, Zenon DEF RegisterVerified, EditVerified, Fail
  <2> QED BY <2>1, <2>2, <2>3, <2>4, Zenon DEF Next
<1> QED BY <1>3, <1>4, <1>5

\* The write of r ends its handler.
LEMMA UpdateWrites ==
  ASSUME AccountsInv, NEW r \in Request, UpdateUserInfo(r)
  PROVE  /\ Writes(r, call[r].uid)
         /\ users'[call[r].uid] = Updated(users[call[r].uid], call[r].info)
<1>1. call[r].op = "store" /\ call' = [call EXCEPT ![r] = Idle]
      /\ users' = [users EXCEPT ![call[r].uid] = Updated(users[call[r].uid], call[r].info)]
  BY DEF UpdateUserInfo, Answer, Continue
<1>2. call'[r] = Idle
  BY <1>1 DEF AccountsInv
<1>3. call[r].uid \in Uid
  BY <1>1, UpdatedRow
<1> QED BY <1>1, <1>2, <1>3 DEF Writes, AccountsInv, UsersOK

\* The columns r's write to u may change.
KeepsColumns(r, u) ==
  LET edit == call[r].edit IN
  /\ Writes(r, u)
  /\ users'[u].username # users[u].username =>
       edit.username # Empty /\ users'[u].username = edit.username
  /\ users'[u].email # users[u].email =>
       edit.email # Empty /\ users'[u].email = edit.email
  /\ users'[u].password # users[u].password =>
       /\ users'[u].password = edit.new
       /\ edit.new # Empty \/ call[r].skip

\* An edit changes the name and the address only to new ones its request
\* names, and empties the password only for staff allowed to set passwords.
THEOREM OtherColumnsKept == Spec => EditsKeepOtherColumns
<1>1. ASSUME AccountsInv, [Next]_vars, NEW u \in Rows, users'[u] # users[u]
      PROVE  \E r \in Request : KeepsColumns(r, u)
  <2>1. PICK r \in Request : UpdateUserInfo(r) /\ call[r].uid = u
    BY <1>1, OnlyEditsWrite
  <2>2. Writes(r, u) /\ users'[u] = Updated(users[u], call[r].info) /\ call[r].op = "store"
    BY <1>1, <2>1, UpdateWrites DEF Writes
  <2>3. /\ StoreOK(call[r])
        /\ users'[u].username = Column(call[r].info.username, users[u].username)
        /\ users'[u].email = Column(call[r].info.email, users[u].email)
        /\ users'[u].password = Column(call[r].info.password, users[u].password)
    BY <1>1, <2>1, <2>2, UpdatedRow
  <2>4. KeepsColumns(r, u)
    BY <2>2, <2>3 DEF StoreOK, Column, KeepsColumns
  <2> QED BY <2>4
<1>2. AccountsInv /\ [Next]_vars =>
        [\A u \in Rows : users'[u] # users[u] => \E r \in Request : KeepsColumns(r, u)]_vars
  BY <1>1
<1> QED BY <1>2, AccountsInvariant, PTL DEF Spec, EditsKeepOtherColumns, KeepsColumns

\* A password changes only for someone who knew one the account has had, or
\* by staff allowed to set passwords.
THEOREM PasswordsAreProved == Spec => PasswordProved
<1>1. ASSUME AccountsInv, [Next]_vars, NEW u \in Rows,
             users'[u].password # users[u].password
      PROVE  \E r \in Request :
               Writes(r, u) /\ (call[r].skip \/ call[r].edit.origin \in held[u])
  <2>1. PICK r \in Request : UpdateUserInfo(r) /\ call[r].uid = u
    BY <1>1, OnlyEditsWrite
  <2>2. Writes(r, u) /\ users'[u] = Updated(users[u], call[r].info) /\ call[r].op = "store"
    BY <1>1, <2>1, UpdateWrites DEF Writes
  <2>3. /\ StoreOK(call[r])
        /\ users'[u].password = Column(call[r].info.password, users[u].password)
    BY <1>1, <2>1, <2>2, UpdatedRow
  <2>4. call[r].info.password # None
    BY <1>1, <2>3 DEF Column
  <2> QED BY <2>1, <2>2, <2>3, <2>4 DEF StoreOK
<1>2. AccountsInv /\ [Next]_vars =>
        [\A u \in Rows : users'[u].password # users[u].password =>
           \E r \in Request :
             Writes(r, u) /\ (call[r].skip \/ call[r].edit.origin \in held[u])]_vars
  BY <1>1
<1> QED BY <1>2, AccountsInvariant, PTL DEF Spec, PasswordProved
=============================================================================
