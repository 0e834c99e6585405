---------------------------- MODULE Registration ----------------------------
(***************************************************************************)
(* How an account with an e-mail address comes to be: register.clj         *)
(* accountbyemail with its activation link (activation.clj activate-user), *)
(* login.clj login-from-google and login-from-facebook, loginbyemail, and  *)
(* forget-password-by-mail with reset-password-by-mail!.                   *)
(* The id of the next account, the token of the next link and the next     *)
(* reset code wait in atoms from one request to the next; what request r   *)
(* leaves there is written r, what a start of the server puts there is its *)
(* number.                                                                 *)
(***************************************************************************)
EXTENDS Naturals, FiniteSets

CONSTANTS
  Regs,      \* accountbyemail requests
  Oauths,    \* login-from-google and login-from-facebook requests
  Logins,    \* loginbyemail requests
  Acts,      \* followed activation links
  Forgets,   \* forget-password-by-mail requests
  Resets,    \* reset-password-by-mail! requests
  Emails,
  Email,     \* the address in each request
  NoCode,    \* no token: nothing mailed
  Used,      \* the TEMP_TOKEN "x" of a followed link
  ByOauth,   \* the TEMP_TOKEN "0x" of an account a provider vouched for
  Zero,      \* the TEMP_TOKEN 0 of a used reset code
  MaxStarts, \* bound: how often the server restarts
  Faults     \* failures that may happen: a subset of {"mail", "provider"}

Starts == 0 .. MaxStarts
Ids    == Regs \cup Oauths \cup Starts
Tokens == Regs \cup Starts
Pins   == Forgets \cup Starts
RowIds == {"mail", "oauth"} \X Ids
Asking == Regs \cup Oauths \cup Logins \cup Forgets

ASSUME RegistrationAssumption ==
  /\ Regs \cap Oauths = {} /\ Forgets \cap Regs = {}
  /\ (Regs \cup Oauths \cup Forgets) \cap Starts = {}
  /\ Forgets \cap {"idle", "failed", "reset", "crashed"} = {}
  /\ Email \in [Asking -> Emails] /\ NoCode \notin Emails
  /\ {NoCode, Used, ByOauth, Zero} \cap (Ids \cup Pins) = {}
  /\ NoCode \notin {Used, ByOauth, Zero}
  /\ MaxStarts \in Nat
  /\ Faults \subseteq {"mail", "provider"}

VARIABLES
  userId,     \* the atom register.clj:22
  tempToken,  \* the atom register.clj:23
  oauthId,    \* the atom user-id login.clj:25
  pinCode,    \* the atom login.clj:27
  starts,     \* how often the server was restarted
  users,      \* USERS by id
  reg, oauth, login, act, forget, reset,  \* where each request is, or how it ended
  mine,       \* the id a request stored its account under
  link,       \* the mailed link of each registration
  opened,     \* the link each activation follows
  code,       \* the reset code mailed for each request
  disturbed   \* history: registrations whose token another one reset under them

atoms == <<userId, tempToken, oauthId, pinCode>>
pcs   == <<reg, oauth, login, act, forget, reset>>
told  == <<mine, link, opened, code, disturbed>>
vars  == <<atoms, starts, users, pcs, told>>

NoRow  == [email |-> NoCode, temp |-> NoCode, status |-> "none", password |-> FALSE]
NoLink == [id |-> NoCode, token |-> NoCode]

Registering == {"insert", "mail", "resetid", "resettoken"}
Signing     == {"insert", "resetid", "sign"}
Forgetting  == {"store", "mail", "resetpin"}

Row == [email : Emails \cup {NoCode},
        temp : Tokens \cup Pins \cup {NoCode, Used, ByOauth, Zero},
        status : {"none", "inactive", "active"},
        password : BOOLEAN]

TypeOK ==
  /\ userId \in Regs \cup Starts /\ tempToken \in Tokens
  /\ oauthId \in Oauths \cup Starts /\ pinCode \in Pins
  /\ starts \in Starts
  /\ users \in [RowIds -> Row]
  /\ reg \in [Regs -> Registering \cup {"idle", "exists", "blank", "sent", "crashed"}]
  /\ oauth \in [Oauths -> Signing \cup {"idle", "refused", "token", "nobody", "error", "crashed"}]
  /\ login \in [Logins -> {"idle", "refused", "password", "token", "crashed"}]
  /\ act \in [Acts -> {"idle", "matched", "failed", "active", "crashed"}]
  /\ forget \in [Forgets -> Forgetting \cup {"idle", "unknown", "sent", "crashed"}]
  /\ reset \in [Resets -> {"idle", "failed", "reset", "crashed"} \cup Forgets]
  /\ code \in [Forgets -> Pins \cup {NoCode}]
  /\ mine \in [Regs \cup Oauths -> Ids \cup {NoCode}]
  /\ link \in [Regs -> [id : Ids \cup {NoCode}, token : Tokens \cup {NoCode}]]
  /\ opened \in [Acts -> [id : Ids \cup {NoCode}, token : Tokens \cup {NoCode}]]
  /\ disturbed \subseteq Regs

Init ==
  /\ userId = 0 /\ tempToken = 0 /\ oauthId = 0 /\ pinCode = 0 /\ starts = 0
  /\ users = [i \in RowIds |-> NoRow]
  /\ reg = [r \in Regs |-> "idle"]
  /\ oauth = [o \in Oauths |-> "idle"]
  /\ login = [l \in Logins |-> "idle"]
  /\ act = [a \in Acts |-> "idle"]
  /\ forget = [f \in Forgets |-> "idle"]
  /\ reset = [s \in Resets |-> "idle"]
  /\ code = [f \in Forgets |-> NoCode]
  /\ mine = [r \in Regs \cup Oauths |-> NoCode]
  /\ link = [r \in Regs |-> NoLink]
  /\ opened = [a \in Acts |-> NoLink]
  /\ disturbed = {}

(* Two atoms hold ids; what they make is told apart by the atom's name. *)
Stored(i)     == users[i].status # "none"
Exists(email) == \E i \in DOMAIN users : users[i].email = email
Find(email)   == CHOOSE i \in DOMAIN users : users[i].email = email

(* INSERT INTO USERS: ID is the primary key and EMAIL is UNIQUE, though    *)
(* any number of rows may have none.                                       *)
CanInsert(i, email) == ~Stored(i) /\ (email = NoCode \/ ~Exists(email))
Insert(i, email, temp, status, password) ==
  users' = [users EXCEPT ![i] = [email |-> email, temp |-> temp,
                                 status |-> status, password |-> password]]

RegGoto(r, next)   == reg' = [reg EXCEPT ![r] = next]
OauthGoto(o, next) == oauth' = [oauth EXCEPT ![o] = next]

-----------------------------------------------------------------------------
(* accountbyemail *)

regSame == <<oauthId, pinCode, starts, oauth, login, act, forget, reset, opened, code>>

CheckEmail(r) ==
  /\ reg[r] = "idle"
  /\ RegGoto(r, IF Exists(Email[r]) THEN "exists" ELSE "insert")
  /\ UNCHANGED <<userId, tempToken, users, mine, link, disturbed, regSame>>

(* Mutant: the id is replaced as soon as it is stored. *)
InsertMailResets(r) ==
  /\ reg[r] = "insert"
  /\ IF CanInsert(<<"mail", userId>>, Email[r])
     THEN /\ Insert(<<"mail", userId>>, Email[r], tempToken, "inactive", TRUE)
          /\ mine' = [mine EXCEPT ![r] = userId]
          /\ userId' = r
          /\ RegGoto(r, "mail")
     ELSE RegGoto(r, "blank") /\ UNCHANGED <<users, mine, userId>>
  /\ UNCHANGED <<tempToken, link, disturbed, regSame>>

(* A duplicate id or address throws, and neither atom is reset. *)
InsertMail(r) ==
  LET i == <<"mail", userId>> IN
  /\ reg[r] = "insert"
  /\ IF CanInsert(i, Email[r])
     THEN /\ Insert(i, Email[r], tempToken, "inactive", TRUE)
          /\ mine' = [mine EXCEPT ![r] = userId]
          /\ RegGoto(r, "mail")
     ELSE RegGoto(r, "blank") /\ UNCHANGED <<users, mine>>
  /\ UNCHANGED <<userId, tempToken, link, disturbed, regSame>>

(* The link is made from what the atoms hold now; send-mail! swallows      *)
(* what goes wrong.                                                        *)
SendLink(r) ==
  /\ reg[r] = "mail"
  /\ \/ link' = [link EXCEPT ![r] = [id |-> userId, token |-> tempToken]]
     \/ "mail" \in Faults /\ UNCHANGED link
  /\ RegGoto(r, "resetid")
  /\ UNCHANGED <<userId, tempToken, users, mine, disturbed, regSame>>

ResetId(r) ==
  /\ reg[r] = "resetid"
  /\ userId' = r
  /\ RegGoto(r, "resettoken")
  /\ UNCHANGED <<tempToken, users, mine, link, disturbed, regSame>>

ResetToken(r) ==
  /\ reg[r] = "resettoken"
  /\ tempToken' = r
  /\ disturbed' = disturbed \cup {s \in Regs : reg[s] = "mail"}
  /\ RegGoto(r, "sent")
  /\ UNCHANGED <<userId, users, mine, link, regSame>>

-----------------------------------------------------------------------------
(* activate-user *)

(* The token in the link must be the one of the account. *)
OpenLink(a) ==
  /\ act[a] = "idle"
  /\ \E r \in Regs :
       /\ link[r] # NoLink
       /\ opened' = [opened EXCEPT ![a] = link[r]]
       /\ act' = [act EXCEPT ![a] =
                    IF users[<<"mail", link[r].id>>].temp = link[r].token
                    THEN "matched" ELSE "failed"]
  /\ UNCHANGED <<atoms, starts, users, reg, oauth, login, forget, reset, mine,
                 link, code, disturbed>>

(* Mutant: the token goes and the status stays. *)
ActivateHalf(a) ==
  /\ act[a] = "matched"
  /\ users' = [users EXCEPT ![<<"mail", opened[a].id>>].temp = Used]
  /\ act' = [act EXCEPT ![a] = "active"]
  /\ UNCHANGED <<atoms, starts, reg, oauth, login, forget, reset, told>>

(* Mutant: the id of another status is looked up. *)
ActivateVerifies(a) ==
  /\ act[a] = "matched"
  /\ users' = [users EXCEPT ![<<"mail", opened[a].id>>].temp = Used,
                            ![<<"mail", opened[a].id>>].status = "verified"]
  /\ act' = [act EXCEPT ![a] = "active"]
  /\ UNCHANGED <<atoms, starts, reg, oauth, login, forget, reset, told>>

Activate(a) ==
  /\ act[a] = "matched"
  /\ users' = [users EXCEPT ![<<"mail", opened[a].id>>].temp = Used,
                            ![<<"mail", opened[a].id>>].status = "active"]
  /\ act' = [act EXCEPT ![a] = "active"]
  /\ UNCHANGED <<atoms, starts, reg, oauth, login, forget, reset, told>>

-----------------------------------------------------------------------------
(* login-from-google, login-from-facebook *)

oauthSame == <<userId, tempToken, pinCode, starts, reg, login, act, forget, reset,
               link, opened, code, disturbed>>

(* Every step asks the provider again: what it says the address is. *)
Answers(o) == {Email[o]} \cup IF "provider" \in Faults THEN {NoCode} ELSE {}

(* The provider refuses the token, or vouches for the address; nobody has  *)
(* the address of an answer without one.                                   *)
AskProvider(o) ==
  /\ oauth[o] = "idle"
  /\ \/ OauthGoto(o, "refused")
     \/ \E e \in Answers(o) :
          OauthGoto(o, IF e # NoCode /\ Exists(e) THEN "sign" ELSE "insert")
  /\ UNCHANGED <<oauthId, users, mine, oauthSame>>

InsertOauth(o) ==
  LET i == <<"oauth", oauthId>> IN
  /\ oauth[o] = "insert"
  /\ \E e \in Answers(o) :
       IF CanInsert(i, e)
       THEN /\ Insert(i, e, ByOauth, "active", FALSE)
            /\ mine' = [mine EXCEPT ![o] = oauthId]
            /\ OauthGoto(o, "resetid")
       ELSE OauthGoto(o, "error") /\ UNCHANGED <<users, mine>>
  /\ UNCHANGED <<oauthId, oauthSame>>

(* Mutant: the id is kept for the next account. *)
ResetOauthIdNot(o) ==
  /\ oauth[o] = "resetid"
  /\ OauthGoto(o, "sign")
  /\ UNCHANGED <<oauthId, users, mine, oauthSame>>

ResetOauthId(o) ==
  /\ oauth[o] = "resetid"
  /\ oauthId' = o
  /\ OauthGoto(o, "sign")
  /\ UNCHANGED <<users, mine, oauthSame>>

(* The session names the account that has the address, or nobody. *)
SignOauth(o) ==
  /\ oauth[o] = "sign"
  /\ \E e \in Answers(o) :
       OauthGoto(o, IF e # NoCode /\ Exists(e) THEN "token" ELSE "nobody")
  /\ UNCHANGED <<oauthId, users, mine, oauthSame>>

-----------------------------------------------------------------------------
(* loginbyemail: unknown or inactive accounts are refused, then the        *)
(* password is compared; no password matches the "******" of an account    *)
(* that a provider vouched for.                                            *)

(* Mutant: any known account is asked for its password. *)
CheckKnown(l) ==
  /\ login[l] = "idle"
  /\ login' = [login EXCEPT ![l] = IF Exists(Email[l]) THEN "password" ELSE "refused"]
  /\ UNCHANGED <<atoms, starts, users, reg, oauth, act, forget, reset, told>>

CheckActive(l) ==
  /\ login[l] = "idle"
  /\ login' = [login EXCEPT ![l] =
       IF Exists(Email[l]) /\ users[Find(Email[l])].status = "active"
       THEN "password" ELSE "refused"]
  /\ UNCHANGED <<atoms, starts, users, reg, oauth, act, forget, reset, told>>

CheckPassword(l) ==
  /\ login[l] = "password"
  /\ \/ login' = [login EXCEPT ![l] = "refused"]
     \/ /\ users[Find(Email[l])].password
        /\ login' = [login EXCEPT ![l] = "token"]
  /\ UNCHANGED <<atoms, starts, users, reg, oauth, act, forget, reset, told>>

-----------------------------------------------------------------------------
(* forget-password-by-mail *)

ForgetGoto(f, next) == forget' = [forget EXCEPT ![f] = next]
forgetSame == <<userId, tempToken, oauthId, starts, reg, oauth, login, act, reset,
                mine, link, opened, disturbed>>

CheckAccount(f) ==
  /\ forget[f] = "idle"
  /\ ForgetGoto(f, IF Exists(Email[f]) THEN "store" ELSE "unknown")
  /\ UNCHANGED <<pinCode, users, code, forgetSame>>

(* The account becomes active, whatever it was. *)
StorePin(f) ==
  /\ forget[f] = "store"
  /\ users' = [users EXCEPT ![Find(Email[f])].temp = pinCode,
                            ![Find(Email[f])].status = "active"]
  /\ ForgetGoto(f, "mail")
  /\ UNCHANGED <<pinCode, code, forgetSame>>

MailPin(f) ==
  /\ forget[f] = "mail"
  /\ \/ code' = [code EXCEPT ![f] = pinCode]
     \/ "mail" \in Faults /\ UNCHANGED code
  /\ ForgetGoto(f, "resetpin")
  /\ UNCHANGED <<pinCode, users, forgetSame>>

ResetPin(f) ==
  /\ forget[f] = "resetpin"
  /\ pinCode' = f
  /\ ForgetGoto(f, "sent")
  /\ UNCHANGED <<users, code, forgetSame>>

-----------------------------------------------------------------------------
(* reset-password-by-mail!: the mailed code is compared, then the password *)
(* set; s waits in between with the request whose code it has.             *)
CompareCode(s) ==
  /\ reset[s] = "idle"
  /\ \E f \in Forgets :
       /\ code[f] # NoCode
       /\ reset' = [reset EXCEPT ![s] =
            IF users[Find(Email[f])].temp = code[f] THEN f ELSE "failed"]
  /\ UNCHANGED <<atoms, starts, users, reg, oauth, login, act, forget, told>>

SetPassword(s) ==
  /\ reset[s] \in Forgets
  /\ users' = [users EXCEPT ![Find(Email[reset[s]])].temp = Zero,
                            ![Find(Email[reset[s]])].password = TRUE]
  /\ reset' = [reset EXCEPT ![s] = "reset"]
  /\ UNCHANGED <<atoms, starts, reg, oauth, login, act, forget, told>>

-----------------------------------------------------------------------------
(* The server restarts with fresh ids and tokens. *)
Restart ==
  /\ starts < MaxStarts
  /\ starts' = starts + 1
  /\ userId' = starts + 1 /\ tempToken' = starts + 1 /\ oauthId' = starts + 1
  /\ pinCode' = starts + 1
  /\ reg' = [r \in Regs |-> IF reg[r] \in Registering THEN "crashed" ELSE reg[r]]
  /\ oauth' = [o \in Oauths |-> IF oauth[o] \in Signing THEN "crashed" ELSE oauth[o]]
  /\ login' = [l \in Logins |-> IF login[l] = "password" THEN "crashed" ELSE login[l]]
  /\ act' = [a \in Acts |-> IF act[a] = "matched" THEN "crashed" ELSE act[a]]
  /\ forget' = [f \in Forgets |-> IF forget[f] \in Forgetting THEN "crashed" ELSE forget[f]]
  /\ reset' = [s \in Resets |-> IF reset[s] \in Forgets THEN "crashed" ELSE reset[s]]
  /\ UNCHANGED <<users, told>>

Next ==
  \/ \E r \in Regs : \/ CheckEmail(r) \/ InsertMail(r) \/ SendLink(r)
                     \/ ResetId(r) \/ ResetToken(r)
  \/ \E o \in Oauths : \/ AskProvider(o) \/ InsertOauth(o)
                       \/ ResetOauthId(o) \/ SignOauth(o)
  \/ \E a \in Acts : OpenLink(a) \/ Activate(a)
  \/ \E l \in Logins : CheckActive(l) \/ CheckPassword(l)
  \/ \E f \in Forgets : \/ CheckAccount(f) \/ StorePin(f) \/ MailPin(f) \/ ResetPin(f)
  \/ \E s \in Resets : CompareCode(s) \/ SetPassword(s)
  \/ Restart

Spec == Init /\ [][Next]_vars

-----------------------------------------------------------------------------
(* Safety. *)

(***************************************************************************)
(* The id waiting in an atom is free, but for the time between a stored    *)
(* account and the reset that follows: a mail that could not be sent, an   *)
(* address that was taken or a restart never blocks the registrations that *)
(* come later with a duplicate primary key.                                *)
(***************************************************************************)
NextIdIsFree ==
  /\ Stored(<<"mail", userId>>) =>
       \E r \in Regs : mine[r] = userId /\ reg[r] \in {"mail", "resetid"}
  /\ Stored(<<"oauth", oauthId>>) =>
       \E o \in Oauths : mine[o] = oauthId /\ oauth[o] = "resetid"

(***************************************************************************)
(* A mailed link always names the account of the address it was mailed to, *)
(* although its id is read from the atom a second time: only the request   *)
(* that stored an id resets it.                                            *)
(***************************************************************************)
LinkNamesItsAccount ==
  \A r \in Regs : link[r] # NoLink =>
    link[r].id = mine[r] /\ users[<<"mail", link[r].id>>].email = Email[r]

(***************************************************************************)
(* The link of a registration whose token nobody reset between its INSERT  *)
(* and its mail works until the account is active.                         *)
(***************************************************************************)
UndisturbedLinkWorks ==
  \A r \in Regs \ disturbed : link[r] # NoLink =>
    LET row == users[<<"mail", link[r].id>>] IN
    row.temp = link[r].token \/ row.status = "active"

(***************************************************************************)
(* A password gets a session only when somebody opened the link that was   *)
(* mailed to that address, or asked for a reset code for it, which also    *)
(* makes the account active.                                               *)
(***************************************************************************)
Confirmed(email) ==
  \/ \E a \in Acts, r \in Regs :
       opened[a] = link[r] /\ Email[r] = email /\ act[a] \in {"active", "crashed"}
  \/ \E f \in Forgets :
       Email[f] = email /\ forget[f] \in {"mail", "resetpin", "sent", "crashed"}
SessionWasConfirmed == \A l \in Logins : login[l] = "token" => Confirmed(Email[l])

-----------------------------------------------------------------------------
(* What the code says and does not keep. *)

(***************************************************************************)
(* register.clj:52, "a link to activate your account": the link works.     *)
(***************************************************************************)
LinkWorks ==
  \A r \in Regs : link[r] # NoLink =>
    LET row == users[<<"mail", link[r].id>>] IN
    row.temp = link[r].token \/ row.status = "active"

(***************************************************************************)
(* Accounts, links and the values waiting in the atoms agree: the types, the *)
(* account each link names, and the id the next account will get           *)
(* (register.clj:45-49, activation.clj:25, login.clj:161).                 *)
(***************************************************************************)
AccountsAreRight == TypeOK /\ LinkNamesItsAccount /\ NextIdIsFree

-----------------------------------------------------------------------------
(* The inductive invariant: what the steps of the handlers rely on.        *)

Active(email) == \E i \in DOMAIN users : users[i].email = email /\ users[i].status = "active"

(* No two accounts have one address.                                       *)
RowsAgree ==
  /\ \A i \in DOMAIN users : ~Stored(i) => users[i] = NoRow
  /\ \A i, j \in DOMAIN users : users[i].email = users[j].email => i = j \/ users[i].email = NoCode

(* The id of an account is its own, and what waits in user-id was not      *)
(* waiting there before.                                                   *)
MailIdsAgree ==
  /\ \A r \in Regs :
       /\ mine[r] # NoCode => /\ mine[r] \in Tokens /\ Stored(<<"mail", mine[r]>>)
                              /\ users[<<"mail", mine[r]>>].email = Email[r]
       /\ reg[r] \in {"mail", "resetid"} => mine[r] = userId
       /\ reg[r] \in {"idle", "exists", "insert", "blank"} => mine[r] = NoCode
       /\ userId = r \/ Stored(<<"mail", r>>) => reg[r] \in {"resettoken", "sent", "crashed"}
  /\ \A r, s \in Regs : mine[r] = mine[s] => r = s \/ mine[r] = NoCode
  /\ \A n \in Starts : userId = n \/ Stored(<<"mail", n>>) => n <= starts

OauthIdsAgree ==
  /\ \A o \in Oauths :
       /\ mine[o] # NoCode => mine[o] \in Oauths \cup Starts /\ Stored(<<"oauth", mine[o]>>)
       /\ oauth[o] = "resetid" => mine[o] = oauthId
       /\ oauth[o] \in {"idle", "insert"} => mine[o] = NoCode
       /\ oauthId = o \/ Stored(<<"oauth", o>>) =>
            oauth[o] \in {"sign", "token", "nobody", "crashed"}
  /\ \A o, p \in Oauths : mine[o] = mine[p] => o = p \/ mine[o] = NoCode
  /\ \A n \in Starts : oauthId = n \/ Stored(<<"oauth", n>>) => n <= starts

(* A link is mailed once, for the account of its registration, and what    *)
(* was opened is a mailed link.                                            *)
LinksAgree ==
  /\ \A r \in Regs :
       /\ link[r] # NoLink => mine[r] # NoCode /\ reg[r] \notin {"idle", "insert", "mail"}
       /\ reg[r] = "mail" /\ r \notin disturbed =>
            \/ users[<<"mail", mine[r]>>].temp = tempToken
            \/ users[<<"mail", mine[r]>>].status = "active"
  /\ \A a \in Acts : act[a] # "idle" => \E r \in Regs : link[r] # NoLink /\ opened[a] = link[r]

(* Reset codes and logins are for accounts that are active.                *)
CodesAgree ==
  /\ \A f \in Forgets :
       /\ forget[f] = "store" => Exists(Email[f])
       /\ forget[f] \in {"mail", "resetpin", "sent"} => Active(Email[f])
       /\ code[f] # NoCode => Active(Email[f]) /\ forget[f] \in {"resetpin", "sent", "crashed"}
  /\ \A s \in Resets : reset[s] \in Forgets => code[reset[s]] # NoCode
  /\ \A l \in Logins : login[l] = "password" => Active(Email[l])

(* An active account with a password was confirmed.                        *)
PasswordsAgree ==
  \A i \in DOMAIN users :
    users[i].email # NoCode /\ users[i].status = "active" /\ users[i].password = TRUE =>
      Confirmed(users[i].email)

IInv == /\ TypeOK /\ RowsAgree /\ MailIdsAgree /\ OauthIdsAgree /\ LinksAgree
        /\ CodesAgree /\ PasswordsAgree
        /\ NextIdIsFree /\ LinkNamesItsAccount /\ UndisturbedLinkWorks /\ SessionWasConfirmed
=============================================================================
