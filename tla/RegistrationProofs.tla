-------------------------- MODULE RegistrationProofs --------------------------
(***************************************************************************)
(* Proofs about Registration for every set of requests and addresses: the  *)
(* inductive invariant and the safety properties it implies.               *)
(***************************************************************************)
EXTENDS Registration, TLAPS

(* Ids, tokens and codes are told apart, and so are the rows of USERS.     *)
LEMMA Kinds ==
  /\ \A q \in Asking : Email[q] \in Emails /\ Email[q] # NoCode
  /\ Regs \subseteq Asking /\ Oauths \subseteq Asking /\ Logins \subseteq Asking /\ Forgets \subseteq Asking
  /\ \A r \in Regs : r \notin Oauths /\ r \notin Starts /\ r # NoCode
  /\ \A o \in Oauths : o \notin Regs /\ o \notin Starts /\ o # NoCode
  /\ \A f \in Forgets : f \notin Starts /\ f # NoCode /\ f \notin {"idle", "failed", "reset", "crashed"}
  /\ \A n \in Starts : n \in Nat /\ n # NoCode
  /\ \A i \in Ids : <<"mail", i>> \in RowIds /\ <<"oauth", i>> \in RowIds
  /\ \A i, j : <<"mail", i>> # <<"oauth", j>>
  /\ \A i, j : <<"mail", i>> = <<"mail", j>> <=> i = j
  /\ \A i, j : <<"oauth", i>> = <<"oauth", j>> <=> i = j
  /\ Tokens \subseteq Ids /\ Regs \subseteq Tokens /\ Starts \subseteq Tokens
  /\ Oauths \cup Starts \subseteq Ids /\ 0 \in Starts
  BY RegistrationAssumption DEF Asking, Ids, RowIds, Tokens, Pins, Starts

LEMMA InitIInv == Init => IInv
  <1> SUFFICES ASSUME Init PROVE IInv
    OBVIOUS
  <1> USE DEF Init
  <1>0. /\ DOMAIN users = RowIds
        /\ \A i \in RowIds : users[i] = NoRow /\ users[i].email = NoCode /\ users[i].status = "none" /\ ~Stored(i)
    BY DEF NoRow, Stored
  <1>a. \A i \in Regs \cup Oauths \cup Starts : ~Stored(<<"mail", i>>) /\ ~Stored(<<"oauth", i>>)
    BY <1>0, Kinds
  <1>b. users \in [RowIds -> Row]
    BY DEF NoRow, Row
  <1>1. TypeOK
    BY <1>b, Kinds, RegistrationAssumption DEF TypeOK, Registering, Signing, Forgetting, NoLink, Pins, Tokens
  <1>2. RowsAgree
    BY <1>0 DEF RowsAgree, Stored, NoRow, Pins, Tokens
  <1>c. /\ \A r \in Regs \cup Oauths : mine[r] = NoCode /\ r # 0
        /\ \A r \in Regs : reg[r] = "idle"
        /\ \A o \in Oauths : oauth[o] = "idle"
        /\ userId = 0 /\ oauthId = 0 /\ starts = 0
    BY Kinds
  <1> HIDE DEF Init
  <1>3. MailIdsAgree
    <2>1. \A n \in Starts : userId = n \/ Stored(<<"mail", n>>) => n <= starts
      <3>1. \A n \in Starts : ~Stored(<<"mail", n>>)
        BY <1>a
      <3>2. 0 <= starts /\ userId = 0
        BY <1>c
      <3>3. QED
        BY <3>1, <3>2
    <2>2. QED
      BY <2>1, <1>a, <1>c DEF MailIdsAgree
  <1>4. OauthIdsAgree
    <2>1. \A n \in Starts : oauthId = n \/ Stored(<<"oauth", n>>) => n <= starts
      <3>1. \A n \in Starts : ~Stored(<<"oauth", n>>)
        BY <1>a
      <3>2. 0 <= starts /\ oauthId = 0
        BY <1>c
      <3>3. QED
        BY <3>1, <3>2
    <2>2. QED
      BY <2>1, <1>a, <1>c DEF OauthIdsAgree
  <1>8. NextIdIsFree
    BY <1>a, <1>c, Kinds DEF NextIdIsFree
  <1> USE DEF Init
  <1>5. LinksAgree
    BY <1>0 DEF LinksAgree, NoRow, Pins, Tokens
  <1>6. CodesAgree
    BY <1>0, Kinds DEF CodesAgree
  <1>7. PasswordsAgree
    BY <1>0 DEF PasswordsAgree, Confirmed, NoRow, Pins, Tokens
  <1>9. LinkNamesItsAccount
    BY <1>0 DEF LinkNamesItsAccount, NoRow, Pins, Tokens
  <1>10. UndisturbedLinkWorks
    BY <1>0 DEF UndisturbedLinkWorks, NoRow, Pins, Tokens
  <1>11. SessionWasConfirmed
    BY <1>0 DEF SessionWasConfirmed, Confirmed, NoRow, Pins, Tokens
  <1>12. QED
    BY <1>1, <1>2, <1>3, <1>4, <1>5, <1>6, <1>7, <1>8, <1>9, <1>10, <1>11 DEF IInv

LEMMA Rows ==
  ASSUME TypeOK
  PROVE  /\ DOMAIN users = RowIds
         /\ \A i \in RowIds : /\ users[i].email \in Emails \cup {NoCode}
                              /\ users[i].temp \in Tokens \cup Pins \cup {NoCode, Used, ByOauth, Zero}
                              /\ users[i].status \in {"none", "inactive", "active"}
                              /\ users[i].password \in BOOLEAN
  BY DEF TypeOK, Row

(* The account found by an address is the one that has it.                 *)
LEMMA Found ==
  ASSUME IInv, NEW email, email # NoCode
  PROVE  /\ Exists(email) => Find(email) \in RowIds /\ users[Find(email)].email = email
         /\ \A i \in RowIds : users[i].email = email => i = Find(email)
         /\ Active(email) => Exists(email) /\ users[Find(email)].status = "active"
         /\ Exists(email) /\ users[Find(email)].status = "active" => Active(email)
  <1>1. DOMAIN users = RowIds
    BY Rows DEF IInv
  <1>2. Exists(email) => Find(email) \in RowIds /\ users[Find(email)].email = email
    BY <1>1 DEF Exists, Find
  <1>3. \A i \in RowIds : users[i].email = email => i = Find(email)
    BY <1>1, <1>2 DEF Exists, RowsAgree, IInv
  <1>4. QED
    BY <1>1, <1>2, <1>3 DEF Active, Exists

LEMMA CheckEmailIInv ==
  ASSUME IInv, NEW r \in Regs, CheckEmail(r)
  PROVE  IInv'
  <1>0. /\ reg[r] = "idle"
        /\ \E next \in {"exists", "insert"} : reg' = [reg EXCEPT ![r] = next]
    BY DEF CheckEmail, RegGoto, regSame
  <1>a. UNCHANGED <<userId, tempToken, oauthId, pinCode, starts, users, oauth, login, act, forget, reset, mine, link, opened, code, disturbed>>
    BY DEF CheckEmail, RegGoto, regSame
  <1>b. /\ reg[r] = "idle" /\ reg'[r] \in {"exists", "insert"}
        /\ \A y \in Regs \ {r} : reg'[y] = reg[y]
    BY <1>0 DEF IInv, TypeOK
  <1>1. TypeOK'
    BY <1>0, <1>a, <1>b, Kinds DEF IInv, TypeOK, Registering, Signing, Forgetting
  <1>2. RowsAgree'
    BY <1>0, <1>a, <1>b, Kinds DEF IInv, RowsAgree, Stored
  <1>3. MailIdsAgree'
    BY <1>0, <1>a, <1>b, Kinds DEF IInv, MailIdsAgree, Stored
  <1>4. OauthIdsAgree'
    BY <1>0, <1>a, <1>b, Kinds DEF IInv, OauthIdsAgree, Stored
  <1>5. LinksAgree'
    BY <1>0, <1>a, <1>b, Kinds DEF IInv, LinksAgree
  <1>6. CodesAgree'
    BY <1>0, <1>a, <1>b, Kinds DEF IInv, CodesAgree, Exists, Active
  <1>7. PasswordsAgree'
    BY <1>0, <1>a, <1>b, Kinds DEF IInv, PasswordsAgree, Confirmed
  <1>8. NextIdIsFree'
    BY <1>0, <1>a, <1>b, Kinds DEF IInv, NextIdIsFree, Stored
  <1>9. LinkNamesItsAccount'
    BY <1>0, <1>a, <1>b, Kinds DEF IInv, LinkNamesItsAccount
  <1>10. UndisturbedLinkWorks'
    BY <1>0, <1>a, <1>b, Kinds DEF IInv, UndisturbedLinkWorks
  <1>11. SessionWasConfirmed'
    BY <1>0, <1>a, <1>b, Kinds DEF IInv, SessionWasConfirmed, Confirmed
  <1>12. QED
    BY <1>1, <1>2, <1>3, <1>4, <1>5, <1>6, <1>7, <1>8, <1>9, <1>10, <1>11 DEF IInv

LEMMA SendLinkIInv ==
  ASSUME IInv, NEW r \in Regs, SendLink(r)
  PROVE  IInv'
  <1>0. /\ reg[r] = "mail"
        /\ \E next \in {"resetid"} : reg' = [reg EXCEPT ![r] = next]
        /\ link' \in {link, [link EXCEPT ![r] = [id |-> userId, token |-> tempToken]]}
    BY DEF SendLink, RegGoto, regSame
  <1>a. UNCHANGED <<userId, tempToken, oauthId, pinCode, starts, users, oauth, login, act, forget, reset, mine, opened, code, disturbed>>
    BY DEF SendLink, RegGoto, regSame
  <1>b. /\ reg[r] = "mail" /\ reg'[r] \in {"resetid"}
        /\ \A y \in Regs \ {r} : reg'[y] = reg[y]
    BY <1>0 DEF IInv, TypeOK
  <1>c. mine[r] = userId /\ mine[r] # NoCode /\ link[r] = NoLink
    BY <1>b, Kinds DEF IInv, MailIdsAgree, LinksAgree, TypeOK
  <1>d. /\ \A s \in Regs \ {r} : link'[s] = link[s]
        /\ link'[r] \in {NoLink, [id |-> mine[r], token |-> tempToken]}
    BY <1>0, <1>c DEF IInv, TypeOK
  <1>e. \A a \in Acts : act[a] # "idle" =>
          \E s \in Regs \ {r} : link[s] # NoLink /\ opened[a] = link[s]
    BY <1>c DEF IInv, LinksAgree
  <1>f. ASSUME NEW email, Confirmed(email) PROVE Confirmed(email)'
    <2>1. CASE \E g \in Forgets : Email[g] = email /\ forget[g] \in {"mail", "resetpin", "sent", "crashed"}
      BY <2>1, <1>a DEF Confirmed
    <2>2. ASSUME NEW a \in Acts, NEW s \in Regs, opened[a] = link[s], Email[s] = email, act[a] \in {"active", "crashed"}
          PROVE  Confirmed(email)'
      <3>1. link[s] # NoLink
        BY <2>2, <1>e
      <3>2. s # r
        BY <3>1, <1>c
      <3>3. QED
        BY <2>2, <3>2, <1>a, <1>d DEF Confirmed
    <2>3. QED
      BY <1>f, <2>1, <2>2 DEF Confirmed
  <1>g. NoLink.id = NoCode /\ [id |-> mine[r], token |-> tempToken].id = mine[r] /\ [id |-> mine[r], token |-> tempToken].token = tempToken
    BY DEF NoLink
  <1>1. TypeOK'
    BY <1>0, <1>a, <1>b, Kinds DEF IInv, TypeOK, Registering, Signing, Forgetting
  <1>2. RowsAgree'
    BY <1>0, <1>a, <1>b, Kinds DEF IInv, RowsAgree, Stored
  <1>3. MailIdsAgree'
    BY <1>0, <1>a, <1>b, Kinds DEF IInv, MailIdsAgree, Stored
  <1>4. OauthIdsAgree'
    BY <1>0, <1>a, <1>b, Kinds DEF IInv, OauthIdsAgree, Stored
  <1>5. LinksAgree'
    <2>1. \A s \in Regs : /\ link'[s] # NoLink => mine[s] # NoCode /\ reg'[s] \notin {"idle", "insert", "mail"}
                          /\ reg'[s] = "mail" /\ s \notin disturbed =>
                               \/ users[<<"mail", mine[s]>>].temp = tempToken
                               \/ users[<<"mail", mine[s]>>].status = "active"
      BY <1>b, <1>c, <1>d DEF IInv, LinksAgree
    <2>2. \A a \in Acts : act[a] # "idle" => \E s \in Regs : link'[s] # NoLink /\ opened[a] = link'[s]
      BY <1>d, <1>e
    <2>3. QED
      BY <1>a, <2>1, <2>2 DEF LinksAgree
  <1>6. CodesAgree'
    BY <1>0, <1>a, <1>b, Kinds DEF IInv, CodesAgree, Exists, Active
  <1>7. PasswordsAgree'
    BY <1>a, <1>f DEF IInv, PasswordsAgree
  <1>8. NextIdIsFree'
    BY <1>0, <1>a, <1>b, Kinds DEF IInv, NextIdIsFree, Stored
  <1>9. LinkNamesItsAccount'
    <2>1. users[<<"mail", mine[r]>>].email = Email[r]
      BY <1>c DEF IInv, MailIdsAgree
    <2>2. \A s \in Regs : link'[s] # NoLink =>
            link'[s].id = mine[s] /\ users[<<"mail", link'[s].id>>].email = Email[s]
      BY <2>1, <1>d, <1>g DEF IInv, LinkNamesItsAccount
    <2>3. QED
      BY <2>2, <1>a DEF LinkNamesItsAccount
  <1>10. UndisturbedLinkWorks'
    BY <1>a, <1>b, <1>c, <1>d, <1>g DEF IInv, UndisturbedLinkWorks, LinksAgree
  <1>11. SessionWasConfirmed'
    BY <1>a, <1>f DEF IInv, SessionWasConfirmed
  <1>12. QED
    BY <1>1, <1>2, <1>3, <1>4, <1>5, <1>6, <1>7, <1>8, <1>9, <1>10, <1>11 DEF IInv

LEMMA ResetIdIInv ==
  ASSUME IInv, NEW r \in Regs, ResetId(r)
  PROVE  IInv'
  <1>0. /\ reg[r] = "resetid"
        /\ \E next \in {"resettoken"} : reg' = [reg EXCEPT ![r] = next]
        /\ userId' = r
    BY DEF ResetId, RegGoto, regSame
  <1>a. UNCHANGED <<tempToken, oauthId, pinCode, starts, users, oauth, login, act, forget, reset, mine, link, opened, code, disturbed>>
    BY DEF ResetId, RegGoto, regSame
  <1>b. /\ reg[r] = "resetid" /\ reg'[r] \in {"resettoken"}
        /\ \A y \in Regs \ {r} : reg'[y] = reg[y]
    BY <1>0 DEF IInv, TypeOK
  <1>c. mine[r] = userId /\ mine[r] # NoCode /\ ~Stored(<<"mail", r>>) /\ userId # r
    BY <1>b, Kinds DEF IInv, MailIdsAgree, TypeOK
  <1>d. \A s \in Regs \ {r} : reg'[s] = reg[s] /\ reg[s] \notin {"mail", "resetid"}
    BY <1>b, <1>c DEF IInv, MailIdsAgree
  <1>e. userId' = r /\ reg'[r] = "resettoken"
    BY <1>0, <1>b
  <1>1. TypeOK'
    BY <1>0, <1>a, <1>b, Kinds DEF IInv, TypeOK, Registering, Signing, Forgetting
  <1>2. RowsAgree'
    BY <1>0, <1>a, <1>b, Kinds DEF IInv, RowsAgree, Stored
  <1>3. MailIdsAgree'
    BY <1>a, <1>c, <1>d, <1>e, Kinds DEF IInv, MailIdsAgree, Stored
  <1>4. OauthIdsAgree'
    BY <1>0, <1>a, <1>b, Kinds DEF IInv, OauthIdsAgree, Stored
  <1>5. LinksAgree'
    BY <1>0, <1>a, <1>b, Kinds DEF IInv, LinksAgree
  <1>6. CodesAgree'
    BY <1>0, <1>a, <1>b, Kinds DEF IInv, CodesAgree, Exists, Active
  <1>7. PasswordsAgree'
    BY <1>0, <1>a, <1>b, Kinds DEF IInv, PasswordsAgree, Confirmed
  <1>8. NextIdIsFree'
    <2>1. ~Stored(<<"mail", userId>>)'
      BY <1>a, <1>c, <1>e DEF Stored
    <2>2. QED
      BY <2>1, <1>a DEF IInv, NextIdIsFree, Stored
  <1>9. LinkNamesItsAccount'
    BY <1>0, <1>a, <1>b, Kinds DEF IInv, LinkNamesItsAccount
  <1>10. UndisturbedLinkWorks'
    BY <1>0, <1>a, <1>b, Kinds DEF IInv, UndisturbedLinkWorks
  <1>11. SessionWasConfirmed'
    BY <1>0, <1>a, <1>b, Kinds DEF IInv, SessionWasConfirmed, Confirmed
  <1>12. QED
    BY <1>1, <1>2, <1>3, <1>4, <1>5, <1>6, <1>7, <1>8, <1>9, <1>10, <1>11 DEF IInv

LEMMA ResetTokenIInv ==
  ASSUME IInv, NEW r \in Regs, ResetToken(r)
  PROVE  IInv'
  <1>0. /\ reg[r] = "resettoken"
        /\ \E next \in {"sent"} : reg' = [reg EXCEPT ![r] = next]
        /\ tempToken' = r
        /\ disturbed' = disturbed \cup {s \in Regs : reg[s] = "mail"}
    BY DEF ResetToken, RegGoto, regSame
  <1>a. UNCHANGED <<userId, oauthId, pinCode, starts, users, oauth, login, act, forget, reset, mine, link, opened, code>>
    BY DEF ResetToken, RegGoto, regSame
  <1>b. /\ reg[r] = "resettoken" /\ reg'[r] \in {"sent"}
        /\ \A y \in Regs \ {r} : reg'[y] = reg[y]
    BY <1>0 DEF IInv, TypeOK
  <1>1. TypeOK'
    BY <1>0, <1>a, <1>b, Kinds DEF IInv, TypeOK, Registering, Signing, Forgetting
  <1>2. RowsAgree'
    BY <1>0, <1>a, <1>b, Kinds DEF IInv, RowsAgree, Stored
  <1>3. MailIdsAgree'
    BY <1>0, <1>a, <1>b, Kinds DEF IInv, MailIdsAgree, Stored
  <1>4. OauthIdsAgree'
    BY <1>0, <1>a, <1>b, Kinds DEF IInv, OauthIdsAgree, Stored
  <1>5. LinksAgree'
    BY <1>0, <1>a, <1>b, Kinds DEF IInv, LinksAgree
  <1>6. CodesAgree'
    BY <1>0, <1>a, <1>b, Kinds DEF IInv, CodesAgree, Exists, Active
  <1>7. PasswordsAgree'
    BY <1>0, <1>a, <1>b, Kinds DEF IInv, PasswordsAgree, Confirmed
  <1>8. NextIdIsFree'
    BY <1>0, <1>a, <1>b, Kinds DEF IInv, NextIdIsFree, Stored
  <1>9. LinkNamesItsAccount'
    BY <1>0, <1>a, <1>b, Kinds DEF IInv, LinkNamesItsAccount
  <1>10. UndisturbedLinkWorks'
    BY <1>0, <1>a, <1>b, Kinds DEF IInv, UndisturbedLinkWorks
  <1>11. SessionWasConfirmed'
    BY <1>0, <1>a, <1>b, Kinds DEF IInv, SessionWasConfirmed, Confirmed
  <1>12. QED
    BY <1>1, <1>2, <1>3, <1>4, <1>5, <1>6, <1>7, <1>8, <1>9, <1>10, <1>11 DEF IInv

LEMMA OpenLinkIInv ==
  ASSUME IInv, NEW a \in Acts, OpenLink(a)
  PROVE  IInv'
  <1>0. /\ act[a] = "idle"
        /\ \E next \in {"matched", "failed"} : act' = [act EXCEPT ![a] = next]
        /\ \E r \in Regs : link[r] # NoLink /\ opened' = [opened EXCEPT ![a] = link[r]]
    BY DEF OpenLink, atoms
  <1>a. UNCHANGED <<userId, tempToken, oauthId, pinCode, starts, users, reg, oauth, login, forget, reset, mine, link, code, disturbed>>
    BY DEF OpenLink, atoms
  <1>b. /\ act[a] = "idle" /\ act'[a] \in {"matched", "failed"}
        /\ \A y \in Acts \ {a} : act'[y] = act[y]
    BY <1>0 DEF IInv, TypeOK
  <1>1. TypeOK'
    BY <1>0, <1>a, <1>b, Kinds DEF IInv, TypeOK, Registering, Signing, Forgetting
  <1>2. RowsAgree'
    BY <1>0, <1>a, <1>b, Kinds DEF IInv, RowsAgree, Stored
  <1>3. MailIdsAgree'
    BY <1>0, <1>a, <1>b, Kinds DEF IInv, MailIdsAgree, Stored
  <1>4. OauthIdsAgree'
    BY <1>0, <1>a, <1>b, Kinds DEF IInv, OauthIdsAgree, Stored
  <1>5. LinksAgree'
    <2>1. PICK r \in Regs : link[r] # NoLink /\ opened' = [opened EXCEPT ![a] = link[r]]
      BY <1>0
    <2>2. opened'[a] = link[r] /\ \A b \in Acts \ {a} : opened'[b] = opened[b]
      BY <2>1 DEF IInv, TypeOK
    <2>3. \A b \in Acts : act'[b] # "idle" => \E s \in Regs : link[s] # NoLink /\ opened'[b] = link[s]
      BY <2>1, <2>2, <1>b DEF IInv, LinksAgree
    <2>4. QED
      BY <2>3, <1>a DEF IInv, LinksAgree
  <1>6. CodesAgree'
    BY <1>0, <1>a, <1>b, Kinds DEF IInv, CodesAgree, Exists, Active
  <1>7. PasswordsAgree'
    BY <1>0, <1>a, <1>b, Kinds DEF IInv, PasswordsAgree, Confirmed
  <1>8. NextIdIsFree'
    BY <1>0, <1>a, <1>b, Kinds DEF IInv, NextIdIsFree, Stored
  <1>9. LinkNamesItsAccount'
    BY <1>0, <1>a, <1>b, Kinds DEF IInv, LinkNamesItsAccount
  <1>10. UndisturbedLinkWorks'
    BY <1>0, <1>a, <1>b, Kinds DEF IInv, UndisturbedLinkWorks
  <1>11. SessionWasConfirmed'
    BY <1>0, <1>a, <1>b, Kinds DEF IInv, SessionWasConfirmed, Confirmed
  <1>12. QED
    BY <1>1, <1>2, <1>3, <1>4, <1>5, <1>6, <1>7, <1>8, <1>9, <1>10, <1>11 DEF IInv

LEMMA AskProviderIInv ==
  ASSUME IInv, NEW o \in Oauths, AskProvider(o)
  PROVE  IInv'
  <1>0. /\ oauth[o] = "idle"
        /\ \E next \in {"refused", "sign", "insert"} : oauth' = [oauth EXCEPT ![o] = next]
    BY DEF AskProvider, OauthGoto, oauthSame
  <1>a. UNCHANGED <<userId, tempToken, oauthId, pinCode, starts, users, reg, login, act, forget, reset, mine, link, opened, code, disturbed>>
    BY DEF AskProvider, OauthGoto, oauthSame
  <1>b. /\ oauth[o] = "idle" /\ oauth'[o] \in {"refused", "sign", "insert"}
        /\ \A y \in Oauths \ {o} : oauth'[y] = oauth[y]
    BY <1>0 DEF IInv, TypeOK
  <1>1. TypeOK'
    BY <1>0, <1>a, <1>b, Kinds DEF IInv, TypeOK, Registering, Signing, Forgetting
  <1>2. RowsAgree'
    BY <1>0, <1>a, <1>b, Kinds DEF IInv, RowsAgree, Stored
  <1>3. MailIdsAgree'
    BY <1>0, <1>a, <1>b, Kinds DEF IInv, MailIdsAgree, Stored
  <1>4. OauthIdsAgree'
    BY <1>0, <1>a, <1>b, Kinds DEF IInv, OauthIdsAgree, Stored
  <1>5. LinksAgree'
    BY <1>0, <1>a, <1>b, Kinds DEF IInv, LinksAgree
  <1>6. CodesAgree'
    BY <1>0, <1>a, <1>b, Kinds DEF IInv, CodesAgree, Exists, Active
  <1>7. PasswordsAgree'
    BY <1>0, <1>a, <1>b, Kinds DEF IInv, PasswordsAgree, Confirmed
  <1>8. NextIdIsFree'
    BY <1>0, <1>a, <1>b, Kinds DEF IInv, NextIdIsFree, Stored
  <1>9. LinkNamesItsAccount'
    BY <1>0, <1>a, <1>b, Kinds DEF IInv, LinkNamesItsAccount
  <1>10. UndisturbedLinkWorks'
    BY <1>0, <1>a, <1>b, Kinds DEF IInv, UndisturbedLinkWorks
  <1>11. SessionWasConfirmed'
    BY <1>0, <1>a, <1>b, Kinds DEF IInv, SessionWasConfirmed, Confirmed
  <1>12. QED
    BY <1>1, <1>2, <1>3, <1>4, <1>5, <1>6, <1>7, <1>8, <1>9, <1>10, <1>11 DEF IInv

LEMMA ResetOauthIdIInv ==
  ASSUME IInv, NEW o \in Oauths, ResetOauthId(o)
  PROVE  IInv'
  <1>0. /\ oauth[o] = "resetid"
        /\ \E next \in {"sign"} : oauth' = [oauth EXCEPT ![o] = next]
        /\ oauthId' = o
    BY DEF ResetOauthId, OauthGoto, oauthSame
  <1>a. UNCHANGED <<userId, tempToken, pinCode, starts, users, reg, login, act, forget, reset, mine, link, opened, code, disturbed>>
    BY DEF ResetOauthId, OauthGoto, oauthSame
  <1>b. /\ oauth[o] = "resetid" /\ oauth'[o] \in {"sign"}
        /\ \A y \in Oauths \ {o} : oauth'[y] = oauth[y]
    BY <1>0 DEF IInv, TypeOK
  <1>c. mine[o] = oauthId /\ mine[o] # NoCode /\ ~Stored(<<"oauth", o>>) /\ oauthId # o
    <2>1. mine[o] = oauthId /\ ~Stored(<<"oauth", o>>) /\ oauthId # o
      BY <1>b DEF IInv, OauthIdsAgree
    <2>2. oauthId # NoCode
      BY Kinds DEF IInv, TypeOK
    <2>3. QED
      BY <2>1, <2>2
  <1>d. \A p \in Oauths \ {o} : oauth'[p] = oauth[p] /\ oauth[p] # "resetid"
    BY <1>b, <1>c DEF IInv, OauthIdsAgree
  <1>e. oauthId' = o /\ oauth'[o] = "sign"
    BY <1>0, <1>b
  <1>1. TypeOK'
    BY <1>0, <1>a, <1>b, Kinds DEF IInv, TypeOK, Registering, Signing, Forgetting
  <1>2. RowsAgree'
    BY <1>0, <1>a, <1>b, Kinds DEF IInv, RowsAgree, Stored
  <1>3. MailIdsAgree'
    BY <1>0, <1>a, <1>b, Kinds DEF IInv, MailIdsAgree, Stored
  <1>4. OauthIdsAgree'
    BY <1>a, <1>c, <1>d, <1>e, Kinds DEF IInv, OauthIdsAgree, Stored
  <1>5. LinksAgree'
    BY <1>0, <1>a, <1>b, Kinds DEF IInv, LinksAgree
  <1>6. CodesAgree'
    BY <1>0, <1>a, <1>b, Kinds DEF IInv, CodesAgree, Exists, Active
  <1>7. PasswordsAgree'
    BY <1>0, <1>a, <1>b, Kinds DEF IInv, PasswordsAgree, Confirmed
  <1>8. NextIdIsFree'
    <2>1. ~Stored(<<"oauth", oauthId>>)'
      BY <1>a, <1>c, <1>e DEF Stored
    <2>2. QED
      BY <2>1, <1>a DEF IInv, NextIdIsFree, Stored
  <1>9. LinkNamesItsAccount'
    BY <1>0, <1>a, <1>b, Kinds DEF IInv, LinkNamesItsAccount
  <1>10. UndisturbedLinkWorks'
    BY <1>0, <1>a, <1>b, Kinds DEF IInv, UndisturbedLinkWorks
  <1>11. SessionWasConfirmed'
    BY <1>0, <1>a, <1>b, Kinds DEF IInv, SessionWasConfirmed, Confirmed
  <1>12. QED
    BY <1>1, <1>2, <1>3, <1>4, <1>5, <1>6, <1>7, <1>8, <1>9, <1>10, <1>11 DEF IInv

LEMMA SignOauthIInv ==
  ASSUME IInv, NEW o \in Oauths, SignOauth(o)
  PROVE  IInv'
  <1>0. /\ oauth[o] = "sign"
        /\ \E next \in {"token", "nobody"} : oauth' = [oauth EXCEPT ![o] = next]
    BY DEF SignOauth, OauthGoto, oauthSame
  <1>a. UNCHANGED <<userId, tempToken, oauthId, pinCode, starts, users, reg, login, act, forget, reset, mine, link, opened, code, disturbed>>
    BY DEF SignOauth, OauthGoto, oauthSame
  <1>b. /\ oauth[o] = "sign" /\ oauth'[o] \in {"token", "nobody"}
        /\ \A y \in Oauths \ {o} : oauth'[y] = oauth[y]
    BY <1>0 DEF IInv, TypeOK
  <1>1. TypeOK'
    BY <1>0, <1>a, <1>b, Kinds DEF IInv, TypeOK, Registering, Signing, Forgetting
  <1>2. RowsAgree'
    BY <1>0, <1>a, <1>b, Kinds DEF IInv, RowsAgree, Stored
  <1>3. MailIdsAgree'
    BY <1>0, <1>a, <1>b, Kinds DEF IInv, MailIdsAgree, Stored
  <1>4. OauthIdsAgree'
    BY <1>0, <1>a, <1>b, Kinds DEF IInv, OauthIdsAgree, Stored
  <1>5. LinksAgree'
    BY <1>0, <1>a, <1>b, Kinds DEF IInv, LinksAgree
  <1>6. CodesAgree'
    BY <1>0, <1>a, <1>b, Kinds DEF IInv, CodesAgree, Exists, Active
  <1>7. PasswordsAgree'
    BY <1>0, <1>a, <1>b, Kinds DEF IInv, PasswordsAgree, Confirmed
  <1>8. NextIdIsFree'
    BY <1>0, <1>a, <1>b, Kinds DEF IInv, NextIdIsFree, Stored
  <1>9. LinkNamesItsAccount'
    BY <1>0, <1>a, <1>b, Kinds DEF IInv, LinkNamesItsAccount
  <1>10. UndisturbedLinkWorks'
    BY <1>0, <1>a, <1>b, Kinds DEF IInv, UndisturbedLinkWorks
  <1>11. SessionWasConfirmed'
    BY <1>0, <1>a, <1>b, Kinds DEF IInv, SessionWasConfirmed, Confirmed
  <1>12. QED
    BY <1>1, <1>2, <1>3, <1>4, <1>5, <1>6, <1>7, <1>8, <1>9, <1>10, <1>11 DEF IInv

LEMMA CheckActiveIInv ==
  ASSUME IInv, NEW l \in Logins, CheckActive(l)
  PROVE  IInv'
  <1>0. /\ login[l] = "idle"
        /\ \E next \in {"password", "refused"} : login' = [login EXCEPT ![l] = next]
    BY DEF CheckActive, atoms, told
  <1>a. UNCHANGED <<userId, tempToken, oauthId, pinCode, starts, users, reg, oauth, act, forget, reset, mine, link, opened, code, disturbed>>
    BY DEF CheckActive, atoms, told
  <1>b. /\ login[l] = "idle" /\ login'[l] \in {"password", "refused"}
        /\ \A y \in Logins \ {l} : login'[y] = login[y]
    BY <1>0 DEF IInv, TypeOK
  <1>1. TypeOK'
    BY <1>0, <1>a, <1>b, Kinds DEF IInv, TypeOK, Registering, Signing, Forgetting
  <1>2. RowsAgree'
    BY <1>0, <1>a, <1>b, Kinds DEF IInv, RowsAgree, Stored
  <1>3. MailIdsAgree'
    BY <1>0, <1>a, <1>b, Kinds DEF IInv, MailIdsAgree, Stored
  <1>4. OauthIdsAgree'
    BY <1>0, <1>a, <1>b, Kinds DEF IInv, OauthIdsAgree, Stored
  <1>5. LinksAgree'
    BY <1>0, <1>a, <1>b, Kinds DEF IInv, LinksAgree
  <1>6. CodesAgree'
    <2>1. login'[l] = "password" => Active(Email[l])
      BY <1>0, Found, Kinds DEF CheckActive, IInv, TypeOK
    <2>2. QED
      BY <2>1, <1>a, <1>b DEF IInv, CodesAgree, Exists, Active
  <1>7. PasswordsAgree'
    BY <1>0, <1>a, <1>b, Kinds DEF IInv, PasswordsAgree, Confirmed
  <1>8. NextIdIsFree'
    BY <1>0, <1>a, <1>b, Kinds DEF IInv, NextIdIsFree, Stored
  <1>9. LinkNamesItsAccount'
    BY <1>0, <1>a, <1>b, Kinds DEF IInv, LinkNamesItsAccount
  <1>10. UndisturbedLinkWorks'
    BY <1>0, <1>a, <1>b, Kinds DEF IInv, UndisturbedLinkWorks
  <1>11. SessionWasConfirmed'
    BY <1>0, <1>a, <1>b, Kinds DEF IInv, SessionWasConfirmed, Confirmed
  <1>12. QED
    BY <1>1, <1>2, <1>3, <1>4, <1>5, <1>6, <1>7, <1>8, <1>9, <1>10, <1>11 DEF IInv

LEMMA CheckPasswordIInv ==
  ASSUME IInv, NEW l \in Logins, CheckPassword(l)
  PROVE  IInv'
  <1>0. /\ login[l] = "password"
        /\ \E next \in {"token", "refused"} : login' = [login EXCEPT ![l] = next]
    BY DEF CheckPassword, atoms, told
  <1>a. UNCHANGED <<userId, tempToken, oauthId, pinCode, starts, users, reg, oauth, act, forget, reset, mine, link, opened, code, disturbed>>
    BY DEF CheckPassword, atoms, told
  <1>b. /\ login[l] = "password" /\ login'[l] \in {"token", "refused"}
        /\ \A y \in Logins \ {l} : login'[y] = login[y]
    BY <1>0 DEF IInv, TypeOK
  <1>1. TypeOK'
    BY <1>0, <1>a, <1>b, Kinds DEF IInv, TypeOK, Registering, Signing, Forgetting
  <1>2. RowsAgree'
    BY <1>0, <1>a, <1>b, Kinds DEF IInv, RowsAgree, Stored
  <1>3. MailIdsAgree'
    BY <1>0, <1>a, <1>b, Kinds DEF IInv, MailIdsAgree, Stored
  <1>4. OauthIdsAgree'
    BY <1>0, <1>a, <1>b, Kinds DEF IInv, OauthIdsAgree, Stored
  <1>5. LinksAgree'
    BY <1>0, <1>a, <1>b, Kinds DEF IInv, LinksAgree
  <1>6. CodesAgree'
    BY <1>0, <1>a, <1>b, Kinds DEF IInv, CodesAgree, Exists, Active
  <1>7. PasswordsAgree'
    BY <1>0, <1>a, <1>b, Kinds DEF IInv, PasswordsAgree, Confirmed
  <1>8. NextIdIsFree'
    BY <1>0, <1>a, <1>b, Kinds DEF IInv, NextIdIsFree, Stored
  <1>9. LinkNamesItsAccount'
    BY <1>0, <1>a, <1>b, Kinds DEF IInv, LinkNamesItsAccount
  <1>10. UndisturbedLinkWorks'
    BY <1>0, <1>a, <1>b, Kinds DEF IInv, UndisturbedLinkWorks
  <1>11. SessionWasConfirmed'
    <2>1. login'[l] = "token" => users[Find(Email[l])].password = TRUE
      BY <1>b, Found, Rows, Kinds DEF CheckPassword, IInv, TypeOK, CodesAgree
    <2>2. login'[l] = "token" => Confirmed(Email[l])
      <3>1. Active(Email[l]) /\ Email[l] # NoCode /\ DOMAIN users = RowIds
        BY <1>b, Kinds, Rows DEF IInv, CodesAgree
      <3>2. LET i == Find(Email[l]) IN i \in RowIds /\ users[i].email = Email[l] /\ users[i].status = "active"
        BY <3>1, Found
      <3>3. QED
        BY <2>1, <3>1, <3>2 DEF IInv, PasswordsAgree
    <2>3. QED
      BY <2>2, <1>a, <1>b DEF IInv, SessionWasConfirmed, Confirmed
  <1>12. QED
    BY <1>1, <1>2, <1>3, <1>4, <1>5, <1>6, <1>7, <1>8, <1>9, <1>10, <1>11 DEF IInv

LEMMA CheckAccountIInv ==
  ASSUME IInv, NEW f \in Forgets, CheckAccount(f)
  PROVE  IInv'
  <1>0. /\ forget[f] = "idle"
        /\ \E next \in {"store", "unknown"} : forget' = [forget EXCEPT ![f] = next]
    BY DEF CheckAccount, ForgetGoto, forgetSame
  <1>a. UNCHANGED <<userId, tempToken, oauthId, pinCode, starts, users, reg, oauth, login, act, reset, mine, link, opened, code, disturbed>>
    BY DEF CheckAccount, ForgetGoto, forgetSame
  <1>b. /\ forget[f] = "idle" /\ forget'[f] \in {"store", "unknown"}
        /\ \A y \in Forgets \ {f} : forget'[y] = forget[y]
    BY <1>0 DEF IInv, TypeOK
  <1>1. TypeOK'
    BY <1>0, <1>a, <1>b, Kinds DEF IInv, TypeOK, Registering, Signing, Forgetting
  <1>2. RowsAgree'
    BY <1>0, <1>a, <1>b, Kinds DEF IInv, RowsAgree, Stored
  <1>3. MailIdsAgree'
    BY <1>0, <1>a, <1>b, Kinds DEF IInv, MailIdsAgree, Stored
  <1>4. OauthIdsAgree'
    BY <1>0, <1>a, <1>b, Kinds DEF IInv, OauthIdsAgree, Stored
  <1>5. LinksAgree'
    BY <1>0, <1>a, <1>b, Kinds DEF IInv, LinksAgree
  <1>6. CodesAgree'
    <2>1. forget'[f] = "store" => Exists(Email[f])
      BY <1>0 DEF CheckAccount, ForgetGoto, IInv, TypeOK
    <2>2. QED
      BY <2>1, <1>a, <1>b DEF IInv, CodesAgree, Exists, Active
  <1>7. PasswordsAgree'
    BY <1>0, <1>a, <1>b, Kinds DEF IInv, PasswordsAgree, Confirmed
  <1>8. NextIdIsFree'
    BY <1>0, <1>a, <1>b, Kinds DEF IInv, NextIdIsFree, Stored
  <1>9. LinkNamesItsAccount'
    BY <1>0, <1>a, <1>b, Kinds DEF IInv, LinkNamesItsAccount
  <1>10. UndisturbedLinkWorks'
    BY <1>0, <1>a, <1>b, Kinds DEF IInv, UndisturbedLinkWorks
  <1>11. SessionWasConfirmed'
    BY <1>0, <1>a, <1>b, Kinds DEF IInv, SessionWasConfirmed, Confirmed
  <1>12. QED
    BY <1>1, <1>2, <1>3, <1>4, <1>5, <1>6, <1>7, <1>8, <1>9, <1>10, <1>11 DEF IInv

LEMMA MailPinIInv ==
  ASSUME IInv, NEW f \in Forgets, MailPin(f)
  PROVE  IInv'
  <1>0. /\ forget[f] = "mail"
        /\ \E next \in {"resetpin"} : forget' = [forget EXCEPT ![f] = next]
        /\ code' \in {code, [code EXCEPT ![f] = pinCode]}
    BY DEF MailPin, ForgetGoto, forgetSame
  <1>a. UNCHANGED <<userId, tempToken, oauthId, pinCode, starts, users, reg, oauth, login, act, reset, mine, link, opened, disturbed>>
    BY DEF MailPin, ForgetGoto, forgetSame
  <1>b. /\ forget[f] = "mail" /\ forget'[f] \in {"resetpin"}
        /\ \A y \in Forgets \ {f} : forget'[y] = forget[y]
    BY <1>0 DEF IInv, TypeOK
  <1>1. TypeOK'
    BY <1>0, <1>a, <1>b, Kinds DEF IInv, TypeOK, Registering, Signing, Forgetting
  <1>2. RowsAgree'
    BY <1>0, <1>a, <1>b, Kinds DEF IInv, RowsAgree, Stored
  <1>3. MailIdsAgree'
    BY <1>0, <1>a, <1>b, Kinds DEF IInv, MailIdsAgree, Stored
  <1>4. OauthIdsAgree'
    BY <1>0, <1>a, <1>b, Kinds DEF IInv, OauthIdsAgree, Stored
  <1>5. LinksAgree'
    BY <1>0, <1>a, <1>b, Kinds DEF IInv, LinksAgree
  <1>6. CodesAgree'
    <2>1. \A g \in Forgets \ {f} : code'[g] = code[g]
      BY <1>0 DEF IInv, TypeOK
    <2>2. \A g \in Forgets : code[g] # NoCode => code'[g] # NoCode
      BY <1>b, <2>1 DEF IInv, CodesAgree
    <2>3. \A g \in Forgets : /\ forget'[g] = "store" => Exists(Email[g])
                             /\ forget'[g] \in {"mail", "resetpin", "sent"} => Active(Email[g])
                             /\ code'[g] # NoCode => Active(Email[g]) /\ forget'[g] \in {"resetpin", "sent", "crashed"}
      BY <1>b, <2>1 DEF IInv, CodesAgree
    <2>4. QED
      BY <2>2, <2>3, <1>a DEF IInv, CodesAgree, Exists, Active
  <1>7. PasswordsAgree'
    BY <1>0, <1>a, <1>b, Kinds DEF IInv, PasswordsAgree, Confirmed
  <1>8. NextIdIsFree'
    BY <1>0, <1>a, <1>b, Kinds DEF IInv, NextIdIsFree, Stored
  <1>9. LinkNamesItsAccount'
    BY <1>0, <1>a, <1>b, Kinds DEF IInv, LinkNamesItsAccount
  <1>10. UndisturbedLinkWorks'
    BY <1>0, <1>a, <1>b, Kinds DEF IInv, UndisturbedLinkWorks
  <1>11. SessionWasConfirmed'
    BY <1>0, <1>a, <1>b, Kinds DEF IInv, SessionWasConfirmed, Confirmed
  <1>12. QED
    BY <1>1, <1>2, <1>3, <1>4, <1>5, <1>6, <1>7, <1>8, <1>9, <1>10, <1>11 DEF IInv

LEMMA ResetPinIInv ==
  ASSUME IInv, NEW f \in Forgets, ResetPin(f)
  PROVE  IInv'
  <1>0. /\ forget[f] = "resetpin"
        /\ \E next \in {"sent"} : forget' = [forget EXCEPT ![f] = next]
        /\ pinCode' = f
    BY DEF ResetPin, ForgetGoto, forgetSame
  <1>a. UNCHANGED <<userId, tempToken, oauthId, starts, users, reg, oauth, login, act, reset, mine, link, opened, code, disturbed>>
    BY DEF ResetPin, ForgetGoto, forgetSame
  <1>b. /\ forget[f] = "resetpin" /\ forget'[f] \in {"sent"}
        /\ \A y \in Forgets \ {f} : forget'[y] = forget[y]
    BY <1>0 DEF IInv, TypeOK
  <1>1. TypeOK'
    <2>1. pinCode' \in Pins /\ forget' \in [Forgets -> Forgetting \cup {"idle", "unknown", "sent", "crashed"}]
      BY <1>0 DEF IInv, TypeOK, Pins, Forgetting
    <2>2. QED
      BY <2>1, <1>a DEF IInv, TypeOK
  <1>2. RowsAgree'
    BY <1>0, <1>a, <1>b, Kinds DEF IInv, RowsAgree, Stored
  <1>3. MailIdsAgree'
    BY <1>0, <1>a, <1>b, Kinds DEF IInv, MailIdsAgree, Stored
  <1>4. OauthIdsAgree'
    BY <1>0, <1>a, <1>b, Kinds DEF IInv, OauthIdsAgree, Stored
  <1>5. LinksAgree'
    BY <1>0, <1>a, <1>b, Kinds DEF IInv, LinksAgree
  <1>6. CodesAgree'
    BY <1>0, <1>a, <1>b, Kinds DEF IInv, CodesAgree, Exists, Active
  <1>7. PasswordsAgree'
    BY <1>0, <1>a, <1>b, Kinds DEF IInv, PasswordsAgree, Confirmed
  <1>8. NextIdIsFree'
    BY <1>0, <1>a, <1>b, Kinds DEF IInv, NextIdIsFree, Stored
  <1>9. LinkNamesItsAccount'
    BY <1>0, <1>a, <1>b, Kinds DEF IInv, LinkNamesItsAccount
  <1>10. UndisturbedLinkWorks'
    BY <1>0, <1>a, <1>b, Kinds DEF IInv, UndisturbedLinkWorks
  <1>11. SessionWasConfirmed'
    BY <1>0, <1>a, <1>b, Kinds DEF IInv, SessionWasConfirmed, Confirmed
  <1>12. QED
    BY <1>1, <1>2, <1>3, <1>4, <1>5, <1>6, <1>7, <1>8, <1>9, <1>10, <1>11 DEF IInv

LEMMA CompareCodeIInv ==
  ASSUME IInv, NEW s \in Resets, CompareCode(s)
  PROVE  IInv'
  <1>0. /\ reset[s] = "idle"
        /\ \E next \in {"failed"} \cup {f \in Forgets : code[f] # NoCode} : reset' = [reset EXCEPT ![s] = next]
    BY DEF CompareCode, atoms, told
  <1>a. UNCHANGED <<userId, tempToken, oauthId, pinCode, starts, users, reg, oauth, login, act, forget, mine, link, opened, code, disturbed>>
    BY DEF CompareCode, atoms, told
  <1>b. /\ reset[s] = "idle" /\ reset'[s] \in {"failed"} \cup {f \in Forgets : code[f] # NoCode}
        /\ \A y \in Resets \ {s} : reset'[y] = reset[y]
    BY <1>0 DEF IInv, TypeOK
  <1>1. TypeOK'
    BY <1>0, <1>a, <1>b, Kinds DEF IInv, TypeOK, Registering, Signing, Forgetting
  <1>2. RowsAgree'
    BY <1>0, <1>a, <1>b, Kinds DEF IInv, RowsAgree, Stored
  <1>3. MailIdsAgree'
    BY <1>0, <1>a, <1>b, Kinds DEF IInv, MailIdsAgree, Stored
  <1>4. OauthIdsAgree'
    BY <1>0, <1>a, <1>b, Kinds DEF IInv, OauthIdsAgree, Stored
  <1>5. LinksAgree'
    BY <1>0, <1>a, <1>b, Kinds DEF IInv, LinksAgree
  <1>6. CodesAgree'
    BY <1>0, <1>a, <1>b, Kinds DEF IInv, CodesAgree, Exists, Active
  <1>7. PasswordsAgree'
    BY <1>0, <1>a, <1>b, Kinds DEF IInv, PasswordsAgree, Confirmed
  <1>8. NextIdIsFree'
    BY <1>0, <1>a, <1>b, Kinds DEF IInv, NextIdIsFree, Stored
  <1>9. LinkNamesItsAccount'
    BY <1>0, <1>a, <1>b, Kinds DEF IInv, LinkNamesItsAccount
  <1>10. UndisturbedLinkWorks'
    BY <1>0, <1>a, <1>b, Kinds DEF IInv, UndisturbedLinkWorks
  <1>11. SessionWasConfirmed'
    BY <1>0, <1>a, <1>b, Kinds DEF IInv, SessionWasConfirmed, Confirmed
  <1>12. QED
    BY <1>1, <1>2, <1>3, <1>4, <1>5, <1>6, <1>7, <1>8, <1>9, <1>10, <1>11 DEF IInv

(* A new row: every other row, address and id stays what it was.           *)
LEMMA Inserted ==
  ASSUME IInv, NEW i \in RowIds, NEW row, row \in Row, row.status # "none",
         CanInsert(i, row.email), users' = [users EXCEPT ![i] = row]
  PROVE  /\ users' \in [RowIds -> Row] /\ DOMAIN users' = RowIds /\ users'[i] = row
         /\ ~Stored(i) /\ \A j \in RowIds \ {i} : users'[j] = users[j]
         /\ \A j \in RowIds : Stored(j)' <=> Stored(j) \/ j = i
         /\ \A email : email # NoCode /\ Exists(email) => Exists(email)'
         /\ \A email : email # NoCode /\ Active(email) => Active(email)'
         /\ RowsAgree'
  <1>1. DOMAIN users = RowIds /\ users \in [RowIds -> Row]
    BY Rows DEF IInv, TypeOK, Row
  <1>2. /\ users' \in [RowIds -> Row] /\ DOMAIN users' = RowIds /\ users'[i] = row
        /\ \A j \in RowIds \ {i} : users'[j] = users[j]
    BY <1>1
  <1>3. ~Stored(i) /\ users[i] = NoRow /\ users[i].email = NoCode /\ users[i].status = "none"
    BY <1>1 DEF CanInsert, IInv, RowsAgree, NoRow
  <1>4. \A j \in RowIds : Stored(j)' <=> Stored(j) \/ j = i
    BY <1>2, <1>3 DEF Stored
  <1>5. \A email : email # NoCode /\ Exists(email) => Exists(email)'
    BY <1>1, <1>2, <1>3 DEF Exists
  <1>6. \A email : email # NoCode /\ Active(email) => Active(email)'
    BY <1>1, <1>2, <1>3 DEF Active
  <1>7. RowsAgree'
    <2>1. \A j \in RowIds : ~Stored(j)' => users'[j] = NoRow
      BY <1>1, <1>2, <1>4 DEF IInv, RowsAgree
    <2>2. \A j \in RowIds \ {i} : row.email = users[j].email => row.email = NoCode
      BY <1>1 DEF CanInsert, Exists
    <2>3. \A j, k \in RowIds : users'[j].email = users'[k].email => j = k \/ users'[j].email = NoCode
      BY <1>1, <1>2, <2>2 DEF IInv, RowsAgree
    <2>4. QED
      BY <1>2, <2>1, <2>3 DEF RowsAgree
  <1>8. QED
    BY <1>2, <1>3, <1>4, <1>5, <1>6, <1>7

(* A row that is changed keeps its address, and becomes or stays active.   *)
LEMMA Updated ==
  ASSUME IInv, NEW i \in RowIds, Stored(i), NEW row, row \in Row, row.status = "active",
         row.email = users[i].email, users' = [users EXCEPT ![i] = row]
  PROVE  /\ users' \in [RowIds -> Row] /\ DOMAIN users' = RowIds /\ users'[i] = row
         /\ \A j \in RowIds \ {i} : users'[j] = users[j]
         /\ \A j \in RowIds : /\ users'[j].email = users[j].email /\ (Stored(j)' <=> Stored(j))
                              /\ users[j].status = "active" => users'[j].status = "active"
         /\ \A email : Exists(email) => Exists(email)'
         /\ \A email : Active(email) => Active(email)'
         /\ RowsAgree'
  <1>1. DOMAIN users = RowIds /\ users \in [RowIds -> Row]
    BY Rows DEF IInv, TypeOK, Row
  <1>2. /\ users' \in [RowIds -> Row] /\ DOMAIN users' = RowIds /\ users'[i] = row
        /\ \A j \in RowIds \ {i} : users'[j] = users[j]
    BY <1>1
  <1>3. \A j \in RowIds : /\ users'[j].email = users[j].email /\ (Stored(j)' <=> Stored(j))
                          /\ users[j].status = "active" => users'[j].status = "active"
    BY <1>2 DEF Stored
  <1>4. \A email : Exists(email) => Exists(email)'
    BY <1>1, <1>2, <1>3 DEF Exists
  <1>5. \A email : Active(email) => Active(email)'
    BY <1>1, <1>2, <1>3 DEF Active
  <1>6. RowsAgree'
    BY <1>1, <1>2, <1>3 DEF IInv, RowsAgree
  <1>7. QED
    BY <1>2, <1>3, <1>4, <1>5, <1>6

(* The registration stores its account under the waiting id.              *)
LEMMA InsertMailStored ==
  ASSUME IInv, NEW r \in Regs, InsertMail(r), CanInsert(<<"mail", userId>>, Email[r])
  PROVE  IInv'
  <1> DEFINE i == <<"mail", userId>>
             row == [email |-> Email[r], temp |-> tempToken, status |-> "inactive", password |-> TRUE]
  <1>0. /\ reg[r] = "insert" /\ reg' = [reg EXCEPT ![r] = "mail"]
        /\ mine' = [mine EXCEPT ![r] = userId] /\ users' = [users EXCEPT ![i] = row]
    BY DEF InsertMail, RegGoto, Insert
  <1>a. UNCHANGED <<userId, tempToken, oauthId, pinCode, starts, oauth, login, act, forget, reset, link, opened, code, disturbed>>
    BY DEF InsertMail, regSame
  <1>c. /\ row \in Row /\ row.email = Email[r] /\ row.temp = tempToken
        /\ row.status = "inactive" /\ i \in RowIds
    BY Kinds DEF Row, IInv, TypeOK
  <1> HIDE DEF row
  <1>d. /\ users' \in [RowIds -> Row] /\ DOMAIN users' = RowIds /\ users'[i] = row
        /\ ~Stored(i) /\ \A j \in RowIds \ {i} : users'[j] = users[j]
        /\ \A j \in RowIds : Stored(j)' <=> Stored(j) \/ j = i
        /\ \A email : email # NoCode /\ Exists(email) => Exists(email)'
        /\ \A email : email # NoCode /\ Active(email) => Active(email)'
        /\ RowsAgree'
    BY <1>0, <1>c, Inserted
  <1>e. /\ mine'[r] = userId /\ \A s \in (Regs \cup Oauths) \ {r} : mine'[s] = mine[s]
        /\ reg'[r] = "mail" /\ \A s \in Regs \ {r} : reg'[s] = reg[s]
    BY <1>0 DEF IInv, TypeOK
  <1>f. /\ mine[r] = NoCode /\ userId # NoCode /\ userId # r /\ link[r] = NoLink
        /\ \A s \in Regs : mine[s] # userId /\ reg[s] \notin {"mail", "resetid"}
    <2>1. mine[r] = NoCode /\ userId # NoCode /\ userId # r /\ link[r] = NoLink
      BY <1>0, Kinds DEF IInv, MailIdsAgree, LinksAgree, TypeOK
    <2>2. ASSUME NEW s \in Regs PROVE mine[s] # userId
      BY <1>d, <2>1 DEF IInv, MailIdsAgree
    <2>3. QED
      BY <2>1, <2>2 DEF IInv, MailIdsAgree
  <1>1. TypeOK'
    <2>1. reg' \in [Regs -> Registering \cup {"idle", "exists", "blank", "sent", "crashed"}]
      BY <1>0 DEF IInv, TypeOK, Registering
    <2>2. mine' \in [Regs \cup Oauths -> Ids \cup {NoCode}]
      BY <1>0, Kinds DEF IInv, TypeOK
    <2>3. QED
      BY <1>a, <1>d, <2>1, <2>2 DEF IInv, TypeOK, Row
  <1>2. RowsAgree'
    BY <1>d
  <1>3. MailIdsAgree'
    <2>1. \A s \in Regs : /\ s # r /\ mine[s] # NoCode =>
                               <<"mail", mine[s]>> \in RowIds \ {i} /\ <<"mail", mine[s]>> \in RowIds
                          /\ <<"mail", s>> \in RowIds /\ (<<"mail", s>> = i <=> userId = s)
      BY <1>d, Kinds DEF IInv, MailIdsAgree
    <2>2. \A s \in Regs :
            /\ mine'[s] # NoCode => /\ mine'[s] \in Tokens /\ users'[<<"mail", mine'[s]>>].status # "none"
                                    /\ users'[<<"mail", mine'[s]>>].email = Email[s]
            /\ userId = s \/ Stored(<<"mail", s>>)' => reg'[s] \in {"resettoken", "sent", "crashed"}
      <3> SUFFICES ASSUME NEW s \in Regs
                   PROVE  /\ mine'[s] # NoCode => /\ mine'[s] \in Tokens /\ users'[<<"mail", mine'[s]>>].status # "none"
                                                  /\ users'[<<"mail", mine'[s]>>].email = Email[s]
                          /\ userId = s \/ Stored(<<"mail", s>>)' => reg'[s] \in {"resettoken", "sent", "crashed"}
        OBVIOUS
      <3>1. CASE s = r
        <4>1. ~Stored(<<"mail", r>>)
          BY <1>0 DEF IInv, MailIdsAgree
        <4>2. mine'[s] \in Tokens /\ users'[<<"mail", mine'[s]>>].email = Email[s] /\ users'[<<"mail", mine'[s]>>].status # "none"
          BY <3>1, <1>c, <1>d, <1>e, Kinds DEF IInv, TypeOK, Tokens
        <4>3. QED
          BY <3>1, <4>1, <4>2, <2>1, <1>d, <1>e, <1>f
      <3>2. CASE s # r
        <4>1. mine'[s] = mine[s] /\ reg'[s] = reg[s]
          BY <3>2, <1>e
        <4>2. mine[s] # NoCode => /\ mine[s] \in Tokens /\ users'[<<"mail", mine[s]>>] = users[<<"mail", mine[s]>>]
                                 /\ users[<<"mail", mine[s]>>].email = Email[s] /\ users[<<"mail", mine[s]>>].status # "none"
          BY <3>2, <2>1, <1>d DEF IInv, MailIdsAgree, Stored
        <4>3. userId = s \/ Stored(<<"mail", s>>)' => reg[s] \in {"resettoken", "sent", "crashed"}
          BY <2>1, <1>d DEF IInv, MailIdsAgree
        <4>4. QED
          BY <4>1, <4>2, <4>3
      <3>3. QED
        BY <3>1, <3>2
    <2>3. \A n \in Starts : userId = n \/ Stored(<<"mail", n>>)' => n <= starts
      BY <1>d, Kinds DEF IInv, MailIdsAgree
    <2>5. \A s \in Regs : /\ reg'[s] \in {"mail", "resetid"} => mine'[s] = userId
                          /\ reg'[s] \in {"idle", "exists", "insert", "blank"} => mine'[s] = NoCode
      BY <1>e, <1>f DEF IInv, MailIdsAgree
    <2>6. ASSUME NEW s \in Regs, NEW t \in Regs, mine'[s] = mine'[t], s # t PROVE mine'[s] = NoCode
      <3>1. s # r /\ t # r
        BY <2>6, <1>e, <1>f
      <3>2. QED
        BY <2>6, <3>1, <1>e DEF IInv, MailIdsAgree
    <2>4. QED
      BY <2>2, <2>3, <2>5, <2>6, <1>a DEF MailIdsAgree, Stored
  <1>4. OauthIdsAgree'
    <2>1. \A k \in Ids : Stored(<<"oauth", k>>)' <=> Stored(<<"oauth", k>>)
      BY <1>d, Kinds
    <2>2. \A o \in Oauths : mine'[o] = mine[o]
      BY <1>e, Kinds
    <2>3. QED
      BY <2>1, <2>2, <1>a, Kinds DEF IInv, OauthIdsAgree
  <1>5. LinksAgree'
    <2>1. \A s \in Regs : s # r /\ reg[s] # "mail" => reg'[s] # "mail"
      BY <1>e
    <2>2. \A s \in Regs :
            /\ link[s] # NoLink => mine'[s] # NoCode /\ reg'[s] \notin {"idle", "insert", "mail"}
            /\ reg'[s] = "mail" /\ s \notin disturbed => users'[<<"mail", mine'[s]>>].temp = tempToken
      BY <1>c, <1>d, <1>e, <1>f DEF IInv, LinksAgree
    <2>3. QED
      BY <1>a, <2>2 DEF IInv, LinksAgree
  <1>6. CodesAgree'
    BY <1>a, <1>d, Kinds DEF IInv, CodesAgree
  <1>7. PasswordsAgree'
    BY <1>a, <1>c, <1>d, Rows DEF IInv, PasswordsAgree, Confirmed
  <1>8. NextIdIsFree'
    <2>1. Stored(<<"oauth", oauthId>>)' <=> Stored(<<"oauth", oauthId>>)
      BY <1>a, <1>d, Kinds DEF IInv, TypeOK, Stored
    <2>2. \A o \in Oauths : mine'[o] = mine[o]
      BY <1>e, Kinds
    <2>3. QED
      BY <2>1, <2>2, <1>a, <1>e DEF IInv, NextIdIsFree
  <1>9. LinkNamesItsAccount'
    <2>1. \A s \in Regs : link[s] # NoLink => s # r /\ <<"mail", mine[s]>> \in RowIds \ {i}
      BY <1>d, <1>f, Kinds DEF IInv, LinksAgree, MailIdsAgree
    <2>2. QED
      BY <2>1, <1>a, <1>d, <1>e DEF IInv, LinkNamesItsAccount
  <1>10. UndisturbedLinkWorks'
    <2>1. ASSUME NEW s \in Regs, link[s] # NoLink PROVE <<"mail", link[s].id>> \in RowIds \ {i}
      <3>1. link[s].id = mine[s] /\ mine[s] # NoCode
        BY <2>1 DEF IInv, LinksAgree, LinkNamesItsAccount
      <3>2. QED
        BY <3>1, <1>d, <1>f, Kinds DEF IInv, MailIdsAgree
    <2>2. QED
      BY <2>1, <1>a, <1>d DEF IInv, UndisturbedLinkWorks
  <1>11. SessionWasConfirmed'
    BY <1>a DEF IInv, SessionWasConfirmed, Confirmed
  <1>12. QED
    BY <1>1, <1>2, <1>3, <1>4, <1>5, <1>6, <1>7, <1>8, <1>9, <1>10, <1>11 DEF IInv

LEMMA InsertMailRefused ==
  ASSUME IInv, NEW r \in Regs, InsertMail(r), ~CanInsert(<<"mail", userId>>, Email[r])
  PROVE  IInv'
  <1>0. reg[r] = "insert" /\ reg' = [reg EXCEPT ![r] = "blank"]
    BY DEF InsertMail, RegGoto
  <1>a. UNCHANGED <<userId, tempToken, oauthId, pinCode, starts, users, oauth, login, act, forget, reset, mine, link, opened, code, disturbed>>
    BY DEF InsertMail, regSame
  <1>b. /\ reg[r] = "insert" /\ reg'[r] = "blank"
        /\ \A y \in Regs \ {r} : reg'[y] = reg[y]
    BY <1>0 DEF IInv, TypeOK
  <1>1. TypeOK'
    BY <1>0, <1>a, <1>b, Kinds DEF IInv, TypeOK, Registering, Signing, Forgetting
  <1>2. RowsAgree'
    BY <1>0, <1>a, <1>b, Kinds DEF IInv, RowsAgree, Stored
  <1>3. MailIdsAgree'
    BY <1>0, <1>a, <1>b, Kinds DEF IInv, MailIdsAgree, Stored
  <1>4. OauthIdsAgree'
    BY <1>0, <1>a, <1>b, Kinds DEF IInv, OauthIdsAgree, Stored
  <1>5. LinksAgree'
    BY <1>0, <1>a, <1>b, Kinds DEF IInv, LinksAgree
  <1>6. CodesAgree'
    BY <1>0, <1>a, <1>b, Kinds DEF IInv, CodesAgree, Exists, Active
  <1>7. PasswordsAgree'
    BY <1>0, <1>a, <1>b, Kinds DEF IInv, PasswordsAgree, Confirmed
  <1>8. NextIdIsFree'
    BY <1>0, <1>a, <1>b, Kinds DEF IInv, NextIdIsFree, Stored
  <1>9. LinkNamesItsAccount'
    BY <1>0, <1>a, <1>b, Kinds DEF IInv, LinkNamesItsAccount
  <1>10. UndisturbedLinkWorks'
    BY <1>0, <1>a, <1>b, Kinds DEF IInv, UndisturbedLinkWorks
  <1>11. SessionWasConfirmed'
    BY <1>0, <1>a, <1>b, Kinds DEF IInv, SessionWasConfirmed, Confirmed
  <1>12. QED
    BY <1>1, <1>2, <1>3, <1>4, <1>5, <1>6, <1>7, <1>8, <1>9, <1>10, <1>11 DEF IInv

LEMMA InsertMailIInv ==
  ASSUME IInv, NEW r \in Regs, InsertMail(r)
  PROVE  IInv'
  BY InsertMailStored, InsertMailRefused

(* The account of a provider is stored under the waiting id.               *)
LEMMA InsertOauthStored ==
  ASSUME IInv, NEW o \in Oauths, NEW e \in Answers(o), oauth[o] = "insert",
         CanInsert(<<"oauth", oauthId>>, e), Insert(<<"oauth", oauthId>>, e, ByOauth, "active", FALSE),
         mine' = [mine EXCEPT ![o] = oauthId], OauthGoto(o, "resetid"),
         UNCHANGED <<oauthId, oauthSame>>
  PROVE  IInv'
  <1> DEFINE i == <<"oauth", oauthId>>
             row == [email |-> e, temp |-> ByOauth, status |-> "active", password |-> FALSE]
  <1>0. /\ oauth' = [oauth EXCEPT ![o] = "resetid"] /\ users' = [users EXCEPT ![i] = row]
    BY DEF OauthGoto, Insert
  <1>a. UNCHANGED <<userId, tempToken, oauthId, pinCode, starts, reg, login, act, forget, reset, link, opened, code, disturbed>>
    BY DEF oauthSame
  <1>c. /\ row \in Row /\ row.email = e /\ row.status = "active" /\ row.password = FALSE /\ i \in RowIds
    BY Kinds DEF Row, IInv, TypeOK, Answers
  <1> HIDE DEF row
  <1>d. /\ users' \in [RowIds -> Row] /\ DOMAIN users' = RowIds /\ users'[i] = row
        /\ ~Stored(i) /\ \A j \in RowIds \ {i} : users'[j] = users[j]
        /\ \A j \in RowIds : Stored(j)' <=> Stored(j) \/ j = i
        /\ \A email : email # NoCode /\ Exists(email) => Exists(email)'
        /\ \A email : email # NoCode /\ Active(email) => Active(email)'
        /\ RowsAgree'
    BY <1>0, <1>c, Inserted
  <1>e. /\ mine'[o] = oauthId /\ \A s \in (Regs \cup Oauths) \ {o} : mine'[s] = mine[s]
        /\ oauth'[o] = "resetid" /\ \A p \in Oauths \ {o} : oauth'[p] = oauth[p]
    BY <1>0 DEF IInv, TypeOK
  <1>f. /\ mine[o] = NoCode /\ oauthId # NoCode /\ oauthId # o
        /\ \A p \in Oauths : mine[p] # oauthId /\ oauth[p] # "resetid"
    <2>1. mine[o] = NoCode /\ oauthId # NoCode /\ oauthId # o
      BY Kinds DEF IInv, OauthIdsAgree, TypeOK
    <2>2. ASSUME NEW p \in Oauths PROVE mine[p] # oauthId
      BY <1>d, <2>1 DEF IInv, OauthIdsAgree
    <2>3. QED
      BY <2>1, <2>2 DEF IInv, OauthIdsAgree
  <1>g. \A k \in Ids : /\ <<"mail", k>> \in RowIds \ {i} /\ users'[<<"mail", k>>] = users[<<"mail", k>>]
                       /\ Stored(<<"mail", k>>)' <=> Stored(<<"mail", k>>)
    BY <1>d, Kinds
  <1>h. \A r \in Regs : mine'[r] = mine[r] /\ (mine[r] # NoCode => mine[r] \in Ids)
    BY <1>e, Kinds DEF IInv, TypeOK
  <1>1. TypeOK'
    <2>1. oauth' \in [Oauths -> Signing \cup {"idle", "refused", "token", "nobody", "error", "crashed"}]
      BY <1>0 DEF IInv, TypeOK, Signing
    <2>2. mine' \in [Regs \cup Oauths -> Ids \cup {NoCode}]
      BY Kinds DEF IInv, TypeOK
    <2>3. QED
      BY <1>a, <1>d, <2>1, <2>2 DEF IInv, TypeOK
  <1>2. RowsAgree'
    BY <1>d
  <1>3. MailIdsAgree'
    BY <1>a, <1>g, <1>h, Kinds DEF IInv, MailIdsAgree, Stored
  <1>4. OauthIdsAgree'
    <2>1. ASSUME NEW p \in Oauths
          PROVE  /\ mine'[p] # NoCode => mine'[p] \in Oauths \cup Starts /\ users'[<<"oauth", mine'[p]>>].status # "none"
                 /\ oauth'[p] = "resetid" => mine'[p] = oauthId
                 /\ oauth'[p] \in {"idle", "insert"} => mine'[p] = NoCode
                 /\ oauthId = p \/ Stored(<<"oauth", p>>)' => oauth'[p] \in {"sign", "token", "nobody", "crashed"}
      <3>1. /\ <<"oauth", p>> \in RowIds /\ (<<"oauth", p>> = i <=> oauthId = p)
            /\ oauthId = p \/ Stored(<<"oauth", p>>) => oauth[p] \in {"sign", "token", "nobody", "crashed"}
        BY Kinds DEF IInv, OauthIdsAgree
      <3>2. CASE p = o
        <4>1. ~Stored(<<"oauth", o>>) /\ oauthId \in Oauths \cup Starts
          BY DEF IInv, OauthIdsAgree, TypeOK
        <4>2. QED
          BY <3>1, <3>2, <4>1, <1>c, <1>d, <1>e, <1>f
      <3>3. CASE p # o
        <4>1. mine'[p] = mine[p] /\ oauth'[p] = oauth[p]
          BY <3>3, <1>e
        <4>2. mine[p] # NoCode => /\ mine[p] \in Oauths \cup Starts
                                 /\ users'[<<"oauth", mine[p]>>].status # "none"
          <5>1. mine[p] # NoCode => mine[p] \in Oauths \cup Starts /\ Stored(<<"oauth", mine[p]>>)
            BY DEF IInv, OauthIdsAgree
          <5>2. mine[p] # NoCode => <<"oauth", mine[p]>> \in RowIds \ {i}
            BY <5>1, <1>d, Kinds
          <5>3. QED
            BY <5>1, <5>2, <1>d DEF Stored
        <4>3. QED
          BY <3>1, <4>1, <4>2, <1>d DEF IInv, OauthIdsAgree
      <3>4. QED
        BY <3>2, <3>3
    <2>2. ASSUME NEW p \in Oauths, NEW t \in Oauths, mine'[p] = mine'[t], p # t PROVE mine'[p] = NoCode
      <3>1. p # o /\ t # o
        BY <2>2, <1>e, <1>f
      <3>2. QED
        BY <2>2, <3>1, <1>e DEF IInv, OauthIdsAgree
    <2>3. \A n \in Starts : oauthId = n \/ Stored(<<"oauth", n>>)' => n <= starts
      BY <1>d, Kinds DEF IInv, OauthIdsAgree
    <2>4. QED
      BY <2>1, <2>2, <2>3, <1>a DEF OauthIdsAgree, Stored
  <1>5. LinksAgree'
    <2>1. \A r \in Regs : mine[r] # NoCode => users'[<<"mail", mine[r]>>] = users[<<"mail", mine[r]>>]
      BY <1>g, <1>h
    <2>2. \A r \in Regs : reg[r] = "mail" => mine[r] # NoCode
      BY Kinds DEF IInv, MailIdsAgree, TypeOK
    <2>3. QED
      BY <2>1, <2>2, <1>a, <1>h DEF IInv, LinksAgree
  <1>6. CodesAgree'
    BY <1>a, <1>d, Kinds DEF IInv, CodesAgree
  <1>7. PasswordsAgree'
    BY <1>a, <1>c, <1>d, Rows DEF IInv, PasswordsAgree, Confirmed
  <1>8. NextIdIsFree'
    <2>1. Stored(<<"mail", userId>>)' <=> Stored(<<"mail", userId>>)
      BY <1>a, <1>g, Kinds DEF IInv, TypeOK, Stored
    <2>2. QED
      BY <2>1, <1>a, <1>e, <1>h DEF IInv, NextIdIsFree
  <1>9. LinkNamesItsAccount'
    BY <1>a, <1>g, <1>h DEF IInv, LinkNamesItsAccount, LinksAgree
  <1>10. UndisturbedLinkWorks'
    BY <1>a, <1>g, <1>h DEF IInv, UndisturbedLinkWorks, LinksAgree, LinkNamesItsAccount
  <1>11. SessionWasConfirmed'
    BY <1>a DEF IInv, SessionWasConfirmed, Confirmed
  <1>12. QED
    BY <1>1, <1>2, <1>3, <1>4, <1>5, <1>6, <1>7, <1>8, <1>9, <1>10, <1>11 DEF IInv

LEMMA InsertOauthRefused ==
  ASSUME IInv, NEW o \in Oauths, oauth[o] = "insert", OauthGoto(o, "error"),
         UNCHANGED <<users, mine, oauthId, oauthSame>>
  PROVE  IInv'
  <1>0. oauth[o] = "insert" /\ oauth' = [oauth EXCEPT ![o] = "error"]
    BY DEF OauthGoto
  <1>a. UNCHANGED <<userId, tempToken, oauthId, pinCode, starts, users, reg, login, act, forget, reset, mine, link, opened, code, disturbed>>
    BY DEF oauthSame
  <1>b. /\ oauth[o] = "insert" /\ oauth'[o] = "error"
        /\ \A y \in Oauths \ {o} : oauth'[y] = oauth[y]
    BY <1>0 DEF IInv, TypeOK
  <1>1. TypeOK'
    BY <1>0, <1>a, <1>b, Kinds DEF IInv, TypeOK, Registering, Signing, Forgetting
  <1>2. RowsAgree'
    BY <1>0, <1>a, <1>b, Kinds DEF IInv, RowsAgree, Stored
  <1>3. MailIdsAgree'
    BY <1>0, <1>a, <1>b, Kinds DEF IInv, MailIdsAgree, Stored
  <1>4. OauthIdsAgree'
    BY <1>0, <1>a, <1>b, Kinds DEF IInv, OauthIdsAgree, Stored
  <1>5. LinksAgree'
    BY <1>0, <1>a, <1>b, Kinds DEF IInv, LinksAgree
  <1>6. CodesAgree'
    BY <1>0, <1>a, <1>b, Kinds DEF IInv, CodesAgree, Exists, Active
  <1>7. PasswordsAgree'
    BY <1>0, <1>a, <1>b, Kinds DEF IInv, PasswordsAgree, Confirmed
  <1>8. NextIdIsFree'
    BY <1>0, <1>a, <1>b, Kinds DEF IInv, NextIdIsFree, Stored
  <1>9. LinkNamesItsAccount'
    BY <1>0, <1>a, <1>b, Kinds DEF IInv, LinkNamesItsAccount
  <1>10. UndisturbedLinkWorks'
    BY <1>0, <1>a, <1>b, Kinds DEF IInv, UndisturbedLinkWorks
  <1>11. SessionWasConfirmed'
    BY <1>0, <1>a, <1>b, Kinds DEF IInv, SessionWasConfirmed, Confirmed
  <1>12. QED
    BY <1>1, <1>2, <1>3, <1>4, <1>5, <1>6, <1>7, <1>8, <1>9, <1>10, <1>11 DEF IInv

LEMMA InsertOauthIInv ==
  ASSUME IInv, NEW o \in Oauths, InsertOauth(o)
  PROVE  IInv'
  <1>1. PICK e \in Answers(o) :
          IF CanInsert(<<"oauth", oauthId>>, e)
          THEN /\ Insert(<<"oauth", oauthId>>, e, ByOauth, "active", FALSE)
               /\ mine' = [mine EXCEPT ![o] = oauthId]
               /\ OauthGoto(o, "resetid")
          ELSE OauthGoto(o, "error") /\ UNCHANGED <<users, mine>>
    BY DEF InsertOauth
  <1>2. oauth[o] = "insert" /\ UNCHANGED <<oauthId, oauthSame>>
    BY DEF InsertOauth
  <1>3. QED
    BY <1>1, <1>2, InsertOauthStored, InsertOauthRefused

LEMMA ActivateIInv ==
  ASSUME IInv, NEW a \in Acts, Activate(a)
  PROVE  IInv'
  <1> DEFINE i == <<"mail", opened[a].id>>
             row == [users[i] EXCEPT !.temp = Used, !.status = "active"]
  <1>a. UNCHANGED <<userId, tempToken, oauthId, pinCode, starts, reg, oauth, login, forget, reset, mine, link, opened, code, disturbed>>
    BY DEF Activate, atoms, told
  <1>p. PICK r \in Regs : link[r] # NoLink /\ opened[a] = link[r]
    BY DEF IInv, LinksAgree, Activate
  <1>b. act[a] = "matched" /\ i \in RowIds /\ Stored(i) /\ users[i].email = Email[r]
    <2>1. mine[r] # NoCode /\ opened[a].id = mine[r]
      BY <1>p DEF IInv, LinksAgree, LinkNamesItsAccount
    <2>2. mine[r] \in Tokens /\ Stored(<<"mail", mine[r]>>) /\ users[<<"mail", mine[r]>>].email = Email[r]
      BY <2>1 DEF IInv, MailIdsAgree
    <2>3. <<"mail", mine[r]>> \in RowIds /\ act[a] = "matched"
      BY <2>2, Kinds DEF Activate
    <2>4. QED
      BY <2>1, <2>2, <2>3
  <1>c. /\ row \in Row /\ row.status = "active" /\ row.email = users[i].email
        /\ row.password = users[i].password
    <2>1. users[i] \in Row /\ Used \in Tokens \cup Pins \cup {NoCode, Used, ByOauth, Zero}
      BY <1>b DEF IInv, TypeOK
    <2>2. QED
      BY <2>1, <1>b DEF Row
  <1>0. users' = [users EXCEPT ![i] = row] /\ act' = [act EXCEPT ![a] = "active"]
    BY <1>b, Rows DEF Activate, IInv, TypeOK
  <1>e. act'[a] = "active" /\ \A y \in Acts \ {a} : act'[y] = act[y]
    BY <1>0 DEF IInv, TypeOK
  <1>d. /\ users' \in [RowIds -> Row] /\ DOMAIN users' = RowIds /\ users'[i] = row
        /\ \A j \in RowIds \ {i} : users'[j] = users[j]
        /\ \A j \in RowIds : /\ users'[j].email = users[j].email /\ (Stored(j)' <=> Stored(j))
                             /\ users[j].status = "active" => users'[j].status = "active"
        /\ \A email : Exists(email) => Exists(email)'
        /\ \A email : Active(email) => Active(email)'
        /\ RowsAgree'
    BY <1>0, <1>b, <1>c, Updated
  <1> HIDE DEF row
  <1>f. \A k \in Ids : <<"mail", k>> \in RowIds /\ <<"oauth", k>> \in RowIds
    BY Kinds
  <1>g. \A j \in RowIds : users'[j].temp = users[j].temp \/ users'[j].status = "active"
    BY <1>c, <1>d
  <1>h. \A s \in Regs : mine[s] # NoCode => mine[s] \in Ids
    BY Kinds DEF IInv, TypeOK
  <1>k. ASSUME NEW email, Confirmed(email) PROVE Confirmed(email)'
    BY <1>k, <1>a, <1>b, <1>e DEF Confirmed
  <1>1. TypeOK'
    <2>1. act' \in [Acts -> {"idle", "matched", "failed", "active", "crashed"}]
      BY <1>0 DEF IInv, TypeOK, Forgetting
    <2>2. QED
      BY <1>a, <1>d, <2>1 DEF IInv, TypeOK
  <1>2. RowsAgree'
    BY <1>d
  <1>3. MailIdsAgree'
    <2>1. \A k \in Ids : /\ Stored(<<"mail", k>>)' <=> Stored(<<"mail", k>>)
                         /\ users'[<<"mail", k>>].email = users[<<"mail", k>>].email
      BY <1>d, <1>f
    <2>2. \A k \in Ids : users'[<<"mail", k>>].status # "none" <=> users[<<"mail", k>>].status # "none"
      BY <2>1 DEF Stored
    <2>3. QED
      BY <2>1, <2>2, <1>a, <1>h, Kinds DEF IInv, MailIdsAgree, Stored
  <1>4. OauthIdsAgree'
    <2>1. \A k \in Ids : users'[<<"oauth", k>>].status # "none" <=> users[<<"oauth", k>>].status # "none"
      BY <1>d, <1>f DEF Stored
    <2>2. QED
      BY <2>1, <1>a, Kinds DEF IInv, OauthIdsAgree, Stored
  <1>5. LinksAgree'
    <2>1. \A s \in Regs : reg[s] = "mail" => mine[s] \in Ids
      BY <1>h, Kinds DEF IInv, MailIdsAgree, TypeOK
    <2>2. \A s \in Regs : /\ link[s] # NoLink => mine[s] # NoCode /\ reg[s] \notin {"idle", "insert", "mail"}
                          /\ reg[s] = "mail" /\ s \notin disturbed =>
                               \/ users'[<<"mail", mine[s]>>].temp = tempToken
                               \/ users'[<<"mail", mine[s]>>].status = "active"
      BY <2>1, <1>d, <1>f, <1>g DEF IInv, LinksAgree
    <2>3. \A x \in Acts : act'[x] # "idle" => \E s \in Regs : link[s] # NoLink /\ opened[x] = link[s]
      BY <1>a, <1>b, <1>e DEF IInv, LinksAgree
    <2>4. QED
      BY <2>2, <2>3, <1>a DEF LinksAgree
  <1>6. CodesAgree'
    BY <1>a, <1>b, <1>d, <1>e DEF IInv, CodesAgree
  <1>7. PasswordsAgree'
    <2>1. Confirmed(Email[r])'
      BY <1>a, <1>e, <1>p DEF Confirmed
    <2>2. QED
      BY <2>1, <1>a, <1>b, <1>c, <1>d, <1>k, Rows DEF IInv, PasswordsAgree
  <1>8. NextIdIsFree'
    <2>0. <<"mail", userId>> \in RowIds /\ <<"oauth", oauthId>> \in RowIds
      BY Kinds DEF IInv, TypeOK
    <2>1. /\ Stored(<<"mail", userId>>)' <=> Stored(<<"mail", userId>>)
          /\ Stored(<<"oauth", oauthId>>)' <=> Stored(<<"oauth", oauthId>>)
      BY <2>0, <1>a, <1>d DEF Stored
    <2>2. QED
      BY <2>1, <1>a DEF IInv, NextIdIsFree
  <1>9. LinkNamesItsAccount'
    BY <1>a, <1>d, <1>f, <1>h DEF IInv, LinkNamesItsAccount, LinksAgree
  <1>10. UndisturbedLinkWorks'
    BY <1>a, <1>d, <1>f, <1>g, <1>h DEF IInv, UndisturbedLinkWorks, LinksAgree, LinkNamesItsAccount
  <1>11. SessionWasConfirmed'
    BY <1>a, <1>k DEF IInv, SessionWasConfirmed
  <1>12. QED
    BY <1>1, <1>2, <1>3, <1>4, <1>5, <1>6, <1>7, <1>8, <1>9, <1>10, <1>11 DEF IInv

LEMMA StorePinIInv ==
  ASSUME IInv, NEW f \in Forgets, StorePin(f)
  PROVE  IInv'
  <1> DEFINE i == Find(Email[f])
             row == [users[i] EXCEPT !.temp = pinCode, !.status = "active"]
  <1>a. UNCHANGED <<userId, tempToken, oauthId, pinCode, starts, reg, oauth, login, act, reset, mine, link, opened, code, disturbed>>
    BY DEF StorePin, ForgetGoto, forgetSame
  <1>b. forget[f] = "store" /\ i \in RowIds /\ Stored(i) /\ users[i].email = Email[f]
    <2>1. forget[f] = "store" /\ Exists(Email[f]) /\ Email[f] # NoCode /\ DOMAIN users = RowIds
      BY Kinds, Rows DEF StorePin, IInv, CodesAgree
    <2>2. i \in RowIds /\ users[i].email = Email[f]
      BY <2>1, Found
    <2>3. Stored(i)
      BY <2>1, <2>2 DEF IInv, RowsAgree, NoRow
    <2>4. QED
      BY <2>1, <2>2, <2>3
  <1>c. /\ row \in Row /\ row.status = "active" /\ row.email = users[i].email
        /\ row.password = users[i].password
    <2>1. users[i] \in Row /\ pinCode \in Tokens \cup Pins \cup {NoCode, Used, ByOauth, Zero}
      BY <1>b DEF IInv, TypeOK
    <2>2. QED
      BY <2>1, <1>b DEF Row
  <1>0. users' = [users EXCEPT ![i] = row] /\ forget' = [forget EXCEPT ![f] = "mail"]
    BY <1>b, Rows DEF StorePin, IInv, TypeOK, ForgetGoto
  <1>e. forget'[f] = "mail" /\ \A y \in Forgets \ {f} : forget'[y] = forget[y]
    BY <1>0 DEF IInv, TypeOK
  <1>d. /\ users' \in [RowIds -> Row] /\ DOMAIN users' = RowIds /\ users'[i] = row
        /\ \A j \in RowIds \ {i} : users'[j] = users[j]
        /\ \A j \in RowIds : /\ users'[j].email = users[j].email /\ (Stored(j)' <=> Stored(j))
                             /\ users[j].status = "active" => users'[j].status = "active"
        /\ \A email : Exists(email) => Exists(email)'
        /\ \A email : Active(email) => Active(email)'
        /\ RowsAgree'
    BY <1>0, <1>b, <1>c, Updated
  <1> HIDE DEF row
  <1>f. \A k \in Ids : <<"mail", k>> \in RowIds /\ <<"oauth", k>> \in RowIds
    BY Kinds
  <1>g. \A j \in RowIds : users'[j].temp = users[j].temp \/ users'[j].status = "active"
    BY <1>c, <1>d
  <1>h. \A r \in Regs : mine[r] # NoCode => mine[r] \in Ids
    BY Kinds DEF IInv, TypeOK
  <1>k. ASSUME NEW email, Confirmed(email) PROVE Confirmed(email)'
    BY <1>k, <1>a, <1>b, <1>e DEF Confirmed
  <1>1. TypeOK'
    <2>1. forget' \in [Forgets -> Forgetting \cup {"idle", "unknown", "sent", "crashed"}]
      BY <1>0 DEF IInv, TypeOK, Forgetting
    <2>2. QED
      BY <1>a, <1>d, <2>1 DEF IInv, TypeOK
  <1>2. RowsAgree'
    BY <1>d
  <1>3. MailIdsAgree'
    <2>1. \A k \in Ids : /\ Stored(<<"mail", k>>)' <=> Stored(<<"mail", k>>)
                         /\ users'[<<"mail", k>>].email = users[<<"mail", k>>].email
      BY <1>d, <1>f
    <2>2. \A k \in Ids : users'[<<"mail", k>>].status # "none" <=> users[<<"mail", k>>].status # "none"
      BY <2>1 DEF Stored
    <2>3. QED
      BY <2>1, <2>2, <1>a, <1>h, Kinds DEF IInv, MailIdsAgree, Stored
  <1>4. OauthIdsAgree'
    <2>1. \A k \in Ids : users'[<<"oauth", k>>].status # "none" <=> users[<<"oauth", k>>].status # "none"
      BY <1>d, <1>f DEF Stored
    <2>2. QED
      BY <2>1, <1>a, Kinds DEF IInv, OauthIdsAgree, Stored
  <1>5. LinksAgree'
    <2>1. \A r \in Regs : reg[r] = "mail" => mine[r] \in Ids
      BY <1>h, Kinds DEF IInv, MailIdsAgree, TypeOK
    <2>2. \A r \in Regs : /\ link[r] # NoLink => mine[r] # NoCode /\ reg[r] \notin {"idle", "insert", "mail"}
                          /\ reg[r] = "mail" /\ r \notin disturbed =>
                               \/ users'[<<"mail", mine[r]>>].temp = tempToken
                               \/ users'[<<"mail", mine[r]>>].status = "active"
      BY <2>1, <1>d, <1>f, <1>g DEF IInv, LinksAgree
    <2>3. \A x \in Acts : act'[x] # "idle" => \E r \in Regs : link[r] # NoLink /\ opened[x] = link[r]
      BY <1>a, <1>b, <1>e DEF IInv, LinksAgree
    <2>4. QED
      BY <2>2, <2>3, <1>a DEF LinksAgree
  <1>6. CodesAgree'
    <2>1. Active(Email[f])'
      BY <1>b, <1>c, <1>d DEF Active
    <2>2. \A g \in Forgets : /\ forget'[g] = "store" => Exists(Email[g])'
                             /\ forget'[g] \in {"mail", "resetpin", "sent"} => Active(Email[g])'
                             /\ code[g] # NoCode => Active(Email[g])' /\ forget'[g] \in {"resetpin", "sent", "crashed"}
      BY <2>1, <1>b, <1>d, <1>e DEF IInv, CodesAgree
    <2>3. QED
      BY <2>2, <1>a, <1>d DEF IInv, CodesAgree
  <1>7. PasswordsAgree'
    <2>1. Confirmed(Email[f])'
      BY <1>e DEF Confirmed
    <2>2. QED
      BY <2>1, <1>a, <1>b, <1>c, <1>d, <1>k, Rows DEF IInv, PasswordsAgree
  <1>8. NextIdIsFree'
    <2>0. <<"mail", userId>> \in RowIds /\ <<"oauth", oauthId>> \in RowIds
      BY Kinds DEF IInv, TypeOK
    <2>1. /\ Stored(<<"mail", userId>>)' <=> Stored(<<"mail", userId>>)
          /\ Stored(<<"oauth", oauthId>>)' <=> Stored(<<"oauth", oauthId>>)
      BY <2>0, <1>a, <1>d DEF Stored
    <2>2. QED
      BY <2>1, <1>a DEF IInv, NextIdIsFree
  <1>9. LinkNamesItsAccount'
    BY <1>a, <1>d, <1>f, <1>h DEF IInv, LinkNamesItsAccount, LinksAgree
  <1>10. UndisturbedLinkWorks'
    BY <1>a, <1>d, <1>f, <1>g, <1>h DEF IInv, UndisturbedLinkWorks, LinksAgree, LinkNamesItsAccount
  <1>11. SessionWasConfirmed'
    BY <1>a, <1>k DEF IInv, SessionWasConfirmed
  <1>12. QED
    BY <1>1, <1>2, <1>3, <1>4, <1>5, <1>6, <1>7, <1>8, <1>9, <1>10, <1>11 DEF IInv

LEMMA SetPasswordIInv ==
  ASSUME IInv, NEW s \in Resets, SetPassword(s)
  PROVE  IInv'
  <1> DEFINE i == Find(Email[reset[s]])
             row == [users[i] EXCEPT !.temp = Zero, !.password = TRUE]
  <1>a. UNCHANGED <<userId, tempToken, oauthId, pinCode, starts, reg, oauth, login, act, forget, mine, link, opened, code, disturbed>>
    BY DEF SetPassword, atoms, told
  <1>b. /\ reset[s] \in Forgets /\ i \in RowIds /\ Stored(i) /\ users[i].email = Email[reset[s]]
        /\ users[i].status = "active" /\ forget[reset[s]] \in {"resetpin", "sent", "crashed"}
    <2>1. /\ reset[s] \in Forgets /\ Active(Email[reset[s]]) /\ Email[reset[s]] # NoCode
          /\ forget[reset[s]] \in {"resetpin", "sent", "crashed"}
      BY Kinds DEF SetPassword, IInv, CodesAgree
    <2>2. i \in RowIds /\ users[i].email = Email[reset[s]] /\ users[i].status = "active"
      BY <2>1, Found
    <2>3. QED
      BY <2>1, <2>2 DEF Stored
  <1>c. /\ row \in Row /\ row.status = "active" /\ row.email = users[i].email
    <2>1. users[i] \in Row /\ Zero \in Tokens \cup Pins \cup {NoCode, Used, ByOauth, Zero}
      BY <1>b DEF IInv, TypeOK
    <2>2. QED
      BY <2>1, <1>b DEF Row
  <1>0. users' = [users EXCEPT ![i] = row] /\ reset' = [reset EXCEPT ![s] = "reset"]
    BY <1>b, Rows DEF SetPassword, IInv, TypeOK
  <1>e. reset'[s] = "reset" /\ \A y \in Resets \ {s} : reset'[y] = reset[y]
    BY <1>0 DEF IInv, TypeOK
  <1>d. /\ users' \in [RowIds -> Row] /\ DOMAIN users' = RowIds /\ users'[i] = row
        /\ \A j \in RowIds \ {i} : users'[j] = users[j]
        /\ \A j \in RowIds : /\ users'[j].email = users[j].email /\ (Stored(j)' <=> Stored(j))
                             /\ users[j].status = "active" => users'[j].status = "active"
        /\ \A email : Exists(email) => Exists(email)'
        /\ \A email : Active(email) => Active(email)'
        /\ RowsAgree'
    BY <1>0, <1>b, <1>c, Updated
  <1> HIDE DEF row
  <1>f. \A k \in Ids : <<"mail", k>> \in RowIds /\ <<"oauth", k>> \in RowIds
    BY Kinds
  <1>g. \A j \in RowIds : users'[j].temp = users[j].temp \/ users'[j].status = "active"
    BY <1>c, <1>d
  <1>h. \A r \in Regs : mine[r] # NoCode => mine[r] \in Ids
    BY Kinds DEF IInv, TypeOK
  <1>k. ASSUME NEW email, Confirmed(email) PROVE Confirmed(email)'
    BY <1>k, <1>a, <1>b, <1>e DEF Confirmed
  <1>1. TypeOK'
    <2>1. reset' \in [Resets -> {"idle", "failed", "reset", "crashed"} \cup Forgets]
      BY <1>0 DEF IInv, TypeOK, Forgetting
    <2>2. QED
      BY <1>a, <1>d, <2>1 DEF IInv, TypeOK
  <1>2. RowsAgree'
    BY <1>d
  <1>3. MailIdsAgree'
    <2>1. \A k \in Ids : /\ Stored(<<"mail", k>>)' <=> Stored(<<"mail", k>>)
                         /\ users'[<<"mail", k>>].email = users[<<"mail", k>>].email
      BY <1>d, <1>f
    <2>2. \A k \in Ids : users'[<<"mail", k>>].status # "none" <=> users[<<"mail", k>>].status # "none"
      BY <2>1 DEF Stored
    <2>3. QED
      BY <2>1, <2>2, <1>a, <1>h, Kinds DEF IInv, MailIdsAgree, Stored
  <1>4. OauthIdsAgree'
    <2>1. \A k \in Ids : users'[<<"oauth", k>>].status # "none" <=> users[<<"oauth", k>>].status # "none"
      BY <1>d, <1>f DEF Stored
    <2>2. QED
      BY <2>1, <1>a, Kinds DEF IInv, OauthIdsAgree, Stored
  <1>5. LinksAgree'
    <2>1. \A r \in Regs : reg[r] = "mail" => mine[r] \in Ids
      BY <1>h, Kinds DEF IInv, MailIdsAgree, TypeOK
    <2>2. \A r \in Regs : /\ link[r] # NoLink => mine[r] # NoCode /\ reg[r] \notin {"idle", "insert", "mail"}
                          /\ reg[r] = "mail" /\ r \notin disturbed =>
                               \/ users'[<<"mail", mine[r]>>].temp = tempToken
                               \/ users'[<<"mail", mine[r]>>].status = "active"
      BY <2>1, <1>d, <1>f, <1>g DEF IInv, LinksAgree
    <2>3. \A x \in Acts : act'[x] # "idle" => \E r \in Regs : link[r] # NoLink /\ opened[x] = link[r]
      BY <1>a, <1>b, <1>e DEF IInv, LinksAgree
    <2>4. QED
      BY <2>2, <2>3, <1>a DEF LinksAgree
  <1>6. CodesAgree'
    <2>1. \A t \in Resets : reset'[t] \in Forgets => code[reset'[t]] # NoCode
      BY <1>e, Kinds DEF IInv, CodesAgree
    <2>2. QED
      BY <2>1, <1>a, <1>d DEF IInv, CodesAgree
  <1>7. PasswordsAgree'
    <2>1. \A email : email = Email[reset[s]] => Confirmed(email)'
      BY <1>a, <1>b DEF Confirmed
    <2>2. QED
      BY <2>1, <1>a, <1>b, <1>c, <1>d, <1>k, Rows DEF IInv, PasswordsAgree
  <1>8. NextIdIsFree'
    <2>0. <<"mail", userId>> \in RowIds /\ <<"oauth", oauthId>> \in RowIds
      BY Kinds DEF IInv, TypeOK
    <2>1. /\ Stored(<<"mail", userId>>)' <=> Stored(<<"mail", userId>>)
          /\ Stored(<<"oauth", oauthId>>)' <=> Stored(<<"oauth", oauthId>>)
      BY <2>0, <1>a, <1>d DEF Stored
    <2>2. QED
      BY <2>1, <1>a DEF IInv, NextIdIsFree
  <1>9. LinkNamesItsAccount'
    BY <1>a, <1>d, <1>f, <1>h DEF IInv, LinkNamesItsAccount, LinksAgree
  <1>10. UndisturbedLinkWorks'
    BY <1>a, <1>d, <1>f, <1>g, <1>h DEF IInv, UndisturbedLinkWorks, LinksAgree, LinkNamesItsAccount
  <1>11. SessionWasConfirmed'
    BY <1>a, <1>k DEF IInv, SessionWasConfirmed
  <1>12. QED
    BY <1>1, <1>2, <1>3, <1>4, <1>5, <1>6, <1>7, <1>8, <1>9, <1>10, <1>11 DEF IInv

LEMMA RestartIInv ==
  ASSUME IInv, Restart
  PROVE  IInv'
  <1>0. /\ starts < MaxStarts /\ starts' = starts + 1
        /\ userId' = starts + 1 /\ tempToken' = starts + 1 /\ oauthId' = starts + 1 /\ pinCode' = starts + 1
        /\ reg' = [r \in Regs |-> IF reg[r] \in Registering THEN "crashed" ELSE reg[r]]
        /\ oauth' = [o \in Oauths |-> IF oauth[o] \in Signing THEN "crashed" ELSE oauth[o]]
        /\ login' = [l \in Logins |-> IF login[l] = "password" THEN "crashed" ELSE login[l]]
        /\ act' = [a \in Acts |-> IF act[a] = "matched" THEN "crashed" ELSE act[a]]
        /\ forget' = [f \in Forgets |-> IF forget[f] \in Forgetting THEN "crashed" ELSE forget[f]]
        /\ reset' = [s \in Resets |-> IF reset[s] \in Forgets THEN "crashed" ELSE reset[s]]
    BY DEF Restart
  <1>a. UNCHANGED <<users, mine, link, opened, code, disturbed>>
    BY DEF Restart, told
  <1>b. /\ starts + 1 \in Starts /\ starts < starts + 1
        /\ \A n \in Starts : n <= starts => n <= starts + 1 /\ n # starts + 1
        /\ \A r \in Regs \cup Oauths : r # starts + 1
    BY <1>0, RegistrationAssumption, Kinds DEF IInv, TypeOK, Starts
  <1>c. \A r \in Regs : reg'[r] \notin Registering /\ reg'[r] \in {reg[r], "crashed"} /\ (reg'[r] # reg[r] => reg[r] \in Registering)
    BY <1>0 DEF Registering
  <1>d. \A o \in Oauths : oauth'[o] \notin Signing /\ oauth'[o] \in {oauth[o], "crashed"} /\ (oauth'[o] # oauth[o] => oauth[o] \in Signing)
    BY <1>0 DEF Signing
  <1>e. \A f \in Forgets : forget'[f] \notin Forgetting /\ forget'[f] \in {forget[f], "crashed"}
    BY <1>0 DEF Forgetting
  <1>f. \A a \in Acts : act'[a] \in {act[a], "crashed"} /\ (act'[a] = "crashed" => act[a] # "idle")
    BY <1>0 DEF IInv, TypeOK
  <1>g. ASSUME NEW email, Confirmed(email) PROVE Confirmed(email)'
    BY <1>g, <1>a, <1>e, <1>f DEF Confirmed, Forgetting
  <1>h. ~Stored(<<"mail", starts + 1>>) /\ ~Stored(<<"oauth", starts + 1>>)
    BY <1>b DEF IInv, MailIdsAgree, OauthIdsAgree, TypeOK, Starts
  <1>i. /\ \A s \in Resets : reset'[s] \notin Forgets
        /\ \A l \in Logins : login'[l] # "password" /\ (login'[l] = "token" => login[l] = "token")
    BY <1>0, Kinds
  <1>1. TypeOK'
    <2>1. userId' \in Regs \cup Starts /\ tempToken' \in Tokens /\ oauthId' \in Oauths \cup Starts /\ pinCode' \in Pins /\ starts' \in Starts
      BY <1>0, <1>b DEF Tokens, Pins
    <2>2. /\ reg' \in [Regs -> Registering \cup {"idle", "exists", "blank", "sent", "crashed"}]
          /\ oauth' \in [Oauths -> Signing \cup {"idle", "refused", "token", "nobody", "error", "crashed"}]
      BY <1>0 DEF IInv, TypeOK
    <2>3. login' \in [Logins -> {"idle", "refused", "password", "token", "crashed"}]
      BY <1>0 DEF IInv, TypeOK
    <2>4. act' \in [Acts -> {"idle", "matched", "failed", "active", "crashed"}]
      BY <1>0 DEF IInv, TypeOK
    <2>5. /\ forget' \in [Forgets -> Forgetting \cup {"idle", "unknown", "sent", "crashed"}]
          /\ reset' \in [Resets -> {"idle", "failed", "reset", "crashed"} \cup Forgets]
      BY <1>0 DEF IInv, TypeOK
    <2>6. QED
      BY <1>a, <2>1, <2>2, <2>3, <2>4, <2>5 DEF IInv, TypeOK
  <1>2. RowsAgree'
    BY <1>a DEF IInv, RowsAgree, Stored
  <1>3. MailIdsAgree'
    BY <1>0, <1>a, <1>b, <1>c, <1>h DEF IInv, MailIdsAgree, Stored, Registering
  <1>4. OauthIdsAgree'
    BY <1>0, <1>a, <1>b, <1>d, <1>h DEF IInv, OauthIdsAgree, Stored, Signing
  <1>5. LinksAgree'
    BY <1>a, <1>c, <1>f DEF IInv, LinksAgree, Registering
  <1>6. CodesAgree'
    BY <1>a, <1>e, <1>i DEF IInv, CodesAgree, Exists, Active, Forgetting
  <1>7. PasswordsAgree'
    BY <1>a, <1>g DEF IInv, PasswordsAgree
  <1>8. NextIdIsFree'
    BY <1>0, <1>a, <1>h DEF NextIdIsFree, Stored
  <1>9. LinkNamesItsAccount'
    BY <1>a DEF IInv, LinkNamesItsAccount
  <1>10. UndisturbedLinkWorks'
    BY <1>a DEF IInv, UndisturbedLinkWorks
  <1>11. SessionWasConfirmed'
    BY <1>a, <1>g, <1>i DEF IInv, SessionWasConfirmed
  <1>12. QED
    BY <1>1, <1>2, <1>3, <1>4, <1>5, <1>6, <1>7, <1>8, <1>9, <1>10, <1>11 DEF IInv

LEMMA NextIInv == IInv /\ [Next]_vars => IInv'
  <1> SUFFICES ASSUME IInv, [Next]_vars PROVE IInv'
    OBVIOUS
  <1>1. ASSUME NEW r \in Regs, CheckEmail(r) \/ InsertMail(r) \/ SendLink(r) \/ ResetId(r) \/ ResetToken(r)
        PROVE  IInv'
    BY <1>1, CheckEmailIInv, InsertMailIInv, SendLinkIInv, ResetIdIInv, ResetTokenIInv
  <1>2. ASSUME NEW o \in Oauths, AskProvider(o) \/ InsertOauth(o) \/ ResetOauthId(o) \/ SignOauth(o)
        PROVE  IInv'
    BY <1>2, AskProviderIInv, InsertOauthIInv, ResetOauthIdIInv, SignOauthIInv
  <1>3. ASSUME NEW a \in Acts, OpenLink(a) \/ Activate(a) PROVE IInv'
    BY <1>3, OpenLinkIInv, ActivateIInv
  <1>4. ASSUME NEW l \in Logins, CheckActive(l) \/ CheckPassword(l) PROVE IInv'
    BY <1>4, CheckActiveIInv, CheckPasswordIInv
  <1>5. ASSUME NEW f \in Forgets, CheckAccount(f) \/ StorePin(f) \/ MailPin(f) \/ ResetPin(f) PROVE IInv'
    BY <1>5, CheckAccountIInv, StorePinIInv, MailPinIInv, ResetPinIInv
  <1>6. ASSUME NEW s \in Resets, CompareCode(s) \/ SetPassword(s) PROVE IInv'
    BY <1>6, CompareCodeIInv, SetPasswordIInv
  <1>7. CASE Restart
    BY <1>7, RestartIInv
  <1>8. CASE UNCHANGED vars
    <2>1. UNCHANGED <<userId, tempToken, oauthId, pinCode, starts, users, reg, oauth, login, act, forget, reset, mine, link, opened, code, disturbed>>
      BY <1>8 DEF vars, atoms, pcs, told
    <2> USE <2>1 DEF IInv
    <2>2. TypeOK' /\ RowsAgree' /\ MailIdsAgree' /\ OauthIdsAgree'
      BY DEF TypeOK, RowsAgree, MailIdsAgree, OauthIdsAgree, Stored
    <2>3. LinksAgree' /\ CodesAgree' /\ PasswordsAgree'
      BY DEF LinksAgree, CodesAgree, PasswordsAgree, Exists, Active, Confirmed
    <2>4. NextIdIsFree' /\ LinkNamesItsAccount' /\ UndisturbedLinkWorks' /\ SessionWasConfirmed'
      BY DEF NextIdIsFree, LinkNamesItsAccount, UndisturbedLinkWorks, SessionWasConfirmed, Stored, Confirmed
    <2>5. QED
      BY <2>2, <2>3, <2>4
  <1>9. QED
    BY <1>1, <1>2, <1>3, <1>4, <1>5, <1>6, <1>7, <1>8 DEF Next

(* The invariant of the registrations holds in every state: rows, ids,     *)
(* links, codes and requests agree after every step and every restart.     *)
THEOREM RegistrationInvariant == Spec => []IInv
  BY InitIInv, NextIInv, PTL DEF Spec

(* Types, the account each mailed link names, and a free next id.          *)
THEOREM AccountsStayRight == Spec => []AccountsAreRight
  <1>1. IInv => AccountsAreRight
    BY DEF IInv, AccountsAreRight
  <1>2. QED
    BY <1>1, RegistrationInvariant, PTL

(* A mailed link works until its account is active, unless its token was   *)
(* reset between the INSERT and the mail.                                  *)
THEOREM LinksWork == Spec => []UndisturbedLinkWorks
  <1>1. IInv => UndisturbedLinkWorks
    BY DEF IInv
  <1>2. QED
    BY <1>1, RegistrationInvariant, PTL

(* A session for a password follows an opened link or a reset code that    *)
(* was mailed to the address.                                              *)
THEOREM SessionsAreConfirmed == Spec => []SessionWasConfirmed
  <1>1. IInv => SessionWasConfirmed
    BY DEF IInv
  <1>2. QED
    BY <1>1, RegistrationInvariant, PTL
===============================================================================
