----------------------------- MODULE CodesProofs -----------------------------
(***************************************************************************)
(* Proofs about Codes for every set of accounts, phones and requests: the  *)
(* inductive invariant and the safety properties it implies.               *)
(***************************************************************************)
EXTENDS Codes, TLAPS

LEMMA InitIInv == Init => IInv
  <1> SUFFICES ASSUME Init PROVE IInv
    OBVIOUS
  <1> USE CodesAssumption DEF Init
  <1>0. /\ \A k \in Atoms : <<k, 0>> \in Pins
        /\ \A k \in Atoms : pin[k][2] = 0 /\ 0 \in 0 .. starts
        /\ \A a \in Accounts : users[a] \in User /\ users[a].phone = None /\ users[a].temp = None
    BY DEF Pins, Starts, User
  <1>1. TypeOK
    BY <1>0 DEF TypeOK, Starts, Waiting, At, Busy
  <1>2. PinsAreMade
    BY <1>0 DEF PinsAreMade, Made, Live
  <1>3. LastAgrees
    BY DEF TypeOK, LastAgrees, Past, Waiting, Accounts
  <1>4. StoredAgrees
    BY DEF TypeOK, StoredAgrees, Live, Code, Waiting, Accounts
  <1>5. RegsAgree
    BY DEF TypeOK, RegsAgree, Confirmed, Waiting, Accounts
  <1>6. LoginsAgree
    BY DEF TypeOK, LoginsAgree, At, Confirmed, Waiting, Accounts
  <1>7. GivenAgrees
    BY DEF TypeOK, GivenAgrees, Waiting, Accounts
  <1>8. CodesAreDistinct
    BY DEF TypeOK, CodesAreDistinct, Live, Waiting, Accounts
  <1>9. UndisturbedCodeWorks
    BY DEF TypeOK, UndisturbedCodeWorks, Waiting, Accounts
  <1>10. SessionWasConfirmed
    BY DEF TypeOK, SessionWasConfirmed, Confirmed, Waiting, Accounts
  <1>11. QED
    BY <1>1, <1>2, <1>3, <1>4, <1>5, <1>6, <1>7, <1>8, <1>9, <1>10 DEF IInv

(* The kinds of requests are apart, and each has an atom.                  *)
LEMMA Kinds ==
  /\ \A q \in Senders : /\ Atom(q) \in Atoms /\ q # None /\ q \notin Starts
                        /\ Phone[q] \in Phones /\ <<Atom(q), q>> \in Pins
                        /\ <<Atom(q), q>>[1] = Atom(q) /\ <<Atom(q), q>>[2] = q
  /\ \A q \in Regs : q \in Accounts /\ q \in Senders /\ q \notin Resends \cup Forgets \cup Mails \cup Adds \cup Holders
  /\ \A q \in Adds : Owner[q] \in Holders /\ Owner[q] \in Accounts /\ q \notin Regs \cup Mails
  /\ \A a \in Accounts : a # None /\ a \notin Waiting /\ (a \notin Regs <=> a \in Holders)
  /\ None \notin Phones /\ None \notin Pins /\ Used \notin Pins /\ None # Used /\ None \notin Waiting
  /\ \A l \in Logins : Phone[l] \in Phones
  BY CodesAssumption DEF Senders, Accounts, Atom, Atoms, Pins

LEMMA Rows ==
  ASSUME TypeOK
  PROVE  /\ \A a \in Accounts : /\ users[a] \in User /\ users[a].phone \in Phones \cup {None}
                                /\ users[a].temp \in Pins \cup {None, Used}
                                /\ users[a].status \in {"none", "inactive", "active"}
         /\ \A a, b \in Accounts : users[a].phone = users[b].phone /\ users[a].phone # None => a = b
         /\ \A q \in Senders : Code(q) \in Pins /\ Code(q)[1] = Atom(q)
  <1>1. \A a \in Accounts : users[a] \in User
    BY DEF TypeOK
  <1>2. \A a \in Accounts : users[a].phone \in Phones \cup {None} /\ users[a].temp \in Pins \cup {None, Used}
                            /\ users[a].status \in {"none", "inactive", "active"}
    BY <1>1 DEF User
  <1>3. \A q \in Senders : Code(q) \in Pins /\ Code(q)[1] = Atom(q)
    BY Kinds DEF TypeOK, Code
  <1>4. QED
    BY <1>1, <1>2, <1>3 DEF TypeOK, At

LEMMA BeginIInv ==
  ASSUME IInv, NEW q \in Senders, Begin(q)
  PROVE  IInv'
  <1> USE DEF IInv, Begin, SendGoto, senderSame, told, history
  <1>1. TypeOK'
    BY CodesAssumption DEF TypeOK, Busy, At
  <1>2. PinsAreMade'
    BY DEF TypeOK, PinsAreMade, Made, Live
  <1>3. LastAgrees'
    BY DEF TypeOK, LastAgrees, Past
  <1>4. StoredAgrees'
    BY DEF TypeOK, StoredAgrees, Live, Code
  <1>5. RegsAgree'
    BY DEF TypeOK, RegsAgree, Confirmed
  <1>6. LoginsAgree'
    BY DEF TypeOK, LoginsAgree, At, Confirmed
  <1>7. GivenAgrees'
    BY DEF TypeOK, GivenAgrees
  <1>8. CodesAreDistinct'
    BY DEF TypeOK, CodesAreDistinct, Live
  <1>9. UndisturbedCodeWorks'
    BY DEF TypeOK, UndisturbedCodeWorks
  <1>10. SessionWasConfirmed'
    BY DEF TypeOK, SessionWasConfirmed, Confirmed
  <1>11. QED
    BY <1>1, <1>2, <1>3, <1>4, <1>5, <1>6, <1>7, <1>8, <1>9, <1>10 DEF IInv

(* The store is refused: only the request itself moves.                    *)
LEMMA ClashIInv ==
  ASSUME IInv, NEW q \in Senders, StoreCode(q), Clashes(q)
  PROVE  IInv'
  <1>0. /\ send[q] = "store" /\ send' = [send EXCEPT ![q] = "error"]
        /\ UNCHANGED <<pin, starts, users, code, use, given, login, last, disturbed, overlapped, moved>>
    BY DEF StoreCode, SendGoto, senderSame, history
  <1> USE <1>0 DEF IInv
  <1>1. TypeOK'
    BY DEF TypeOK, At
  <1>2. PinsAreMade'
    BY DEF TypeOK, PinsAreMade, Made, Live
  <1>3. LastAgrees'
    BY DEF TypeOK, LastAgrees, Past
  <1>4. StoredAgrees'
    BY DEF TypeOK, StoredAgrees, Live, Code
  <1>5. RegsAgree' /\ LoginsAgree' /\ GivenAgrees'
    BY DEF TypeOK, RegsAgree, Confirmed, LoginsAgree, At, GivenAgrees
  <1>6. CodesAreDistinct'
    BY DEF TypeOK, CodesAreDistinct, Live
  <1>7. UndisturbedCodeWorks' /\ SessionWasConfirmed'
    BY DEF UndisturbedCodeWorks, SessionWasConfirmed, Confirmed
  <1>8. QED
    BY <1>1, <1>2, <1>3, <1>4, <1>5, <1>6, <1>7

(* The code is stored in the row of one account, or of none.               *)
LEMMA StoreIInv ==
  ASSUME IInv, NEW q \in Senders, StoreCode(q), ~Clashes(q)
  PROVE  IInv'
  <1> DEFINE L == {l \in Logins : login[l] \in {"password", "sign"} /\ Leaves(q, Phone[l])}
             S == {s \in {q} : \E t \in Senders \ {q} : Atom(t) = Atom(q) /\ send[t] \in {"send", "reset"}}
  <1>0. /\ send[q] = "store" /\ send' = [send EXCEPT ![q] = "send"]
        /\ users' = [a \in Accounts |-> IF a \in Target(q) THEN Row(q, a) ELSE users[a]]
        /\ last' = [a \in Accounts |-> IF a \in Target(q) THEN q ELSE last[a]]
        /\ overlapped' = overlapped \cup S
        /\ moved' = moved \cup L
        /\ UNCHANGED <<pin, starts, code, use, given, login, disturbed>>
    BY DEF StoreCode, SendGoto, senderSame
  <1>a. Target(q) \subseteq Accounts /\ \A a, b \in Target(q) : a = b
    <2>1. At(Phone[q]) \subseteq Accounts /\ \A a, b \in At(Phone[q]) : a = b
      BY Kinds DEF At, IInv, TypeOK
    <2>2. QED
      BY <2>1, Kinds DEF Target
  <1>b. ASSUME NEW a \in Target(q)
        PROVE  /\ Row(q, a) \in User /\ Row(q, a).phone = Phone[q] /\ Row(q, a).temp = Code(q)
               /\ Row(q, a).status = IF q \in Regs THEN "inactive" ELSE users[a].status
    <2>1. users[a] \in User /\ Code(q) \in Pins
      BY <1>a, <1>b, Rows DEF IInv
    <2>2. CASE q \in Regs
      BY <2>1, <2>2, Kinds DEF Row, User
    <2>3. CASE q \notin Regs /\ q \in Adds
      BY <2>1, <2>3, Kinds DEF Row, User
    <2>4. CASE q \notin Regs /\ q \notin Adds
      <3>1. users[a].phone = Phone[q]
        BY <1>b, <2>4 DEF Target, At
      <3>2. QED
        BY <2>1, <2>4, <3>1 DEF Row, User
    <2>5. QED
      BY <2>2, <2>3, <2>4
  <1>c. \A a \in Accounts \ Target(q) : users'[a] = users[a] /\ last'[a] = last[a]
    BY <1>0
  <1>d. \A a \in Target(q) : /\ users'[a] \in User /\ users'[a].phone = Phone[q] /\ users'[a].temp = Code(q)
                             /\ users'[a].status = IF q \in Regs THEN "inactive" ELSE users[a].status
                             /\ last'[a] = q
    BY <1>0, <1>a, <1>b
  <1>e. \A b \in Accounts \ Target(q) : q \notin Mails => users[b].phone # Phone[q]
    BY Kinds DEF Clashes, Target, At
  <1>f. q \in Mails => Target(q) = {}
    BY Kinds DEF Target
  <1>g. \A t \in Senders : /\ t # q => send'[t] = send[t]
                           /\ send'[q] = "send"
    BY <1>0 DEF IInv, TypeOK
  <1>h. UNCHANGED <<pin, starts, code, use, given, login, disturbed>>
    BY <1>0
  <1>i. overlapped \subseteq overlapped' /\ moved \subseteq moved'
    BY <1>0
  <1>j. \A a \in Accounts : last[a] # q
    BY <1>0, Kinds DEF IInv, LastAgrees, Past
  <1>k. Code(q) \in Pins /\ Code(q)[1] = Atom(q) /\ Made(Code(q)) /\ Atom(q) \in Atoms
    BY Rows, Kinds DEF IInv, PinsAreMade, Code
  <1>l. \A x : Made(x) => Made(x)'
    BY <1>0, <1>g, <1>h DEF Made
  <1>m. \A phone : Confirmed(phone)' <=> Confirmed(phone)
    BY <1>h DEF Confirmed
  <1>1. TypeOK'
    <2>1. users' \in [Accounts -> User]
      BY <1>0, <1>c, <1>d DEF IInv, TypeOK
    <2>2. \A phone \in Phones : \A a, b \in {x \in Accounts : users'[x].phone = phone} : a = b
      BY <1>a, <1>c, <1>d, <1>e, <1>f, Rows, Kinds DEF IInv
    <2>3. last' \in [Accounts -> Senders \cup {None}] /\ send' \in [Senders -> Busy \cup {"idle", "refused", "error", "unsent", "sent", "crashed"}]
      BY <1>0 DEF IInv, TypeOK, Busy
    <2>4. overlapped' \subseteq Senders /\ moved' \subseteq Logins
      BY <1>0 DEF IInv, TypeOK
    <2>5. QED
      BY <1>h, <2>1, <2>2, <2>3, <2>4 DEF IInv, TypeOK, At
  <1> HIDE DEF L, S
  <1>2. PinsAreMade'
    BY <1>c, <1>d, <1>h, <1>k, <1>l DEF IInv, PinsAreMade, Live
  <1>3. LastAgrees'
    BY <1>0, <1>a, <1>c, <1>d, <1>g, <1>h, <1>j, Kinds DEF IInv, LastAgrees, Past
  <1>4. StoredAgrees'
    <2> SUFFICES ASSUME NEW a \in Accounts
                 PROVE  /\ users'[a].temp \notin {None, Used} =>
                             /\ last'[a] # None /\ users'[a].temp[1] = Atom(last'[a])
                             /\ send'[last'[a]] \in {"sent", "crashed"} => users'[a].temp # Code(last'[a])
                        /\ last'[a] # None /\ last'[a] \notin disturbed /\ send'[last'[a]] = "send" =>
                             users'[a].temp \in {Code(last'[a]), Used}
      BY <1>h DEF StoredAgrees, Live, Code
    <2>1. CASE a \in Target(q)
      BY <2>1, <1>d, <1>g, <1>k, Kinds
    <2>2. CASE a \notin Target(q)
      <3>1. last[a] # None => last[a] \in Senders /\ last[a] # q
        BY <1>j DEF IInv, LastAgrees
      <3>2. QED
        BY <2>2, <3>1, <1>c, <1>g DEF IInv, StoredAgrees, Live
    <2>3. QED
      BY <2>1, <2>2
  <1>5. RegsAgree'
    <2> SUFFICES ASSUME NEW r \in Regs
                 PROVE  /\ send'[r] \in {"idle", "store"} => users'[r].phone = None
                        /\ users'[r].phone \in {None, Phone[r]}
                        /\ users'[r].status = "active" => users'[r].phone # None /\ Confirmed(Phone[r])
      BY <1>m DEF RegsAgree
    <2>1. CASE r \notin Target(q)
      BY <2>1, <1>c, <1>g, Kinds DEF IInv, RegsAgree
    <2>2. CASE r \in Target(q)
      <3>1. q \in Regs => q = r
        BY <2>2 DEF Target
      <3>2. q \notin Regs => q # r /\ users[r].phone = Phone[q]
        BY <2>2, Kinds DEF Target, At
      <3>3. QED
        BY <2>2, <3>1, <3>2, <1>d, <1>g, Kinds DEF IInv, RegsAgree
    <2>3. QED
      BY <2>1, <2>2
  <1>6. LoginsAgree'
    <2> SUFFICES ASSUME NEW l \in Logins \ moved', login[l] \in {"password", "sign"}
                 PROVE  /\ At(Phone[l])' # {}
                        /\ \A r \in Regs : r \in At(Phone[l])' => Confirmed(Phone[l])
      BY <1>h, <1>m DEF LoginsAgree
    <2>1. l \notin moved /\ ~Leaves(q, Phone[l])
      BY <1>0 DEF L
    <2>2. PICK a \in Accounts : users[a].phone = Phone[l]
      BY <2>1 DEF IInv, LoginsAgree, At
    <2>3. users'[a].phone = Phone[l]
      <3>1. CASE a \notin Target(q)
        BY <2>2, <3>1, <1>c
      <3>2. CASE a \in Target(q)
        <4>1. CASE q \in Regs
          BY <2>2, <3>2, <4>1, <1>0, Kinds DEF Target, IInv, RegsAgree
        <4>2. CASE q \in Adds
          BY <2>1, <2>2, <3>2, <4>2, <1>d, Kinds DEF Target, Leaves
        <4>3. CASE q \notin Regs \cup Adds
          BY <2>2, <3>2, <4>3, <1>d, <1>f DEF Target, At
        <4>4. QED
          BY <4>1, <4>2, <4>3
      <3>3. QED
        BY <3>1, <3>2
    <2>4. ASSUME NEW r \in Regs, users'[r].phone = Phone[l] PROVE r = a
      BY <2>3, <2>4, <1>1, Kinds DEF TypeOK, At
    <2>5. a \in Regs => Confirmed(Phone[l])
      BY <2>1, <2>2 DEF IInv, LoginsAgree, At
    <2>6. QED
      BY <2>3, <2>4, <2>5, Kinds DEF At
  <1>7. GivenAgrees'
    BY <1>h DEF IInv, GivenAgrees
  <1>8. CodesAreDistinct'
    <2> SUFFICES ASSUME NEW a \in Accounts, NEW b \in Accounts, a # b,
                        users'[a].temp \notin {None, Used}, users'[a].temp = users'[b].temp
                 PROVE  {last'[a], last'[b]} \cap (overlapped' \cup {t \in Senders : send'[t] = "unsent"}) # {}
      BY DEF CodesAreDistinct, Live
    <2>1. ASSUME NEW c \in Accounts \ Target(q), users[c].temp = Code(q)
          PROVE  q \in overlapped' \/ (send[last[c]] = "unsent" /\ last[c] \in Senders /\ last[c] # q)
      <3>1. Live(c)
        BY <2>1, <1>k, Kinds DEF Live
      <3>2. last[c] \in Senders \ {q} /\ Atom(last[c]) = Atom(q) /\ send[last[c]] \in {"send", "reset", "unsent"}
        BY <2>1, <3>1, <1>j, <1>k DEF IInv, StoredAgrees, LastAgrees, Past, Code
      <3>3. QED
        BY <3>2, <1>0 DEF S
    <2>2. CASE a \notin Target(q) /\ b \notin Target(q)
      <3>1. {last[a], last[b]} \cap (overlapped \cup {t \in Senders : send[t] = "unsent"}) # {}
        BY <2>2, <1>c DEF IInv, CodesAreDistinct, Live
      <3>2. QED
        BY <2>2, <3>1, <1>0, <1>c, <1>g, <1>i
    <2>3. CASE a \in Target(q) /\ b \notin Target(q)
      BY <2>1, <2>3, <1>c, <1>d, <1>g
    <2>4. CASE b \in Target(q) /\ a \notin Target(q)
      BY <2>1, <2>4, <1>c, <1>d, <1>g
    <2>5. QED
      BY <2>2, <2>3, <2>4, <1>a
  <1>9. UndisturbedCodeWorks'
    BY <1>0, <1>a, <1>c, <1>d, <1>h, Kinds DEF IInv, UndisturbedCodeWorks, LastAgrees
  <1>10. SessionWasConfirmed'
    BY <1>h, <1>i, <1>m DEF IInv, SessionWasConfirmed
  <1>11. QED
    BY <1>1, <1>2, <1>3, <1>4, <1>5, <1>6, <1>7, <1>8, <1>9, <1>10 DEF IInv

LEMMA StoreCodeIInv ==
  ASSUME IInv, NEW q \in Senders, StoreCode(q)
  PROVE  IInv'
  BY ClashIInv, StoreIInv

LEMMA SendCodeIInv ==
  ASSUME IInv, NEW q \in Senders, SendCode(q)
  PROVE  IInv'
  <1>0. /\ send[q] = "send"
        /\ \E next \in {"reset", "unsent"} : send' = [send EXCEPT ![q] = next]
        /\ code' \in {code, [code EXCEPT ![q] = Code(q)]}
        /\ UNCHANGED <<pin, starts, users, use, given, login, last, disturbed, overlapped, moved>>
    BY DEF SendCode, SendGoto, senderSame, history
  <1>a. UNCHANGED <<pin, starts, users, use, given, login, last, disturbed, overlapped, moved>>
    BY <1>0
  <1>b. /\ send[q] = "send" /\ send'[q] \in {"reset", "unsent"} /\ code'[q] \in {code[q], Code(q)}
        /\ \A t \in Senders \ {q} : send'[t] = send[t] /\ code'[t] = code[t]
    BY <1>0 DEF IInv, TypeOK
  <1>c. \A x : Made(x) => Made(x)'
    BY <1>a, <1>b DEF Made
  <1>1. TypeOK'
    BY <1>0, <1>a, Rows DEF IInv, TypeOK, Busy, At
  <1>2. PinsAreMade'
    BY <1>a, <1>c DEF IInv, PinsAreMade, Live
  <1>3. LastAgrees'
    BY <1>a, <1>b DEF IInv, LastAgrees, Past
  <1>4. StoredAgrees'
    BY <1>a, <1>b DEF IInv, LastAgrees, StoredAgrees, Live, Code
  <1>5. RegsAgree'
    BY <1>a, <1>b, Kinds DEF IInv, RegsAgree, Confirmed
  <1>6. LoginsAgree'
    BY <1>a DEF IInv, LoginsAgree, At, Confirmed
  <1>7. GivenAgrees'
    BY <1>a DEF IInv, GivenAgrees
  <1>8. CodesAreDistinct'
    BY <1>a, <1>b DEF IInv, CodesAreDistinct, Live
  <1>9. UndisturbedCodeWorks'
    BY <1>a, <1>b DEF IInv, LastAgrees, StoredAgrees, UndisturbedCodeWorks
  <1>10. SessionWasConfirmed'
    BY <1>a DEF IInv, SessionWasConfirmed, Confirmed
  <1>11. QED
    BY <1>1, <1>2, <1>3, <1>4, <1>5, <1>6, <1>7, <1>8, <1>9, <1>10 DEF IInv

LEMMA ResetCodeIInv ==
  ASSUME IInv, NEW q \in Senders, ResetCode(q)
  PROVE  IInv'
  <1>0. /\ send[q] = "reset" /\ send' = [send EXCEPT ![q] = "sent"]
        /\ pin' = [pin EXCEPT ![Atom(q)] = <<Atom(q), q>>]
        /\ disturbed' = disturbed \cup {s \in Senders \ {q} : Atom(s) = Atom(q) /\ send[s] = "send"}
    BY DEF ResetCode, SendGoto
  <1>a. UNCHANGED <<starts, users, code, use, given, login, last, overlapped, moved>>
    BY DEF ResetCode, senderSame
  <1>b. send'[q] = "sent" /\ \A t \in Senders \ {q} : send'[t] = send[t]
    BY <1>0 DEF IInv, TypeOK
  <1>c. \A t \in Senders : pin'[Atom(t)] = IF Atom(t) = Atom(q) THEN <<Atom(q), q>> ELSE pin[Atom(t)]
    BY <1>0, Kinds DEF Code, IInv, TypeOK
  <1>d. \A a \in Accounts : Live(a) => users[a].temp # <<Atom(q), q>>
    <2> SUFFICES ASSUME NEW a \in Accounts, Live(a), users[a].temp = <<Atom(q), q>> PROVE FALSE
      OBVIOUS
    <2>1. 0 .. starts \subseteq Starts
      BY CodesAssumption DEF IInv, TypeOK, Starts
    <2>2. users[a].temp[2] = q /\ Made(users[a].temp)
      BY Kinds DEF IInv, PinsAreMade
    <2>3. QED
      BY <1>0, <2>1, <2>2, Kinds DEF Made
  <1>e. /\ disturbed \subseteq disturbed'
        /\ \A t \in Senders \ disturbed' : t # q /\ send[t] = "send" => Atom(t) # Atom(q)
    BY <1>0
  <1>f. \A x : Made(x) => Made(x)'
    BY <1>0, <1>a, <1>b DEF Made
  <1>g. Made(<<Atom(q), q>>)' /\ \A k \in Atoms : pin'[k] \in {pin[k], <<Atom(q), q>>}
    BY <1>0, <1>b, Kinds DEF Made, IInv, TypeOK
  <1>1. TypeOK'
    <2>1. pin' \in [Atoms -> Pins] /\ \A k \in Atoms : pin'[k][1] = k
      BY <1>0, Kinds DEF IInv, TypeOK
    <2>2. send' \in [Senders -> Busy \cup {"idle", "refused", "error", "unsent", "sent", "crashed"}]
      BY <1>0 DEF IInv, TypeOK
    <2>3. disturbed' \subseteq Senders
      BY <1>0 DEF IInv, TypeOK
    <2>4. QED
      BY <1>a, <2>1, <2>2, <2>3 DEF IInv, TypeOK, At
  <1>2. PinsAreMade'
    BY <1>a, <1>f, <1>g DEF IInv, PinsAreMade, Live
  <1>3. LastAgrees'
    BY <1>0, <1>a, <1>b DEF IInv, LastAgrees, Past
  <1>4. StoredAgrees'
    <2> SUFFICES ASSUME NEW a \in Accounts
                 PROVE  /\ Live(a) => /\ last[a] # None /\ users[a].temp[1] = Atom(last[a])
                                      /\ send'[last[a]] \in {"sent", "crashed"} => users[a].temp # pin'[Atom(last[a])]
                        /\ last[a] # None /\ last[a] \notin disturbed' /\ send'[last[a]] = "send" =>
                             users[a].temp \in {pin'[Atom(last[a])], Used}
      BY <1>a DEF StoredAgrees, Live, Code
    <2>1. last[a] # None => last[a] \in Senders
      BY DEF IInv, LastAgrees
    <2>2. Live(a) => last[a] # None /\ users[a].temp[1] = Atom(last[a])
      BY DEF IInv, StoredAgrees
    <2>3. ASSUME Live(a), send'[last[a]] \in {"sent", "crashed"} PROVE users[a].temp # pin'[Atom(last[a])]
      <3>1. CASE Atom(last[a]) = Atom(q)
        BY <2>1, <2>2, <2>3, <3>1, <1>c, <1>d
      <3>2. CASE Atom(last[a]) # Atom(q)
        BY <2>1, <2>2, <2>3, <3>2, <1>b, <1>c DEF IInv, StoredAgrees, Code
      <3>3. QED
        BY <3>1, <3>2
    <2>4. ASSUME last[a] # None, last[a] \notin disturbed', send'[last[a]] = "send"
          PROVE  users[a].temp \in {pin'[Atom(last[a])], Used}
      BY <2>1, <2>4, <1>b, <1>c, <1>e DEF IInv, StoredAgrees, Code
    <2>5. QED
      BY <2>2, <2>3, <2>4
  <1>5. RegsAgree'
    BY <1>0, <1>a, <1>b, Kinds DEF IInv, RegsAgree, Confirmed
  <1>6. LoginsAgree'
    BY <1>a DEF IInv, LoginsAgree, At, Confirmed
  <1>7. GivenAgrees'
    BY <1>a DEF IInv, GivenAgrees
  <1>8. CodesAreDistinct'
    BY <1>0, <1>a, <1>b DEF IInv, CodesAreDistinct, Live
  <1>9. UndisturbedCodeWorks'
    BY <1>a, <1>e DEF IInv, UndisturbedCodeWorks
  <1>10. SessionWasConfirmed'
    BY <1>a DEF IInv, SessionWasConfirmed, Confirmed
  <1>11. QED
    BY <1>1, <1>2, <1>3, <1>4, <1>5, <1>6, <1>7, <1>8, <1>9, <1>10 DEF IInv

LEMMA CompareIInv ==
  ASSUME IInv, NEW u \in Acts \cup Resets, Compare(u)
  PROVE  IInv'
  <1> USE DEF IInv, Compare, useSame, told, history
  <1>1. TypeOK'
    BY CodesAssumption DEF TypeOK, Busy, At
  <1>2. PinsAreMade'
    BY DEF TypeOK, PinsAreMade, Made, Live
  <1>3. LastAgrees'
    BY DEF TypeOK, LastAgrees, Past
  <1>4. StoredAgrees'
    BY DEF TypeOK, StoredAgrees, Live, Code
  <1>5. RegsAgree'
    BY DEF TypeOK, RegsAgree, Confirmed
  <1>6. LoginsAgree'
    BY DEF TypeOK, LoginsAgree, At, Confirmed
  <1>7. GivenAgrees'
    BY DEF TypeOK, GivenAgrees
  <1>8. CodesAreDistinct'
    BY DEF TypeOK, CodesAreDistinct, Live
  <1>9. UndisturbedCodeWorks'
    BY DEF TypeOK, UndisturbedCodeWorks
  <1>10. SessionWasConfirmed'
    BY DEF TypeOK, SessionWasConfirmed, Confirmed
  <1>11. QED
    BY <1>1, <1>2, <1>3, <1>4, <1>5, <1>6, <1>7, <1>8, <1>9, <1>10 DEF IInv

LEMMA UseCodeIInv ==
  ASSUME IInv, NEW u \in Acts \cup Resets, UseCode(u)
  PROVE  IInv'
  <1> DEFINE T == At(Phone[given[u]])
             Row2(a) == [users[a] EXCEPT !.temp = Used, !.status = IF u \in Acts THEN "active" ELSE @]
  <1>0. /\ use[u] = "matched" /\ use' = [use EXCEPT ![u] = "used"]
        /\ users' = [a \in Accounts |-> IF a \in T THEN Row2(a) ELSE users[a]]
    BY DEF UseCode
  <1>a. UNCHANGED <<pin, starts, send, code, given, login, last, disturbed, overlapped, moved>>
    BY DEF UseCode, useSame, history
  <1>b. given[u] \in Senders /\ T \subseteq Accounts /\ \A a \in T : users[a].phone = Phone[given[u]]
    BY <1>0 DEF IInv, GivenAgrees, At
  <1>c. ASSUME NEW a \in Accounts
        PROVE  /\ Row2(a) \in User /\ Row2(a).phone = users[a].phone /\ Row2(a).temp = Used
               /\ Row2(a).status = IF u \in Acts THEN "active" ELSE users[a].status
    BY <1>c, Rows DEF User, IInv
  <1>d. \A a \in Accounts \ T : users'[a] = users[a]
    BY <1>0
  <1>e. \A a \in T : /\ users'[a] \in User /\ users'[a].temp = Used /\ users'[a].phone = users[a].phone
                     /\ users'[a].status = IF u \in Acts THEN "active" ELSE users[a].status
    BY <1>0, <1>b, <1>c
  <1> HIDE DEF Row2, T
  <1>f. \A a \in Accounts : users'[a].phone = users[a].phone
    BY <1>d, <1>e
  <1>g. \A a \in Accounts : users'[a].temp \notin {None, Used} => users'[a].temp = users[a].temp /\ users[a].temp \notin {None, Used}
    BY <1>d, <1>e
  <1>h. \A phone : At(phone)' = At(phone)
    BY <1>f DEF At
  <1>i. /\ use'[u] = "used" /\ \A v \in (Acts \cup Resets) \ {u} : use'[v] = use[v]
    BY <1>0 DEF IInv, TypeOK
  <1>j. /\ \A phone : Confirmed(phone) => Confirmed(phone)'
        /\ \A phone : u \in Acts /\ phone = Phone[given[u]] => Confirmed(phone)'
    BY <1>a, <1>i DEF Confirmed
  <1>k. \A a \in Accounts : users'[a].temp \in {users[a].temp, Used}
    BY <1>d, <1>e
  <1>1. TypeOK'
    <2>1. users' \in [Accounts -> User]
      BY <1>0, <1>d, <1>e, Rows DEF IInv, TypeOK
    <2>2. use' \in [Acts \cup Resets -> {"idle", "matched", "failed", "used", "crashed"}]
      BY <1>0 DEF IInv, TypeOK
    <2>3. QED
      BY <1>a, <1>h, <2>1, <2>2 DEF IInv, TypeOK
  <1>2. PinsAreMade'
    BY <1>a, <1>g DEF IInv, PinsAreMade, Made, Live
  <1>3. LastAgrees'
    BY <1>a DEF IInv, LastAgrees, Past
  <1>4. StoredAgrees'
    BY <1>a, <1>g, <1>k DEF IInv, StoredAgrees, Live, Code
  <1>5. RegsAgree'
    <2> SUFFICES ASSUME NEW r \in Regs
                 PROVE  /\ send[r] \in {"idle", "store"} => users'[r].phone = None
                        /\ users'[r].phone \in {None, Phone[r]}
                        /\ users'[r].status = "active" => users'[r].phone # None /\ Confirmed(Phone[r])'
      BY <1>a DEF RegsAgree
    <2>1. r \in Accounts /\ users'[r].phone = users[r].phone
      BY <1>f, Kinds
    <2>2. users'[r].status = "active" => users'[r].phone # None /\ Confirmed(Phone[r])'
      <3>1. CASE r \in T /\ u \in Acts
        <4>1. users[r].phone = Phone[given[u]] /\ Phone[given[u]] # None
          BY <3>1, <1>b, Kinds
        <4>2. Phone[r] = Phone[given[u]]
          BY <4>1 DEF IInv, RegsAgree
        <4>3. QED
          BY <2>1, <3>1, <4>1, <4>2, <1>j
      <3>2. CASE ~(r \in T /\ u \in Acts)
        BY <2>1, <3>2, <1>d, <1>e, <1>j DEF IInv, RegsAgree
      <3>3. QED
        BY <3>1, <3>2
    <2>3. QED
      BY <2>1, <2>2 DEF IInv, RegsAgree
  <1>6. LoginsAgree'
    BY <1>a, <1>h, <1>j DEF IInv, LoginsAgree
  <1>7. GivenAgrees'
    BY <1>0, <1>a, <1>i DEF IInv, GivenAgrees
  <1>8. CodesAreDistinct'
    BY <1>a, <1>g DEF IInv, CodesAreDistinct, Live
  <1>9. UndisturbedCodeWorks'
    BY <1>a, <1>k DEF IInv, UndisturbedCodeWorks
  <1>10. SessionWasConfirmed'
    BY <1>a, <1>j DEF IInv, SessionWasConfirmed
  <1>11. QED
    BY <1>1, <1>2, <1>3, <1>4, <1>5, <1>6, <1>7, <1>8, <1>9, <1>10 DEF IInv

LEMMA CheckActiveIInv ==
  ASSUME IInv, NEW l \in Logins, CheckActive(l)
  PROVE  IInv'
  <1>a. /\ \E next \in {"password", "refused"} : login' = [login EXCEPT ![l] = next]
        /\ UNCHANGED <<pin, starts, users, send, use, code, given, last, disturbed, overlapped, moved>>
    BY DEF CheckActive, LoginGoto, told, history
  <1>b. login'[l] \in {"password", "refused"} /\ \A m \in Logins \ {l} : login'[m] = login[m]
    BY <1>a DEF IInv, TypeOK
  <1>1. TypeOK'
    BY <1>a DEF IInv, TypeOK, Waiting, At
  <1>2. PinsAreMade'
    BY <1>a DEF IInv, PinsAreMade, Made, Live
  <1>3. LastAgrees'
    BY <1>a DEF IInv, LastAgrees, Past
  <1>4. StoredAgrees'
    BY <1>a DEF IInv, StoredAgrees, Live, Code
  <1>5. RegsAgree'
    BY <1>a DEF IInv, RegsAgree, Confirmed
  <1>6. LoginsAgree'
    <2> SUFFICES ASSUME NEW m \in Logins \ moved, login'[m] \in {"password", "sign"}
                 PROVE  At(Phone[m]) # {} /\ \A r \in Regs \cap At(Phone[m]) : Confirmed(Phone[m])
      BY <1>a DEF LoginsAgree, At, Confirmed
    <2>1. CASE m # l
      BY <2>1, <1>b DEF IInv, LoginsAgree
    <2>2. CASE m = l
      <3>1. PICK a \in At(Phone[l]) : users[a].status = "active"
        BY <2>2 DEF CheckActive, LoginGoto, IInv, TypeOK
      <3>2. ASSUME NEW r \in Regs \cap At(Phone[l]) PROVE Confirmed(Phone[l])
        <4>1. r = a
          BY <3>1, <3>2, Kinds DEF IInv, TypeOK
        <4>2. users[r].phone = Phone[l]
          BY <3>2 DEF At
        <4>3. QED
          BY <3>1, <3>2, <4>1, <4>2, Kinds DEF IInv, RegsAgree
      <3>3. QED
        BY <2>2, <3>1, <3>2
    <2>3. QED
      BY <2>1, <2>2
  <1>7. GivenAgrees'
    BY <1>a DEF IInv, GivenAgrees
  <1>8. CodesAreDistinct'
    BY <1>a DEF IInv, CodesAreDistinct, Live
  <1>9. UndisturbedCodeWorks'
    BY <1>a DEF IInv, UndisturbedCodeWorks
  <1>10. SessionWasConfirmed'
    BY <1>a, <1>b, Kinds DEF IInv, SessionWasConfirmed, Confirmed, Waiting
  <1>11. QED
    BY <1>1, <1>2, <1>3, <1>4, <1>5, <1>6, <1>7, <1>8, <1>9, <1>10 DEF IInv

LEMMA CheckPasswordIInv ==
  ASSUME IInv, NEW l \in Logins, CheckPassword(l)
  PROVE  IInv'
  <1>a. /\ \E next \in {"sign", "refused"} : login' = [login EXCEPT ![l] = next]
        /\ UNCHANGED <<pin, starts, users, send, use, code, given, last, disturbed, overlapped, moved>>
    BY DEF CheckPassword, LoginGoto, told, history
  <1>b. login'[l] \in {"sign", "refused"} /\ \A m \in Logins \ {l} : login'[m] = login[m]
    BY <1>a DEF IInv, TypeOK
  <1>1. TypeOK'
    BY <1>a DEF IInv, TypeOK, Waiting, At
  <1>2. PinsAreMade'
    BY <1>a DEF IInv, PinsAreMade, Made, Live
  <1>3. LastAgrees'
    BY <1>a DEF IInv, LastAgrees, Past
  <1>4. StoredAgrees'
    BY <1>a DEF IInv, StoredAgrees, Live, Code
  <1>5. RegsAgree'
    BY <1>a DEF IInv, RegsAgree, Confirmed
  <1>6. LoginsAgree'
    BY <1>a, <1>b DEF IInv, LoginsAgree, At, Confirmed, CheckPassword
  <1>7. GivenAgrees'
    BY <1>a DEF IInv, GivenAgrees
  <1>8. CodesAreDistinct'
    BY <1>a DEF IInv, CodesAreDistinct, Live
  <1>9. UndisturbedCodeWorks'
    BY <1>a DEF IInv, UndisturbedCodeWorks
  <1>10. SessionWasConfirmed'
    BY <1>a, <1>b, Kinds DEF IInv, SessionWasConfirmed, Confirmed, Waiting
  <1>11. QED
    BY <1>1, <1>2, <1>3, <1>4, <1>5, <1>6, <1>7, <1>8, <1>9, <1>10 DEF IInv

LEMMA SignIInv ==
  ASSUME IInv, NEW l \in Logins, Sign(l)
  PROVE  IInv'
  <1>a. /\ \E next \in At(Phone[l]) \cup {None} : login' = [login EXCEPT ![l] = next]
        /\ UNCHANGED <<pin, starts, users, send, use, code, given, last, disturbed, overlapped, moved>>
    BY DEF Sign, LoginGoto, told, history
  <1>b. login'[l] \in At(Phone[l]) \cup {None} /\ \A m \in Logins \ {l} : login'[m] = login[m]
    BY <1>a DEF IInv, TypeOK
  <1>1. TypeOK'
    BY <1>a DEF IInv, TypeOK, At
  <1>2. PinsAreMade'
    BY <1>a DEF IInv, PinsAreMade, Made, Live
  <1>3. LastAgrees'
    BY <1>a DEF IInv, LastAgrees, Past
  <1>4. StoredAgrees'
    BY <1>a DEF IInv, StoredAgrees, Live, Code
  <1>5. RegsAgree'
    BY <1>a DEF IInv, RegsAgree, Confirmed
  <1>6. LoginsAgree'
    <2>1. login'[l] \notin {"password", "sign"}
      BY <1>b, Kinds DEF At, Waiting
    <2>2. QED
      BY <2>1, <1>a, <1>b DEF IInv, LoginsAgree, At, Confirmed
  <1>7. GivenAgrees'
    BY <1>a DEF IInv, GivenAgrees
  <1>8. CodesAreDistinct'
    BY <1>a DEF IInv, CodesAreDistinct, Live
  <1>9. UndisturbedCodeWorks'
    BY <1>a DEF IInv, UndisturbedCodeWorks
  <1>10. SessionWasConfirmed'
    <2>1. login[l] = "sign"
      BY DEF Sign
    <2>2. l \notin moved => \A r \in Regs : login'[l] = r => Confirmed(Phone[l])
      BY <2>1, <1>b, Kinds DEF IInv, LoginsAgree
    <2>3. QED
      BY <2>2, <1>a, <1>b DEF IInv, SessionWasConfirmed, Confirmed
  <1>11. QED
    BY <1>1, <1>2, <1>3, <1>4, <1>5, <1>6, <1>7, <1>8, <1>9, <1>10 DEF IInv

LEMMA RestartIInv ==
  ASSUME IInv, Restart
  PROVE  IInv'
  <1>0. /\ starts < MaxStarts /\ starts' = starts + 1
        /\ pin' = [k \in Atoms |-> <<k, starts + 1>>]
        /\ send' = [q \in Senders |-> IF send[q] \in Busy THEN "crashed" ELSE send[q]]
        /\ use' = [u \in DOMAIN use |-> IF use[u] = "matched" THEN "crashed" ELSE use[u]]
        /\ login' = [l \in Logins |-> IF login[l] \in {"password", "sign"} THEN "crashed" ELSE login[l]]
    BY DEF Restart
  <1>a. UNCHANGED <<users, code, given, last, disturbed, overlapped, moved>>
    BY DEF Restart, told, history
  <1>b. starts + 1 \in Starts /\ starts + 1 \notin 0 .. starts /\ starts + 1 \in 0 .. starts'
    BY <1>0, CodesAssumption DEF IInv, TypeOK, Starts
  <1>c. \A k \in Atoms : <<k, starts + 1>> \in Pins /\ pin'[k] = <<k, starts + 1>> /\ pin'[k][1] = k /\ pin'[k][2] = starts + 1
    BY <1>0, <1>b DEF Pins
  <1>d. \A q \in Senders : send'[q] = IF send[q] \in Busy THEN "crashed" ELSE send[q]
    BY <1>0
  <1>i. \A q \in Senders : pin'[Atom(q)] = <<Atom(q), starts + 1>>
    BY <1>c, Kinds
  <1>e. \A u \in Acts \cup Resets : use'[u] = IF use[u] = "matched" THEN "crashed" ELSE use[u]
    BY <1>0 DEF IInv, TypeOK
  <1>f. \A l \in Logins : login'[l] = IF login[l] \in {"password", "sign"} THEN "crashed" ELSE login[l]
    BY <1>0
  <1>g. \A x : Made(x) => Made(x)'
    BY <1>0, <1>d, CodesAssumption DEF Made, Busy, IInv, TypeOK, Starts
  <1>h. \A phone : Confirmed(phone) => Confirmed(phone)'
    BY <1>a, <1>e DEF Confirmed
  <1>1. TypeOK'
    <2>1. pin' \in [Atoms -> Pins] /\ starts' \in Starts
      BY <1>0, <1>b, <1>c
    <2>2. send' \in [Senders -> Busy \cup {"idle", "refused", "error", "unsent", "sent", "crashed"}]
      BY <1>0 DEF IInv, TypeOK
    <2>3. use' \in [Acts \cup Resets -> {"idle", "matched", "failed", "used", "crashed"}]
      BY <1>0 DEF IInv, TypeOK
    <2>4. login' \in [Logins -> Waiting \cup Accounts \cup {None}]
      BY <1>0 DEF IInv, TypeOK, Waiting
    <2>5. QED
      BY <1>a, <1>c, <2>1, <2>2, <2>3, <2>4 DEF IInv, TypeOK, At
  <1>2. PinsAreMade'
    <2>1. \A k \in Atoms : Made(pin[k])'
      BY <1>b, <1>c DEF Made
    <2>2. QED
      BY <2>1, <1>a, <1>g DEF IInv, PinsAreMade, Live
  <1>3. LastAgrees'
    BY <1>a, <1>d DEF IInv, LastAgrees, Past, Busy
  <1>4. StoredAgrees'
    <2>1. ASSUME NEW a \in Accounts, Live(a) PROVE users[a].temp[2] # starts + 1
      BY <2>1, <1>b, CodesAssumption DEF IInv, PinsAreMade, Made
    <2>2. \A q \in Senders : <<Atom(q), starts + 1>>[2] = starts + 1 /\ send'[q] # "send"
      BY <1>d DEF Busy
    <2>3. QED
      BY <1>a, <1>i, <2>1, <2>2 DEF IInv, LastAgrees, StoredAgrees, Live, Code
  <1>5. RegsAgree'
    BY <1>a, <1>d, <1>h, Kinds DEF IInv, RegsAgree
  <1>6. LoginsAgree'
    BY <1>f DEF LoginsAgree
  <1>7. GivenAgrees'
    BY <1>a, <1>e DEF IInv, GivenAgrees
  <1>8. CodesAreDistinct'
    <2>1. {q \in Senders : send[q] = "unsent"} \subseteq {q \in Senders : send'[q] = "unsent"}
      BY <1>d DEF Busy
    <2>2. QED
      BY <1>a, <2>1 DEF IInv, CodesAreDistinct, Live
  <1>9. UndisturbedCodeWorks'
    BY <1>a DEF IInv, UndisturbedCodeWorks
  <1>10. SessionWasConfirmed'
    BY <1>a, <1>f, <1>h, Kinds DEF IInv, SessionWasConfirmed, Waiting
  <1>11. QED
    BY <1>1, <1>2, <1>3, <1>4, <1>5, <1>6, <1>7, <1>8, <1>9, <1>10 DEF IInv

LEMMA NextIInv == IInv /\ [Next]_vars => IInv'
  <1> SUFFICES ASSUME IInv, [Next]_vars PROVE IInv'
    OBVIOUS
  <1>1. ASSUME NEW q \in Senders, Begin(q) \/ StoreCode(q) \/ SendCode(q) \/ ResetCode(q) PROVE IInv'
    BY <1>1, BeginIInv, StoreCodeIInv, SendCodeIInv, ResetCodeIInv
  <1>2. ASSUME NEW u \in Acts \cup Resets, Compare(u) \/ UseCode(u) PROVE IInv'
    BY <1>2, CompareIInv, UseCodeIInv
  <1>3. ASSUME NEW l \in Logins, CheckActive(l) \/ CheckPassword(l) \/ Sign(l) PROVE IInv'
    BY <1>3, CheckActiveIInv, CheckPasswordIInv, SignIInv
  <1>4. CASE Restart
    BY <1>4, RestartIInv
  <1>5. CASE UNCHANGED vars
    <2>1. UNCHANGED <<pin, starts, users, send, code, use, given, login, last, disturbed, overlapped, moved>>
      BY <1>5 DEF vars, told, history
    <2> USE <2>1 DEF IInv
    <2>2. TypeOK' /\ PinsAreMade' /\ LastAgrees' /\ StoredAgrees'
      BY DEF TypeOK, At, PinsAreMade, Made, Live, LastAgrees, StoredAgrees, Code
    <2>3. RegsAgree' /\ LoginsAgree' /\ GivenAgrees'
      BY DEF RegsAgree, Confirmed, LoginsAgree, At, GivenAgrees
    <2>4. CodesAreDistinct' /\ UndisturbedCodeWorks' /\ SessionWasConfirmed'
      BY DEF CodesAreDistinct, Live, UndisturbedCodeWorks, SessionWasConfirmed, Confirmed
    <2>5. QED
      BY <2>2, <2>3, <2>4
  <1>6. QED
    BY <1>1, <1>2, <1>3, <1>4, <1>5 DEF Next

(* The invariant of the codes holds in every state: rows, requests, codes  *)
(* and logins agree after every step of every handler and every restart.   *)
THEOREM CodesInvariant == Spec => []IInv
  BY InitIInv, NextIInv, PTL DEF Spec

(* Rows and codes have their types, no phone has two accounts, and no two  *)
(* accounts wait for one code unless requests overlapped or an SMS failed. *)
THEOREM CodesStayRight == Spec => []CodesAreRight
  <1>1. IInv => CodesAreRight
    BY DEF IInv, CodesAreRight
  <1>2. QED
    BY <1>1, CodesInvariant, PTL

(* The newest code that an account was sent works or was used, unless the  *)
(* atom was reset between the UPDATE and the SMS.                          *)
THEOREM NewestCodeWorks == Spec => []UndisturbedCodeWorks
  <1>1. IInv => UndisturbedCodeWorks
    BY DEF IInv
  <1>2. QED
    BY <1>1, CodesInvariant, PTL

(* A session of an account that was registered by phone follows a          *)
(* confirmation of that phone, unless the phone was given up during login. *)
THEOREM SessionsAreConfirmed == Spec => []SessionWasConfirmed
  <1>1. IInv => SessionWasConfirmed
    BY DEF IInv
  <1>2. QED
    BY <1>1, CodesInvariant, PTL
==============================================================================
