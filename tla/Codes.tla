------------------------------- MODULE Codes -------------------------------
(***************************************************************************)
(* The six-digit codes sent to phones: register.clj accountbyphone and     *)
(* resend-code, login.clj forget-password, forget-password-by-mail (whose  *)
(* code comes from the same atom), reset-password! and loginbyphone,       *)
(* userinfo.clj add-phone-number, activation.clj activate-user-by-phone.   *)
(* The next code waits in one of three atoms; the pin that request q       *)
(* leaves in an atom is written <<atom, q>>, the one that a start of the   *)
(* server puts there <<atom, start>>.                                      *)
(***************************************************************************)
EXTENDS Naturals

CONSTANTS
  Regs,      \* accountbyphone requests; each is the id of the account it makes
  Resends,   \* resend-code requests
  Forgets,   \* forget-password requests
  Mails,     \* forget-password-by-mail requests
  Adds,      \* add-phone-number requests
  Acts,      \* activate-user-by-phone requests
  Resets,    \* reset-password! requests
  Logins,    \* loginbyphone requests
  Holders,   \* active accounts that have no phone at first
  Owner,     \* the account of each add-phone-number request
  Phones,
  Phone,     \* the phone in each request
  None,      \* no phone, no code, nobody
  Used,      \* the TEMP_TOKEN "0" of a used code
  MaxStarts, \* bound: how often the server restarts
  Faults     \* failures that may happen: a subset of {"sms"}

Starts   == 0 .. MaxStarts
Senders  == Regs \cup Resends \cup Forgets \cup Mails \cup Adds
Accounts == Regs \cup Holders
Atoms    == {"register", "login", "userinfo"}
Pins     == Atoms \X (Senders \cup Starts)
Waiting  == {"idle", "password", "sign", "refused", "crashed"}

ASSUME CodesAssumption ==
  /\ Owner \in [Adds -> Holders]
  /\ Phone \in [Senders \cup Logins -> Phones]
  /\ Regs \cap (Resends \cup Forgets \cup Mails \cup Adds \cup Holders) = {}
  /\ Resends \cap (Forgets \cup Mails \cup Adds) = {}
  /\ Forgets \cap (Mails \cup Adds) = {} /\ Mails \cap Adds = {}
  /\ Acts \cap Resets = {}
  /\ Senders \cap Starts = {}
  /\ (Accounts \cup {None}) \cap Waiting = {}
  /\ None \notin Phones \cup Accounts \cup Senders
  /\ None # Used /\ {None, Used} \cap Pins = {}
  /\ MaxStarts \in Nat
  /\ Faults \subseteq {"sms"}

VARIABLES
  pin,        \* the atoms pin-code of register.clj, login.clj, userinfo.clj
  starts,     \* how often the server was restarted
  users,      \* USERS by id
  send,       \* where each sender is, or how it ended
  code,       \* the code each sender sent
  use,        \* where each activation or password reset is, or how it ended
  given,      \* the sender whose code each activation or reset presents
  login,      \* where each login is, or how it ended
  last,       \* history: the sender that stored the code of each account
  disturbed,  \* history: senders whose atom was reset before they sent
  overlapped, \* history: senders that found a code another one had stored
  moved       \* history: logins whose phone was given up while they were under way

told == <<code, given>>
history == <<last, disturbed, overlapped, moved>>
vars == <<pin, starts, users, send, use, login, told, history>>

Busy == {"store", "send", "reset"}

(* Requests of one namespace share its atom. *)
Atom(q) == IF q \in Regs \cup Resends THEN "register"
           ELSE IF q \in Adds THEN "userinfo" ELSE "login"

Stored(a)  == users[a].status # "none"
At(phone)  == {a \in Accounts : users[a].phone = phone}
Code(q)    == pin[Atom(q)]
Live(a)    == users[a].temp \notin {None, Used}

User == [phone : Phones \cup {None}, temp : Pins \cup {None, Used},
         status : {"none", "inactive", "active"}]

TypeOK ==
  /\ pin \in [Atoms -> Pins] /\ \A k \in Atoms : pin[k][1] = k
  /\ starts \in Starts
  /\ users \in [Accounts -> User]
  /\ \A phone \in Phones : \A a, b \in At(phone) : a = b
  /\ send \in [Senders -> Busy \cup {"idle", "refused", "error", "unsent", "sent", "crashed"}]
  /\ code \in [Senders -> Pins \cup {None}]
  /\ use \in [Acts \cup Resets -> {"idle", "matched", "failed", "used", "crashed"}]
  /\ given \in [Acts \cup Resets -> Senders \cup {None}]
  /\ login \in [Logins -> Waiting \cup Accounts \cup {None}]
  /\ last \in [Accounts -> Senders \cup {None}]
  /\ disturbed \subseteq Senders /\ overlapped \subseteq Senders /\ moved \subseteq Logins

Init ==
  /\ pin = [k \in Atoms |-> <<k, 0>>]
  /\ starts = 0
  /\ users = [a \in Accounts |->
       [phone |-> None, temp |-> None,
        status |-> IF a \in Holders THEN "active" ELSE "none"]]
  /\ send = [q \in Senders |-> "idle"]
  /\ code = [q \in Senders |-> None]
  /\ use = [u \in Acts \cup Resets |-> "idle"]
  /\ given = [u \in Acts \cup Resets |-> None]
  /\ login = [l \in Logins |-> "idle"]
  /\ last = [a \in Accounts |-> None]
  /\ disturbed = {} /\ overlapped = {} /\ moved = {}

SendGoto(q, next) == send' = [send EXCEPT ![q] = next]

-----------------------------------------------------------------------------
(* The five senders: look the account up, store the code, send it, replace it. *)

senderSame == <<starts, use, given, login>>

(* accountbyphone wants a new phone and forget-password a known one.       *)
Begin(q) ==
  /\ send[q] = "idle"
  /\ SendGoto(q, IF \/ q \in Regs /\ At(Phone[q]) # {}
                    \/ q \in Forgets /\ At(Phone[q]) = {}
                 THEN "refused" ELSE "store")
  /\ UNCHANGED <<pin, users, code, history, senderSame>>

(* The row that request q writes its code to; a phone is UNIQUE.           *)
Target(q) ==
  IF q \in Regs THEN {q} ELSE IF q \in Adds THEN {Owner[q]}
  ELSE IF q \in Mails THEN {} ELSE At(Phone[q])
(* Mutant: the phone column is not UNIQUE. *)
NeverClashes(q) == FALSE

Clashes(q) == q \in Regs \cup Adds /\ At(Phone[q]) \ Target(q) # {}
Row(q, a) ==
  IF q \in Regs THEN [phone |-> Phone[q], temp |-> Code(q), status |-> "inactive"]
  ELSE IF q \in Adds THEN [users[a] EXCEPT !.phone = Phone[q], !.temp = Code(q)]
  ELSE [users[a] EXCEPT !.temp = Code(q)]

Leaves(q, phone) ==
  q \in Adds /\ users[Owner[q]].phone = phone /\ Phone[q] # phone

(* Mutant: the atom is reset before the SMS. *)
StoreCodeResets(q) ==
  /\ send[q] = "store"
  /\ IF Clashes(q)
     THEN SendGoto(q, "error") /\ UNCHANGED <<pin, users, last>>
     ELSE /\ users' = [a \in Accounts |-> IF a \in Target(q) THEN Row(q, a) ELSE users[a]]
          /\ last' = [a \in Accounts |-> IF a \in Target(q) THEN q ELSE last[a]]
          /\ pin' = [pin EXCEPT ![Atom(q)] = <<Atom(q), q>>]
          /\ SendGoto(q, "send")
  /\ UNCHANGED <<code, disturbed, overlapped, moved, senderSame>>

StoreCode(q) ==
  /\ send[q] = "store"
  /\ IF Clashes(q)
     THEN SendGoto(q, "error") /\ UNCHANGED <<users, history>>
     ELSE /\ users' = [a \in Accounts |-> IF a \in Target(q) THEN Row(q, a) ELSE users[a]]
          /\ last' = [a \in Accounts |-> IF a \in Target(q) THEN q ELSE last[a]]
          /\ overlapped' = overlapped \cup
               {s \in {q} : \E t \in Senders \ {q} :
                  Atom(t) = Atom(q) /\ send[t] \in {"send", "reset"}}
          /\ moved' = moved \cup
               {l \in Logins : login[l] \in {"password", "sign"} /\ Leaves(q, Phone[l])}
          /\ SendGoto(q, "send")
          /\ UNCHANGED disturbed
  /\ UNCHANGED <<pin, code, senderSame>>

(* The code sent is what the atom holds now.  A failing SMS service throws *)
(* whether or not the SMS goes out, and the atom keeps its code;           *)
(* send-mail! swallows what goes wrong.                                    *)
SendCode(q) ==
  /\ send[q] = "send"
  /\ \/ code' = [code EXCEPT ![q] = Code(q)] /\ SendGoto(q, "reset")
     \/ /\ "sms" \in Faults
        /\ code' \in {code, [code EXCEPT ![q] = Code(q)]}
        /\ SendGoto(q, IF q \in Mails THEN "reset" ELSE "unsent")
  /\ UNCHANGED <<pin, users, history, senderSame>>

(* Mutant: every namespace resets the atom of the registrations. *)
ResetCodeOther(q) ==
  /\ send[q] = "reset"
  /\ pin' = [pin EXCEPT !["register"] = <<"register", q>>]
  /\ disturbed' = disturbed \cup
       {s \in Senders \ {q} : Atom(s) = Atom(q) /\ send[s] = "send"}
  /\ SendGoto(q, "sent")
  /\ UNCHANGED <<users, code, last, overlapped, moved, senderSame>>

(* Mutant: the code stays the same. *)
ResetCodeNot(q) ==
  /\ send[q] = "reset"
  /\ SendGoto(q, "sent")
  /\ UNCHANGED <<pin, users, code, history, senderSame>>

ResetCode(q) ==
  /\ send[q] = "reset"
  /\ pin' = [pin EXCEPT ![Atom(q)] = <<Atom(q), q>>]
  /\ disturbed' = disturbed \cup
       {s \in Senders \ {q} : Atom(s) = Atom(q) /\ send[s] = "send"}
  /\ SendGoto(q, "sent")
  /\ UNCHANGED <<users, code, last, overlapped, moved, senderSame>>

-----------------------------------------------------------------------------
(* activate-user-by-phone and reset-password!: the owner of a phone        *)
(* presents a code that was sent there; both compare first and write later.*)

useSame == <<pin, starts, send, code, login, history>>

Compare(u) ==
  /\ use[u] = "idle"
  /\ \E q \in Senders \ Mails :
       /\ code[q] # None
       /\ given' = [given EXCEPT ![u] = q]
       /\ use' = [use EXCEPT ![u] =
            IF \E a \in At(Phone[q]) : users[a].temp = code[q]
            THEN "matched" ELSE "failed"]
  /\ UNCHANGED <<users, useSame>>

(* Mutant: setting a password activates too. *)
UseCodeActivates(u) ==
  /\ use[u] = "matched"
  /\ users' = [a \in Accounts |->
       IF a \in At(Phone[given[u]])
       THEN [users[a] EXCEPT !.temp = Used, !.status = "active"] ELSE users[a]]
  /\ use' = [use EXCEPT ![u] = "used"]
  /\ UNCHANGED <<given, useSame>>

UseCode(u) ==
  /\ use[u] = "matched"
  /\ users' = [a \in Accounts |->
       IF a \in At(Phone[given[u]])
       THEN [users[a] EXCEPT !.temp = Used,
                             !.status = IF u \in Acts THEN "active" ELSE @]
       ELSE users[a]]
  /\ use' = [use EXCEPT ![u] = "used"]
  /\ UNCHANGED <<given, useSame>>

-----------------------------------------------------------------------------
(* loginbyphone *)

LoginGoto(l, next) ==
  /\ login' = [login EXCEPT ![l] = next]
  /\ UNCHANGED <<pin, starts, users, send, use, told, history>>

CheckActive(l) ==
  /\ login[l] = "idle"
  /\ LoginGoto(l, IF \E a \in At(Phone[l]) : users[a].status = "active"
                  THEN "password" ELSE "refused")

(* The row is read again, and its password matches or does not. *)
CheckPassword(l) ==
  /\ login[l] = "password"
  /\ \/ LoginGoto(l, "refused")
     \/ At(Phone[l]) # {} /\ LoginGoto(l, "sign")

(* The session is of the account that has the phone now, if any. *)
Sign(l) ==
  /\ login[l] = "sign"
  /\ IF At(Phone[l]) = {} THEN LoginGoto(l, None)
     ELSE \E a \in At(Phone[l]) : LoginGoto(l, a)

-----------------------------------------------------------------------------
(* The server restarts with fresh codes. *)
Restart ==
  /\ starts < MaxStarts
  /\ starts' = starts + 1
  /\ pin' = [k \in Atoms |-> <<k, starts + 1>>]
  /\ send' = [q \in Senders |-> IF send[q] \in Busy THEN "crashed" ELSE send[q]]
  /\ use' = [u \in DOMAIN use |-> IF use[u] = "matched" THEN "crashed" ELSE use[u]]
  /\ login' = [l \in Logins |->
       IF login[l] \in {"password", "sign"} THEN "crashed" ELSE login[l]]
  /\ UNCHANGED <<users, told, history>>

Next ==
  \/ \E q \in Senders : Begin(q) \/ StoreCode(q) \/ SendCode(q) \/ ResetCode(q)
  \/ \E u \in Acts \cup Resets : Compare(u) \/ UseCode(u)
  \/ \E l \in Logins : CheckActive(l) \/ CheckPassword(l) \/ Sign(l)
  \/ Restart

Spec == Init /\ [][Next]_vars

-----------------------------------------------------------------------------
(* Safety. *)

(***************************************************************************)
(* The newest code an account was sent works, or was used, unless another  *)
(* request of the same namespace reset the atom between the UPDATE and the *)
(* SMS (register.clj:66-69, login.clj:198-201, userinfo.clj:110-112).      *)
(***************************************************************************)
UndisturbedCodeWorks ==
  \A a \in Accounts : LET q == last[a] IN
    q # None /\ q \notin disturbed /\ code[q] # None =>
      users[a].temp \in {code[q], Used}

(***************************************************************************)
(* Two accounts wait for the same code only if one of the requests found   *)
(* another under way, or an SMS failed and left its code in the atom.      *)
(***************************************************************************)
CodesAreDistinct ==
  \A a, b \in Accounts :
    a # b /\ Live(a) /\ users[a].temp = users[b].temp =>
      {last[a], last[b]} \cap
        (overlapped \cup {q \in Senders : send[q] = "unsent"}) # {}

(***************************************************************************)
(* Nobody gets a session for an account that was registered by phone       *)
(* unless a code sent to that phone was presented for activation, or the   *)
(* phone went from one account to another between the three reads of the   *)
(* login (login.clj:91-94).                                                *)
(***************************************************************************)
Confirmed(phone) ==
  \E u \in Acts : use[u] \in {"used", "crashed"} /\ Phone[given[u]] = phone
SessionWasConfirmed ==
  \A l \in Logins \ moved, a \in Regs : login[l] = a => Confirmed(Phone[l])

(***************************************************************************)
(* Rows and codes agree: the types (no phone is shared by two accounts), and *)
(* no two accounts wait for one code without a cause (login.clj:198-201).  *)
(***************************************************************************)
CodesAreRight == TypeOK /\ CodesAreDistinct

-----------------------------------------------------------------------------
(* The inductive invariant: what the steps of the handlers rely on.        *)

(* A code in a row was made: by a start, or by a sender that replaced it.  *)
Made(p)  == \/ p[2] \in 0 .. starts
            \/ p[2] \in Senders /\ send[p[2]] = "sent"
PinsAreMade ==
  /\ \A k \in Atoms : Made(pin[k])
  /\ \A a \in Accounts : Live(a) => users[a].temp \in Pins /\ Made(users[a].temp)

(* Who stored the code of an account did so once, and for it alone.        *)
Past == {"send", "reset", "unsent", "sent", "crashed"}
LastAgrees ==
  /\ \A a \in Accounts : last[a] # None => last[a] \in Senders /\ send[last[a]] \in Past
  /\ \A a, b \in Accounts : last[a] # None /\ last[a] = last[b] => a = b
  /\ \A q \in Senders : code[q] # None => send[q] \notin {"idle", "store", "send"}

(* A stored code comes from the atom of its sender: it is still there      *)
(* until it is sent, unless that was disturbed, and gone after a reset.    *)
StoredAgrees ==
  \A a \in Accounts :
    /\ Live(a) => /\ last[a] # None /\ users[a].temp[1] = Atom(last[a])
                  /\ send[last[a]] \in {"sent", "crashed"} => users[a].temp # Code(last[a])
    /\ last[a] # None /\ last[a] \notin disturbed /\ send[last[a]] = "send" =>
         users[a].temp \in {Code(last[a]), Used}

(* An account that was registered by phone keeps that phone, and is active *)
(* only when it was confirmed.                                             *)
RegsAgree ==
  \A r \in Regs :
    /\ send[r] \in {"idle", "store"} => users[r].phone = None
    /\ users[r].phone \in {None, Phone[r]}
    /\ users[r].status = "active" => users[r].phone # None /\ Confirmed(Phone[r])

(* The phone of a login that no account gave up has an account.            *)
LoginsAgree ==
  \A l \in Logins \ moved : login[l] \in {"password", "sign"} =>
    /\ At(Phone[l]) # {}
    /\ \A r \in Regs \cap At(Phone[l]) : Confirmed(Phone[l])

(* Codes that are compared were sent to a phone.                           *)
GivenAgrees ==
  \A u \in Acts \cup Resets : use[u] # "idle" => given[u] \in Senders \ Mails

IInv == /\ TypeOK /\ PinsAreMade /\ LastAgrees /\ StoredAgrees /\ RegsAgree
        /\ LoginsAgree /\ GivenAgrees
        /\ CodesAreDistinct /\ UndisturbedCodeWorks /\ SessionWasConfirmed
=============================================================================
