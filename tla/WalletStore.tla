---------------------------- MODULE WalletStore ----------------------------
(***************************************************************************)
(* The wallet of the command line and of the wallet service: one file of   *)
(* addresses per location (wallet/wallet.rs), the operations on it         *)
(* (cli/src/wallet.rs, balances.rs) and the two programs that run them,    *)
(* the shell's command (operation/src/main.rs) and the workers of the      *)
(* service (http_service).                                                 *)
(*                                                                         *)
(* Every operation opens the file for itself and nothing locks it: a save  *)
(* loads the book, adds to it in memory, truncates the file and writes.    *)
(***************************************************************************)
EXTENDS Args, Keystore

CONSTANTS Shells, Workers,  \* the processes of the command line, the threads of the service
          Lines,            \* what is typed
          Requests,         \* what the service is asked: new addresses and balances
          Locations,        \* the directories of wallets; "cwd" is the default
          Files,            \* paths of keystore files
          Fixtures,         \* keystore files that exist, each with its password: [path -> [keystore, password]]
          Random,           \* the phrases a generator may come up with
          MaxRuns           \* bound on the operations that are started
\* an operation is on one of the wallets
LocOf(c) == IF c.location = NotGiven THEN "cwd" ELSE c.location[1]
OnWallets(c) == c.op # "none" /\ (c.op # "balance" => LocOf(c) \in Locations)
ASSUME WalletStoreAssumption ==
    /\ Random \subseteq Spoken /\ "cwd" \in Locations /\ MaxRuns \in Nat /\ Shells \cap Workers = {}
    /\ \A line \in Lines : parse(line)[1] = "ok" => OnWallets(parse(line)[2])
    /\ \A request \in Requests : OnWallets(request)
    /\ DOMAIN Fixtures \subseteq Files
    /\ \A f \in DOMAIN Fixtures : Genuine(Fixtures[f].keystore, Fixtures[f].password)

VARIABLES store,     \* per location: no file, a file that does not parse, or a book of addresses
          files,     \* per path: <<>> or <<keystore>>
          pc, argv, cmd, mem, address, mnemonic,  \* per process: where it is, its words, operation, book and new address
          runs,      \* operations started
          drawn,     \* random phrases in use
          told,      \* the addresses said to be added, in order
          disturbed, \* locations where two saves overlapped or one was cut short
          backed,    \* per path: the password its keystore was made with
          signed     \* the transfers sent: [location, sender, signer]
wvars == <<store, files, pc, argv, cmd, mem, address, mnemonic, runs, drawn, told, disturbed, backed, signed>>

Procs == Shells \cup Workers
Absent == <<"absent">>
Torn == <<"torn">>
Book(entries) == <<"book", entries>>
IsBook(f) == f[1] = "book"
\* nothing is going on
NoCmd == [op |-> "none", location |-> NotGiven]
WInit == /\ store = [l \in Locations |-> Absent] /\ files = [f \in Files |-> IF f \in DOMAIN Fixtures THEN <<Fixtures[f].keystore>> ELSE <<>>]
         /\ pc = [p \in Procs |-> "idle"] /\ argv = [p \in Procs |-> <<>>] /\ cmd = [p \in Procs |-> NoCmd]
         /\ mem = [p \in Procs |-> <<>>] /\ address = [p \in Procs |-> NoAddress] /\ mnemonic = [p \in Procs |-> <<>>]
         /\ runs = 0 /\ drawn = {} /\ told = <<>> /\ disturbed = {} /\ signed = {}
         /\ backed = [f \in Files |-> IF f \in DOMAIN Fixtures THEN Fixtures[f].password ELSE <<>>]

at(p) == LocOf(cmd[p])
\* mutant: the last entry
getLast(book, label_or_addr) ==
    LET found == {i \in DOMAIN book : label_or_addr \in {book[i].label, book[i].addr}}
    IN IF found = {} THEN <<>> ELSE <<book[Max(found)]>>
\* Wallet: an address or a label finds the first entry that has it
get(book, label_or_addr) ==
    LET found == {i \in DOMAIN book : label_or_addr \in {book[i].label, book[i].addr}}
    IN IF found = {} THEN <<>> ELSE <<book[Min(found)]>>
\* mutant: an address that is there already takes what is added
addReplacing(book, a) ==
    IF get(book, a.addr) = <<>> THEN Append(book, a)
    ELSE [i \in DOMAIN book |-> IF book[i].addr = a.addr THEN [a EXCEPT !.label = book[i].label] ELSE book[i]]
\* mutant: an address that is there already is added again
addTwice(book, a) == Append(book, a)
add(book, a) == IF get(book, a.addr) = <<>> THEN Append(book, a) ELSE book
to_uppercase(n) == <<"name", n[2], "upper">>
labelled(a, n) == [a EXCEPT !.label = to_uppercase(IF n = NotGiven THEN <<"name", "user", "upper">> ELSE n[1])]

-----------------------------------------------------------------------------
(* An operation is started, opens its wallet and ends *)

Enter(p, c) == /\ cmd' = [cmd EXCEPT ![p] = c] /\ runs' = runs + 1
               /\ pc' = [pc EXCEPT ![p] = IF c.op = "balance" THEN "query" ELSE "open"]
               /\ UNCHANGED <<store, files, mem, address, mnemonic, drawn, told, disturbed, backed, signed>>
\* main: anything but an operation prints and exits
Main(p, line) ==
    /\ p \in Shells /\ pc[p] = "idle" /\ runs < MaxRuns
    /\ LET parsed == parse(line)
       IN parsed[1] = "ok" /\ argv' = [argv EXCEPT ![p] = line] /\ Enter(p, parsed[2])
\* http_get_wallet, http_check_balance
Http(p, request) == p \in Workers /\ pc[p] = "idle" /\ runs < MaxRuns /\ UNCHANGED argv /\ Enter(p, request)

\* the process is idle again, whether it answered, printed an error or panicked
Ended(p) == /\ pc' = [pc EXCEPT ![p] = "idle"] /\ argv' = [argv EXCEPT ![p] = <<>>] /\ cmd' = [cmd EXCEPT ![p] = NoCmd]
            /\ mem' = [mem EXCEPT ![p] = <<>>] /\ address' = [address EXCEPT ![p] = NoAddress]
            /\ mnemonic' = [mnemonic EXCEPT ![p] = <<>>]
End(p) == Ended(p) /\ UNCHANGED <<store, files, runs, drawn, told, disturbed, backed, signed>>
Goto(p, l) == pc' = [pc EXCEPT ![p] = l]

\* WalletStore::init: no file is created, one that does not parse panics
init(p) ==
    /\ pc[p] = "open"
    /\ \/ /\ store[at(p)] = Absent /\ store' = [store EXCEPT ![at(p)] = Torn] /\ Goto(p, "new")
          /\ UNCHANGED <<files, argv, cmd, mem, address, mnemonic, runs, drawn, told, disturbed, backed, signed>>
       \/ store[at(p)] = Torn /\ End(p)
       \/ /\ IsBook(store[at(p)]) /\ mem' = [mem EXCEPT ![p] = store[at(p)][2]] /\ Goto(p, "do")
          /\ UNCHANGED <<store, files, argv, cmd, address, mnemonic, runs, drawn, told, disturbed, backed, signed>>
create(p) ==
    /\ pc[p] = "new" /\ store' = [store EXCEPT ![at(p)] = Book(<<>>)] /\ Goto(p, "do")
    /\ UNCHANGED <<files, argv, cmd, mem, address, mnemonic, runs, drawn, told, disturbed, backed, signed>>
\* load, whose error is ignored
load(p) == IF IsBook(store[at(p)]) THEN store[at(p)][2] ELSE mem[p]

Do(p, op) == pc[p] = "do" /\ cmd[p].op = op
Save(p, a) == /\ address' = [address EXCEPT ![p] = a] /\ Goto(p, "save")
              /\ UNCHANGED <<store, files, argv, cmd, mem, runs, told, disturbed, backed, signed>>

-----------------------------------------------------------------------------
(* The operations (cli/src/wallet.rs, balances.rs) *)

\* the cryptography of a label, when a phrase is given and when it is drawn
PhraseKind(l) == IF l = "ecdsa" THEN "ed25519" ELSE "sr25519"
NewKind(l) == IF l \in Kinds THEN l ELSE "sr25519"
get_wallet(p) ==
    /\ Do(p, "getnewaddress")
    /\ LET c == cmd[p] IN
       \/ /\ c.phrase # NotGiven
          /\ LET a == from_phrase(PhraseKind(c.label), c.phrase[1], c.password)
             IN \/ a = <<>> /\ End(p)
                \/ /\ a # <<>> /\ Save(p, labelled(a[1], c.name))
                   /\ mnemonic' = [mnemonic EXCEPT ![p] = c.phrase] /\ drawn' = drawn \cup {c.phrase[1]}
       \/ /\ c.phrase = NotGiven
          /\ \E phrase \in Random \ drawn :
                /\ Save(p, labelled(generate(NewKind(c.label), phrase, c.password), c.name))
                /\ mnemonic' = [mnemonic EXCEPT ![p] = <<phrase>>] /\ drawn' = drawn \cup {phrase}
accounid32(a) == a # NotGiven /\ a[1][1] = "addr"
watch_wallet(p) ==
    /\ Do(p, "watchaddress")
    /\ \/ ~accounid32(cmd[p].address) /\ End(p)
       \/ /\ accounid32(cmd[p].address)
          /\ Save(p, labelled([NoAddress EXCEPT !.addr = cmd[p].address[1]], cmd[p].name)) /\ UNCHANGED <<mnemonic, drawn>>
parse_from_file(f) == IF f = NotGiven \/ f[1] \notin Files THEN <<>> ELSE files[f[1]]
restore_wallet(p) ==
    /\ Do(p, "restore")
    /\ LET keystore == parse_from_file(cmd[p].file)
           a == IF keystore = <<>> \/ TooLong(cmd[p].password) THEN <<>> ELSE from_keystore(keystore[1], cmd[p].password)
       IN \/ a = <<>> /\ End(p)
          \/ a # <<>> /\ Save(p, a[1]) /\ UNCHANGED <<mnemonic, drawn>>
\* an address that is only watched, and a password that is too long, panic
backup(p) ==
    /\ Do(p, "backup")
    /\ LET c == cmd[p]
           found == IF c.address = NotGiven THEN <<>> ELSE get(load(p), c.address[1])
           ready == c.file # NotGiven /\ found # <<>> /\ files[c.file[1]] = <<>> /\ ~is_watchonly(found[1]) /\ ~TooLong(c.password)
       IN \/ ~ready /\ End(p)
          \/ /\ ready /\ Goto(p, "write") /\ address' = [address EXCEPT ![p] = found[1]]
             /\ UNCHANGED <<store, files, argv, cmd, mem, mnemonic, runs, drawn, told, disturbed, backed, signed>>
backup_write(p) ==
    /\ pc[p] = "write"
    /\ \/ End(p)
       \/ LET f == cmd[p].file[1]
          IN /\ files' = [files EXCEPT ![f] = <<into_keystore(address[p], cmd[p].password)>>]
             /\ backed' = [backed EXCEPT ![f] = cmd[p].password]
             /\ Ended(p) /\ UNCHANGED <<store, runs, drawn, told, disturbed, signed>>
list_wallet(p) == Do(p, "listaddresses") /\ End(p)
\* check_balance and op_check_balance: the chain is asked or the address is no good
check_balance(p) == pc[p] = "query" /\ End(p)

run_transaction(p) ==
    /\ Do(p, "transfer")
    /\ LET c == cmd[p]
           from_address == IF c.sender = NotGiven THEN <<>> ELSE get(load(p), c.sender[1])
       IN \/ (from_address = <<>> \/ ~accounid32(c.receiver) \/ c.amount = NotGiven) /\ End(p)
          \/ from_address # <<>> /\ is_watchonly(from_address[1]) /\ End(p)
          \/ /\ from_address # <<>> /\ ~is_watchonly(from_address[1]) /\ accounid32(c.receiver) /\ c.amount # NotGiven
             /\ Goto(p, "send") /\ address' = [address EXCEPT ![p] = from_address[1]]
             /\ UNCHANGED <<store, files, argv, cmd, mem, mnemonic, runs, drawn, told, disturbed, backed, signed>>
\* mutant: every key is taken for an sr25519 one
transferSr(p) ==
    /\ pc[p] = "send"
    /\ \/ End(p)
       \/ /\ signed' = signed \cup {[location |-> at(p), sender |-> cmd[p].sender[1],
                                    signer |-> to_address(pair_from_secret_slice("sr25519", address[p].seed)[1])]}
          /\ Ended(p) /\ UNCHANGED <<store, files, runs, drawn, told, disturbed, backed>>
\* signed with the kind of key that the entry names; the chain takes it or the client fails
transfer(p) ==
    /\ pc[p] = "send"
    /\ \/ End(p)
       \/ /\ signed' = signed \cup {[location |-> at(p), sender |-> cmd[p].sender[1], signer |-> to_address(into_pair(address[p]))]}
          /\ Ended(p) /\ UNCHANGED <<store, files, runs, drawn, told, disturbed, backed>>

-----------------------------------------------------------------------------
(* WalletStore::save *)

Saving(q) == pc[q] \in {"add", "put"}
\* mutant: the book is the one that was opened
save_loadNot(p) ==
    /\ pc[p] = "save" /\ Goto(p, "add")
    /\ disturbed' = disturbed \cup {at(q) : q \in {q \in Procs \ {p} : Saving(q) /\ at(q) = at(p)}}
    /\ UNCHANGED <<store, files, argv, cmd, mem, address, mnemonic, runs, drawn, told, backed, signed>>
save_load(p) ==
    /\ pc[p] = "save" /\ mem' = [mem EXCEPT ![p] = load(p)] /\ Goto(p, "add")
    /\ disturbed' = disturbed \cup {at(q) : q \in {q \in Procs \ {p} : Saving(q) /\ at(q) = at(p)}}
    /\ UNCHANGED <<store, files, argv, cmd, address, mnemonic, runs, drawn, told, backed, signed>>
save_add(p) ==
    /\ pc[p] = "add" /\ mem' = [mem EXCEPT ![p] = add(mem[p], address[p])]
    /\ store' = [store EXCEPT ![at(p)] = Torn] /\ Goto(p, "put")
    /\ UNCHANGED <<files, argv, cmd, address, mnemonic, runs, drawn, told, disturbed, backed, signed>>
\* the file is written and the address told
save_put(p) ==
    /\ pc[p] = "put" /\ store' = [store EXCEPT ![at(p)] = Book(mem[p])]
    /\ told' = Append(told, [location |-> at(p), addr |-> address[p].addr, label |-> address[p].label,
                             key |-> ~is_watchonly(address[p]), shadowed |-> is_watchonly(get(mem[p], address[p].addr)[1]),
                             cmd |-> cmd[p], mnemonic |-> mnemonic[p]])
    /\ Ended(p) /\ UNCHANGED <<files, runs, drawn, disturbed, backed, signed>>

\* a process dies; a file that it had truncated stays as it is
crash(p) == /\ pc[p] # "idle"
            /\ disturbed' = IF pc[p] \in {"new", "put"} THEN disturbed \cup {at(p)} ELSE disturbed
            /\ Ended(p) /\ UNCHANGED <<store, files, runs, drawn, told, backed, signed>>

Step(p) == \/ init(p) \/ create(p) \/ get_wallet(p) \/ watch_wallet(p) \/ restore_wallet(p) \/ backup(p) \/ backup_write(p)
           \/ list_wallet(p) \/ check_balance(p) \/ run_transaction(p) \/ transfer(p)
           \/ save_load(p) \/ save_add(p) \/ save_put(p)
WNext == \E p \in Procs : \/ \E line \in Lines : Main(p, line)
                          \/ \E request \in Requests : Http(p, request)
                          \/ Step(p) \/ crash(p)
WSpec == WInit /\ [][WNext]_wvars

-----------------------------------------------------------------------------
(* What the wallet promises *)

\* Every book has an address at most once, and an operation under way knows where it is (wallet.rs add).
WTypeOK == /\ \A l \in Locations : store[l] \in {Absent, Torn} \/
                 (IsBook(store[l]) /\ \A i, j \in DOMAIN store[l][2] : store[l][2][i].addr = store[l][2][j].addr => i = j)
           /\ \A p \in Procs : pc[p] = "idle" <=> cmd[p] = NoCmd
           /\ runs \in 0..MaxRuns /\ drawn \subseteq Spoken /\ disturbed \subseteq Locations

Told == {told[i] : i \in DOMAIN told}
Settled(l) == l \notin disturbed /\ IsBook(store[l])
Entry(t) == get(store[t.location][2], t.addr)
\* An address that was said to be added stays in its wallet, as long as no two saves of it overlapped and
\* none was cut short: a save that follows starts from the file, not from what its process had opened
\* (WalletStore::save).
KeysAreKept == \A t \in Told : Settled(t.location) => Entry(t) # <<>>

\* An address that was added with its key keeps the key, whoever watches or restores it later; only an
\* address that was watched before it had a key stays watch-only (Wallet::add, is_watchonly).
KeyUnlessWatched == \A t \in Told : Settled(t.location) /\ t.key /\ ~t.shadowed /\ Entry(t) # <<>> => ~is_watchonly(Entry(t)[1])

\* A name means the first address that was added under it, for as long as the wallet is undisturbed
\* (Wallet::get; transfers and backups find their address by it): one that came when neither the name nor
\* the address was in use, as a name or as an address, for both find an entry.
Means(book, label, addr) == get(book, label) # <<>> /\ get(book, label)[1].addr = addr
IsFirst(i) == \A j \in 1..(i - 1) : told[j].location = told[i].location =>
                  {told[j].addr, told[j].label} \cap {told[i].addr, told[i].label} = {}
NameMeansTheFirst == \A i \in DOMAIN told :
    Settled(told[i].location) /\ IsFirst(i) => Means(store[told[i].location][2], told[i].label, told[i].addr)

\* A transfer is signed by the address that was named, or by one that was added under the name that was
\* given: the kind of key and the stored secret make the pair of the stored address (run_transaction).
SignedAsNamed == \A s \in signed : s.signer = s.sender \/ \E t \in Told : t.location = s.location /\ t.label = s.sender /\ t.addr = s.signer

\* A keystore file gives its address back under its password, for the three kinds of keys, for the long
\* and the short form of a secret and for files of polkadot-js (backup, restore_wallet, pkcs8).
BackupRestores == \A f \in Files : files[f] # <<>> =>
    LET a == from_keystore(files[f][1], backed[f]) IN a # <<>> /\ a[1].addr = files[f][1].address

\* The phrase that comes with a new sr25519 address, given again with the same password, leads to the
\* same address (get_wallet, from_phrase).
RecoveredIsSame == \A s, t \in Told :
    (/\ s.mnemonic # <<>> /\ s.mnemonic = t.mnemonic /\ s.cmd.label = "sr25519"
     /\ t.cmd.label = "sr25519" /\ s.cmd.password = t.cmd.password) => s.addr = t.addr

\* The wallet file keeps what it was given, and names and transfers mean what they say (wallet.rs, operation.rs).
WalletIsRight == WTypeOK /\ KeysAreKept /\ KeyUnlessWatched /\ NameMeansTheFirst /\ SignedAsNamed

\* A backup restores its address and a phrase leads back to its own (keystore.rs, pkcs8.rs, get_wallet).
BackupsAreRight == BackupRestores /\ RecoveredIsSame

-----------------------------------------------------------------------------
(* Why *)

\* what is in a book is a sequence of addresses, each once and each sound
GoodBook(book) == /\ book \in Seq(ToSet(book))
                  /\ \A i, j \in DOMAIN book : book[i].addr = book[j].addr => i = j
                  /\ \A a \in ToSet(book) : Sound(a)
\* an address that was told to be added to a wallet
Known(l, a) == \E t \in Told : t.location = l /\ t.addr = a.addr /\ t.label = a.label
BooksAgree == \A l \in Locations : IsBook(store[l]) =>
    GoodBook(store[l][2]) /\ \A a \in ToSet(store[l][2]) : Known(l, a)

\* what a process has read and is about to write
Adding(p) == pc[p] \in {"save", "add", "put"}
MemoryAgrees(p) ==
    /\ GoodBook(mem[p])
    /\ \A a \in ToSet(mem[p]) : Known(at(p), a) \/ (pc[p] = "put" /\ a = address[p])
    /\ Adding(p) \/ pc[p] \in {"write", "send"} => Sound(address[p])
    /\ mnemonic[p] # <<>> => Adding(p)
    /\ mnemonic[p] # <<>> /\ cmd[p].label = "sr25519" =>
         address[p].addr = <<"addr", "sr25519", <<"key", mnemonic[p][1], cmd[p].password>>>>
    /\ pc[p] = "put" => get(mem[p], address[p].addr) # <<>>
    /\ pc[p] \in {"idle", "open", "query"} => mem[p] = <<>>
MemoriesAgree == \A p \in Procs : MemoryAgrees(p)

\* a transfer that is under way is by the address that was named
SendersAgree == \A p \in Procs :
    /\ pc[p] \in {"write", "send"} => ~is_watchonly(address[p])
    /\ pc[p] = "send" => \/ address[p].addr = cmd[p].sender[1]
                         \/ \E t \in Told : t.location = at(p) /\ t.label = cmd[p].sender[1] /\ t.addr = address[p].addr

\* nobody is past the opening of a wallet that was never created, or is being created
Past(p) == pc[p] \in {"new", "do", "save", "add", "put", "write", "send"}
CreationIsFirst ==
    /\ \A l \in Locations : store[l] = Absent =>
         (\A p \in Procs : Past(p) => at(p) # l) /\ \A t \in Told : t.location # l
    /\ \A p \in Procs : pc[p] = "new" =>
         /\ store[at(p)] = Torn /\ \A t \in Told : t.location # at(p)
         /\ \A q \in Procs \ {p} : Past(q) => at(q) # at(p)

\* a book keeps what was told of its wallet
Keeps(l, book) == \A i \in DOMAIN told : told[i].location = l =>
    LET t == told[i]
    IN /\ get(book, t.addr) # <<>>
       /\ t.key /\ ~t.shadowed => ~is_watchonly(get(book, t.addr)[1])
       /\ IsFirst(i) => Means(book, t.label, t.addr)
\* in an undisturbed wallet one process saves at a time, and starts from what is there
SavesAt(l) ==
    /\ IsBook(store[l]) => Keeps(l, store[l][2])
    /\ store[l] = Torn => \E p \in Procs : pc[p] \in {"new", "put"} /\ at(p) = l
    /\ \A p \in Procs : Saving(p) /\ at(p) = l =>
         /\ \A q \in Procs \ {p} : Saving(q) => at(q) # l
         /\ pc[p] = "add" => IsBook(store[l]) /\ mem[p] = store[l][2]
         /\ pc[p] = "put" => store[l] = Torn /\ Keeps(l, mem[p])
SavesAgree == \A l \in Locations \ disturbed : SavesAt(l)

\* a keystore file was made from a key under its password
FilesAgree == \A f \in Files : files[f] # <<>> => Genuine(files[f][1], backed[f])

PhrasesAgree == \A t \in Told : t.mnemonic # <<>> /\ t.cmd.label = "sr25519" =>
    t.addr = <<"addr", "sr25519", <<"key", t.mnemonic[1], t.cmd.password>>>>

\* the functions have their domains, and a process that does something has an operation on a wallet
WTyped == /\ DOMAIN store = Locations /\ DOMAIN files = Files /\ DOMAIN backed = Files
          /\ DOMAIN pc = Procs /\ DOMAIN argv = Procs /\ DOMAIN cmd = Procs
          /\ DOMAIN mem = Procs /\ DOMAIN address = Procs /\ DOMAIN mnemonic = Procs
          /\ told \in Seq(Told) /\ \A t \in Told : t.location \in Locations
          /\ \A p \in Procs : /\ (pc[p] \in {"idle", "open", "query"} \/ Past(p))
                              /\ pc[p] \notin {"idle", "query"} => at(p) \in Locations

WIInv == /\ WTypeOK /\ WTyped /\ BooksAgree /\ MemoriesAgree /\ SendersAgree /\ CreationIsFirst
         /\ SavesAgree /\ FilesAgree /\ PhrasesAgree /\ SignedAsNamed
=============================================================================
