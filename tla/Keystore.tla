------------------------------ MODULE Keystore ------------------------------
(***************************************************************************)
(* Addresses of the wallet and the files they are backed up to: the three  *)
(* kinds of keys (wallet/crypto.rs), the pkcs8 box of a secret             *)
(* (wallet/pkcs8.rs), the keystore file (wallet/keystore.rs) and Address   *)
(* (wallet/wallet.rs).                                                     *)
(*                                                                         *)
(* Bytes are counted in cells of sixteen; the divider and the odd byte of  *)
(* an ecdsa key are a cell each.  A key is <<"key", phrase, password>>,    *)
(* its address <<"addr", kind, key>>, and an optional value is <<>> or     *)
(* <<v>>.                                                                  *)
(***************************************************************************)
EXTENDS Naturals, SequencesExt, Functions

CONSTANTS Spoken,  \* the phrases that are valid mnemonics
          Long     \* the passwords of more than 32 bytes

Kinds == {"sr25519", "ed25519", "ecdsa"}
SEED_LENGTH == 2
SEC_LENGTH == 4
PKCS8_HEADER == <<"header">>
PKCS8_DIVIDER == <<"divider">>
Cells(kind, k, n) == [i \in 1..n |-> <<kind, k, i>>]
seed(k) == IF k[1] = "bytes" THEN k[2] ELSE Cells("seed", k, SEED_LENGTH)

-----------------------------------------------------------------------------
(* Pairs: [kind, key] *)

\* the key whose seed the cells are, or the one they happen to be the seed of
from_seed(slice) == IF slice[1][1] = "seed" /\ slice = seed(slice[1][2]) THEN slice[1][2] ELSE <<"bytes", slice>>
\* a secret as polkadot-js writes it, expanded the way ed25519 does
ToEd25519Bytes(k) == Cells("expanded", k, SEC_LENGTH)
to_raw_vec(pair) == IF pair.kind = "sr25519" THEN Cells("secret", pair.key, SEC_LENGTH) ELSE seed(pair.key)
public(pair) == Cells("public", <<pair.kind, pair.key>>, IF pair.kind = "ecdsa" THEN SEED_LENGTH + 1 ELSE SEED_LENGTH)
to_address(pair) == <<"addr", pair.kind, pair.key>>

Ed25519pair_from_secret_slice(slice) ==
    IF Len(slice) \in {SEED_LENGTH, SEC_LENGTH}
    THEN <<[kind |-> "ed25519", key |-> from_seed(SubSeq(slice, 1, SEED_LENGTH))]>> ELSE <<>>
Ecdsapair_from_secret_slice(slice) ==
    IF Len(slice) = SEED_LENGTH THEN <<[kind |-> "ecdsa", key |-> from_seed(slice)]>> ELSE <<>>
\* a seed, an expanded secret, or one expanded as ed25519 does
Sr25519pair_from_secret_slice(slice) ==
    CASE Len(slice) = SEED_LENGTH -> <<[kind |-> "sr25519", key |-> from_seed(slice)]>>
      [] Len(slice) = SEC_LENGTH /\ slice[1][1] \in {"secret", "expanded"} -> <<[kind |-> "sr25519", key |-> slice[1][2]]>>
      [] OTHER -> <<>>
pair_from_secret_slice(kind, slice) ==
    CASE kind = "ed25519" -> Ed25519pair_from_secret_slice(slice)
      [] kind = "ecdsa" -> Ecdsapair_from_secret_slice(slice)
      [] kind = "sr25519" -> Sr25519pair_from_secret_slice(slice)

-----------------------------------------------------------------------------
(* pkcs8: header, secret, divider and public key, in a box under a password *)

Given(password) == password # <<>> /\ password # <<"">>
TooLong(password) == Given(password) /\ password[1] \in Long
encode(secret_key, public_key, passphrase) ==
    [box |-> IF Given(passphrase) THEN passphrase ELSE <<>>,
     msg |-> <<PKCS8_HEADER>> \o secret_key \o <<PKCS8_DIVIDER>> \o public_key]

\* the secret of the given length, when the divider follows it
DividedAt(msg, length) ==
    IF Len(msg) > length + 1 /\ msg[length + 2] = PKCS8_DIVIDER THEN <<SubSeq(msg, 2, length + 1)>> ELSE <<>>
\* the long secret is tried first; a box that another password closed does not open
decode(encoded, passphrase) ==
    IF encoded.box # (IF Given(passphrase) THEN passphrase ELSE <<>>) \/ encoded.msg[1] # PKCS8_HEADER THEN <<>>
    ELSE LET sec == DividedAt(encoded.msg, SEC_LENGTH)
         IN IF sec # <<>> THEN sec ELSE DividedAt(encoded.msg, SEED_LENGTH)

-----------------------------------------------------------------------------
(* Address and Keystore *)

INDRACORE_GENESIS_HASH == "indracore"
NoAddress == [addr |-> <<>>, label |-> <<>>, crypto_type |-> "", seed |-> <<>>, network |-> ""]
is_watchonly(address) == address.seed = <<>>
into_pair(address) == pair_from_secret_slice(address.crypto_type, address.seed)[1]
\* mutant: the kind of the key is left at the default
into_keystoreSr(address, password) ==
    LET pair == into_pair(address)
    IN [address |-> address.addr, name |-> address.label, crypto |-> "sr25519",
        genesisHash |-> INDRACORE_GENESIS_HASH, encoded |-> encode(to_raw_vec(pair), public(pair), password)]
into_keystore(address, password) ==
    LET pair == into_pair(address)
    IN [address |-> address.addr, name |-> address.label, crypto |-> address.crypto_type,
        genesisHash |-> INDRACORE_GENESIS_HASH, encoded |-> encode(to_raw_vec(pair), public(pair), password)]

from_genesis_hash(hash) == IF hash = INDRACORE_GENESIS_HASH THEN "indracore" ELSE "unknow"
Keystoreinto_pair(keystore, password) ==
    LET secret_key == decode(keystore.encoded, password)
    IN IF secret_key = <<>> THEN <<>> ELSE pair_from_secret_slice(keystore.crypto, secret_key[1])
from_keystore(keystore, password) ==
    LET pair == Keystoreinto_pair(keystore, password)
    IN IF keystore.crypto \notin Kinds \/ pair = <<>> THEN <<>>
       ELSE <<[addr |-> to_address(pair[1]), label |-> keystore.name, crypto_type |-> keystore.crypto,
               seed |-> to_raw_vec(pair[1]), network |-> from_genesis_hash(keystore.genesisHash)]>>

\* mutant: the password does not take part in the key
from_phraseBare(kind, phrase, pass) ==
    LET k == <<"key", phrase, <<>>>>
    IN IF phrase \notin Spoken THEN <<>>
       ELSE <<[addr |-> to_address([kind |-> kind, key |-> k]), label |-> <<>>, crypto_type |-> kind,
               seed |-> seed(k), network |-> from_genesis_hash(INDRACORE_GENESIS_HASH)]>>
from_phrase(kind, phrase, pass) ==
    LET k == <<"key", phrase, pass>>
    IN IF phrase \notin Spoken THEN <<>>
       ELSE <<[addr |-> to_address([kind |-> kind, key |-> k]), label |-> <<>>, crypto_type |-> kind,
               seed |-> seed(k), network |-> from_genesis_hash(INDRACORE_GENESIS_HASH)]>>
\* of a phrase nobody has
generate(kind, phrase, pass) ==
    LET k == <<"key", phrase, pass>>
    IN [addr |-> to_address([kind |-> kind, key |-> k]), label |-> <<>>, crypto_type |-> kind,
        seed |-> seed(k), network |-> from_genesis_hash(INDRACORE_GENESIS_HASH)]

-----------------------------------------------------------------------------
(* Keys that are what they say *)

Made(k) == k = <<"key", k[2], k[3]>>
\* an address is of the key that its secret leads to, or is watched
Sound(a) == a.seed # <<>> =>
    LET k == a.addr[3]
    IN /\ Made(k) /\ a.crypto_type \in Kinds /\ a.addr = <<"addr", a.crypto_type, k>>
       /\ a.seed = seed(k) \/ (a.crypto_type = "sr25519" /\ a.seed = Cells("secret", k, SEC_LENGTH))
\* the forms a secret is written in, here and by polkadot-js
Forms(kind, k) ==
    CASE kind = "ed25519" -> {seed(k), seed(k) \o public([kind |-> kind, key |-> k])}
      [] kind = "ecdsa"   -> {seed(k)}
      [] kind = "sr25519" -> {seed(k), Cells("secret", k, SEC_LENGTH), ToEd25519Bytes(k)}
\* a keystore is of the key of its address, closed under the password
Genuine(keystore, password) ==
    LET kind == keystore.crypto  k == keystore.address[3]
    IN /\ Made(k) /\ kind \in Kinds /\ keystore.address = <<"addr", kind, k>>
       /\ keystore.encoded \in {encode(secret, public([kind |-> kind, key |-> k]), password) : secret \in Forms(kind, k)}
=============================================================================
