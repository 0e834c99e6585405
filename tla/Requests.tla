------------------------------ MODULE Requests ------------------------------
(***************************************************************************)
(* A client connects to a node and asks its metadata for storage keys and  *)
(* call bytes, once or many times (subxt/src/rpc.rs, frame/mod.rs, and the *)
(* derive macros store.rs and call.rs).  The metadata of the node is       *)
(* external.                                                               *)
(***************************************************************************)
EXTENDS Metadata

CONSTANTS Raws,         \* the metadata a node may answer
          KeyArgs,      \* the encoded keys a store is asked for
          OwnStores,    \* <<pallet, field, number of keys>> of stores defined outside subxt
          MaxAsked      \* bound: requests that are remembered

IsList(s) == s \in Seq(ToSet(s))
\* no key goes on where another ends, as the encodings of one type never do
PrefixFree == \A k, l \in KeyArgs : IsPrefix(k, l) => k = l
\* What a runtime is built with: every module has an index and a storage prefix of its own.  An
\* entry of two keys whose first is not hashed needs keys that say where they end.
ASSUME RequestsAssumption ==
    /\ MaxAsked \in Nat
    /\ \A k \in KeyArgs : IsList(k)
    /\ \A s \in OwnStores : s[3] \in 0..2
    /\ \A r \in Raws :
          /\ IsList(r.modules)
          /\ \A m, n \in ToSet(r.modules) :
                \/ m.index = n.index
                \/ m.storage # <<>> /\ n.storage # <<>> /\ m.prefix = n.prefix
                => m = n
          /\ \A m \in ToSet(r.modules) :
                /\ \A c \in m.calls : IsList(c)
                /\ IsList(m.storage)
                /\ \A e \in ToSet(m.storage) :
                      IsList(e.ty) /\ e.ty # <<>> /\ (Len(e.ty) = 3 => e.ty[2] # "Identity" \/ PrefixFree)

VARIABLES raw,       \* the metadata of the node
          metadata,  \* what the client made of it
          asked      \* requests with their answers

rvars == <<raw, metadata, asked>>

NotConnected == <<"none">>
RInit == raw \in Raws /\ metadata = NotConnected /\ asked = {}

connect ==
    /\ metadata = NotConnected
    /\ metadata' = try_from(raw)
    /\ UNCHANGED <<raw, asked>>
Ask(request, answer) ==
    /\ metadata[1] = "ok" /\ Cardinality(asked) < MaxAsked
    /\ asked' = asked \cup {<<request, answer>>}
    /\ UNCHANGED <<raw, metadata>>
\* the key of a store, or of an entry of a double map
ask_key(p, field, keys) == Ask(<<"key", p, field, keys>>, store_key(metadata[2], p, field, keys))
ask_call(p, function) == Ask(<<"call", p, function>>, call_bytes(metadata[2], p, function))

Stores == OwnStores \cup UNION {{<<p, s[1], s[2]>> : s \in Pallets[p].stores} : p \in DOMAIN Pallets}
RNext == \/ connect
         \/ \E s \in Stores : \E keys \in [1..s[3] -> KeyArgs] : ask_key(s[1], s[2], keys)
         \/ \E p \in DOMAIN Pallets : \E f \in Pallets[p].calls : ask_call(p, f)
RSpec == RInit /\ [][RNext]_rvars

-----------------------------------------------------------------------------
(* Properties *)

(* Two requests for different stores or keys are never answered one storage  *)
(* key, and the key of one store never lies under the prefix of another.     *)
KeysAreDistinct ==
    \A a, b \in {x \in asked : x[1][1] = "key" /\ x[2][1] = "ok"} :
        a[1] # b[1] =>
            /\ a[2] # b[2]
            /\ <<a[1][2], a[1][3]>> # <<b[1][2], b[1][3]>> =>
                   ~IsPrefix(store_prefix(metadata[2], b[1][2], b[1][3])[2], a[2][2])

(* The bytes of a call select, in the runtime, the call that was asked for,  *)
(* unless its module has more calls than a byte tells apart.                 *)
CallIsTheNamedOne ==
    \A a \in {x \in asked : x[1][1] = "call" /\ x[2][1] = "ok"} :
        LET m == The({m \in ToSet(raw.modules) : m.index = a[2][2][1]})
            calls == The(m.calls)
        IN m.name = a[1][2] /\ (Len(calls) <= ByteSpan => calls[a[2][2][2] + 1] = a[1][3])

(* What a client asks of the metadata it is answered: storage keys that do  *)
(* not collide, and calls that are the named ones (metadata.rs, store.rs,   *)
(* call.rs).                                                                *)
RequestsAreRight == KeysAreDistinct /\ CallIsTheNamedOne

-----------------------------------------------------------------------------
(* Why: every answer is what the one metadata gives, which never changes.   *)

Keyed(keys) == \E n \in 0..2 : keys \in [1..n -> KeyArgs]
KeyOfMetadata(a) == /\ a[1][1] = "key"
                    /\ a[1] = <<"key", a[1][2], a[1][3], a[1][4]>> /\ Keyed(a[1][4])
                    /\ a = <<a[1], store_key(metadata[2], a[1][2], a[1][3], a[1][4])>>
CallOfMetadata(a) == /\ a[1][1] = "call"
                     /\ a = <<a[1], call_bytes(metadata[2], a[1][2], a[1][3])>>
(* What the client made of its node's metadata stays, and it is all that is *)
(* answered from.                                                           *)
RIInv == /\ raw \in Raws /\ metadata \in {NotConnected, try_from(raw)}
         /\ \A a \in asked : metadata[1] = "ok" /\ (KeyOfMetadata(a) \/ CallOfMetadata(a))
=============================================================================
