------------------------------- MODULE Events -------------------------------
(***************************************************************************)
(* A client that is connected registers the sizes of the types of a pallet *)
(* and decodes the events of blocks record by record (subxt/src/events.rs, *)
(* proc-macro module.rs).                                                  *)
(*                                                                         *)
(* The chain is external: its metadata, its events and their encoding.  A  *)
(* value is the sequence of its bytes, or a sequence of values for a Vec,  *)
(* a Tuple and an Option (none or one); u32 and compact lengths take one   *)
(* byte.                                                                   *)
(***************************************************************************)
EXTENDS Requests

CONSTANTS Blocks,       \* the sequences of records a block may hold
          SizeOf,       \* the encoded length of each type the client defines
          Changed,      \* the types whose length differs in the runtime
          Default       \* the types EventsDecoder::new registers

VARIABLES sizes, block, input, out, result

evars == <<rvars, sizes, block, input, out, result>>

EInit == /\ RInit
         /\ sizes = <<>> /\ block = <<>> /\ input = <<>> /\ out = <<>> /\ result = <<"idle">>

-----------------------------------------------------------------------------
(* The chain *)

RECURSIVE Enc(_, _)
Enc(arg, v) ==
    CASE arg[1] = "Primitive" -> v
      [] arg[1] = "Vec"    -> <<4 * Len(v)>> \o FlattenSeq([i \in DOMAIN v |-> Enc(arg[2], v[i])])
      [] arg[1] = "Option" -> <<Len(v)>> \o FlattenSeq([i \in DOMAIN v |-> Enc(arg[2], v[i])])
      [] arg[1] = "Tuple"  -> FlattenSeq([i \in DOMAIN v |-> Enc(arg[2][i], v[i])])
RawModule(r) == The({m \in ToSet(raw.modules) : m.index = r.module})
RawEvent(r) == The(RawModule(r).events)[r.event + 1]
Args(r) == [i \in DOMAIN RawEvent(r).args |-> from_str[RawEvent(r).args[i]][2]]
Topics(r) == <<4 * r.topics>> \o [i \in 1..(r.topics * SizeOf["Hash"]) |-> 9]
EncodeRecord(r) ==
    r.phase \o <<r.module, r.event>> \o FlattenSeq([i \in DOMAIN r.args |-> Enc(Args(r)[i], r.args[i])])
    \o Topics(r)
EncodeFrom(i) == FlattenSeq([j \in 1..(Len(block) - i + 1) |-> EncodeRecord(block[i + j - 1])])

-----------------------------------------------------------------------------
(* Registering the sizes of types *)

register_type_sizes(types) == [t \in types |-> SizeOf[t]]
RECURSIVE primitives(_)
primitives(arg) == CASE arg[1] = "Primitive" -> {arg[2]}
                     [] arg[1] = "Tuple" -> UNION {primitives(arg[2][i]) : i \in DOMAIN arg[2]}
                     [] OTHER -> primitives(arg[2])
RECURSIVE with_module(_)
with_module(p) == Pallets[p].types \cup UNION {with_module(q) : q \in Pallets[p].supers}
\* EventsDecoder::new, then the with_ of the pallet of a call (Call::events_decoder)
new(p) ==
    /\ metadata[1] = "ok" /\ sizes = <<>>
    /\ sizes' = register_type_sizes(Default \cup with_module(p))
    /\ UNCHANGED <<rvars, block, input, out, result>>
\* mutant: only the first argument of an event is looked at
check_missing_type_sizesFirst ==
    UNION {UNION {primitives(m.events[b].arguments[1]) : b \in DOMAIN m.events} :
               m \in {metadata[2].events[n] : n \in DOMAIN metadata[2].events}}
    \ {<<t>> : t \in DOMAIN sizes}
check_missing_type_sizes ==
    UNION {primitives(e.arguments[i]) : <<e, i>> \in
        UNION {UNION {{<<m.events[b], i>> : i \in DOMAIN m.events[b].arguments} : b \in DOMAIN m.events} :
               m \in {metadata[2].events[n] : n \in DOMAIN metadata[2].events}}}
    \ {<<t>> : t \in DOMAIN sizes}

-----------------------------------------------------------------------------
(* EventsDecoder::decode_events, one record at a time *)

Read(n, s) == IF Len(s) < n THEN <<"error", "Codec">>
              ELSE <<"ok", SubSeq(s, n + 1, Len(s)), SubSeq(s, 1, n)>>
AndThen(p, F(_, _)) == IF p[1] = "ok" THEN F(p[2], p[3]) ELSE p

\* RuntimeError::from_dispatch
from_dispatch(e) ==
    IF e[1] # 3 THEN Found(<<<<"Other", "CannotLookup", "BadOrigin">>[e[1] + 1]>>)
    ELSE Then(module_with_errors(metadata[2], e[2]), LAMBDA m :
            Then(error(m, e[3]), LAMBDA name : Found(<<"Module", m.name, name>>)))
\* a DispatchError and what it makes of the record
dispatch_error(s) ==
    AndThen(Read(1, s), LAMBDA r, b :
        IF b[1] > 3 THEN <<"error", "Codec">>
        ELSE AndThen(Read(IF b[1] = 3 THEN 2 ELSE 0, r), LAMBDA r2, b2 :
            LET told == from_dispatch(b \o b2)
            IN IF told[1] = "ok" THEN <<"runtime", r2, told[2]>> ELSE <<"error", "Metadata">>))

RECURSIVE decode_raw_bytes(_, _, _)
decode_arg(arg, s, output) ==
    CASE arg[1] = "Vec" ->
           AndThen(Read(1, s), LAMBDA r, b :
               decode_raw_bytes([i \in 1..(b[1] \div 4) |-> arg[2]], r, output \o b))
      [] arg[1] = "Option" ->
           AndThen(Read(1, s), LAMBDA r, b :
               CASE b[1] = 0 -> <<"ok", r, output \o b>>
                 [] b[1] = 1 -> decode_raw_bytes(<<arg[2]>>, r, output \o b)
                 [] OTHER -> <<"error", "Other">>)
      [] arg[1] = "Tuple" -> decode_raw_bytes(arg[2], s, output)
      [] arg = <<"Primitive", <<"DispatchError">>>> -> dispatch_error(s)
      [] arg = <<"Primitive", <<"DispatchResult">>>> ->
           AndThen(Read(1, s), LAMBDA r, b : CASE b[1] = 0 -> <<"ok", r, output>>   \* nothing is written
                                            [] b[1] = 1 -> dispatch_error(r)
                                            [] OTHER -> <<"error", "Codec">>)
      [] OTHER -> IF arg[2] \in {<<t>> : t \in DOMAIN sizes}
                  THEN AndThen(Read(sizes[arg[2][1]], s), LAMBDA r, b : <<"ok", r, output \o b>>)
                  ELSE <<"error", "TypeSizeUnavailable", arg[2]>>
\* the first argument that fails ends the record
decode_raw_bytes(args, s, output) ==
    IF args = <<>> THEN <<"ok", s, output>>
    ELSE AndThen(decode_arg(Head(args), s, output), LAMBDA r, o : decode_raw_bytes(Tail(args), r, o))

decode_phase(s) ==
    AndThen(Read(1, s), LAMBDA r, b : CASE b[1] = 0 -> AndThen(Read(1, r), LAMBDA r2, b2 : <<"ok", r2, <<0>> \o b2>>)
                                     [] b[1] = 1 -> <<"ok", r, b>>
                                     [] OTHER -> <<"error", "Codec">>)
\* mutant: the topics are not read
decode_topicsNot(s) == <<"ok", s, <<>>>>
decode_topics(s) == AndThen(Read(1, s), LAMBDA r, b :
    IF b[1] % 4 # 0 THEN <<"error", "Codec">> ELSE Read((b[1] \div 4) * sizes["Hash"], r))
decode_header(s) ==
    AndThen(decode_phase(s), LAMBDA r, phase : AndThen(Read(2, r), LAMBDA r2, b :
        LET m == module_with_events(metadata[2], b[1])
            e == Then(m, LAMBDA x : event(x, b[2]))
        IN IF e[1] # "ok" THEN <<"error", "Metadata">>
           ELSE <<"ok", r2, [phase |-> phase, module |-> m[2].name, variant |-> e[2].name,
                             arguments |-> e[2].arguments]>>))
decode_record(s) ==
    AndThen(decode_header(s), LAMBDA r, h :
        LET data == decode_raw_bytes(h.arguments, r, <<>>)
        IN CASE data[1] = "ok" ->   \* topics come after the event data in EventRecord
                  AndThen(decode_topics(data[2]), LAMBDA r2, t :
                      <<"ok", r2, <<h.phase, "event", <<h.module, h.variant>>, data[3]>>>>)
             [] data[1] = "runtime" -> <<"ok", data[2], <<h.phase, "error", data[3], <<>>>>>>
             [] OTHER -> data)

begin_block(b) ==
    /\ metadata[1] = "ok" /\ sizes # <<>> /\ result = <<"idle">>
    /\ block' = b /\ out' = <<>> /\ result' = <<"decoding">>
    /\ input' = FlattenSeq([i \in DOMAIN b |-> EncodeRecord(b[i])])
    /\ UNCHANGED <<rvars, sizes>>
\* mutant: a record that fails is skipped and the number of records is not kept
next_recordSkipping ==
    LET d == decode_record(input)
    IN /\ result = <<"decoding">> /\ Len(out) < Len(block) + 2
       /\ out' = Append(out, IF d[1] = "ok" THEN d[3] ELSE <<"none">>)
       /\ input' = IF d[1] = "ok" THEN d[2] ELSE <<>>
       /\ UNCHANGED <<rvars, sizes, block, result>>
next_record ==
    LET d == decode_record(input)
    IN /\ result = <<"decoding">> /\ Len(out) < Len(block)
       /\ IF d[1] = "ok" THEN out' = Append(out, d[3]) /\ input' = d[2] /\ UNCHANGED result
          ELSE result' = d /\ UNCHANGED <<input, out>>
       /\ UNCHANGED <<rvars, sizes, block>>
end_block ==
    /\ result = <<"decoding">> /\ Len(out) = Len(block)
    /\ result' = <<"ok">>
    /\ UNCHANGED <<rvars, sizes, block, input, out>>

ENext == \/ RNext /\ UNCHANGED <<sizes, block, input, out, result>>
         \/ \E p \in DOMAIN Pallets : new(p)
         \/ \E b \in Blocks : begin_block(b)
         \/ next_record
         \/ end_block
ESpec == EInit /\ [][ENext]_evars

-----------------------------------------------------------------------------
(* Properties *)

ETypeOK == /\ metadata[1] \in {"none", "ok", "error"}
           /\ DOMAIN sizes \subseteq DOMAIN SizeOf
           /\ result[1] \in {"idle", "decoding", "ok", "error"}
           /\ Len(out) <= Len(block)

\* a dispatch error in a record: the number of its byte, or 0
ErrorArg(r) == {i \in DOMAIN r.args : \/ Args(r)[i] = <<"Primitive", <<"DispatchError">>>>
                                      \/ Args(r)[i] = <<"Primitive", <<"DispatchResult">>>> /\ r.args[i][1] = 1}
Dispatch(r) == LET e == r.args[The(ErrorArg(r))]
               IN IF Args(r)[The(ErrorArg(r))][2] = <<"DispatchResult">> THEN Tail(e) ELSE e
Readable(r) ==
    /\ r.phase # <<2>>
    /\ \A i \in DOMAIN r.args : \A p \in primitives(Args(r)[i]) \ {<<"DispatchError">>, <<"DispatchResult">>} :
           p[1] \in DOMAIN sizes \ Changed
    /\ ErrorArg(r) # {} /\ Dispatch(r)[1] = 3 =>
           \E m \in ToSet(raw.modules) : m.index = Dispatch(r)[2] /\ Dispatch(r)[3] < Len(m.errors)
Truth(r) ==
    LET m == RawModule(r)
        d == Dispatch(r)
        of == The({x \in ToSet(raw.modules) : x.index = d[2]})
    IN IF ErrorArg(r) = {}
       THEN <<r.phase, "event", <<m.name, RawEvent(r).name>>,
              FlattenSeq([i \in DOMAIN r.args |->
                  IF Args(r)[i] = <<"Primitive", <<"DispatchResult">>>> THEN <<>> ELSE Enc(Args(r)[i], r.args[i])])>>
       ELSE <<r.phase, "error",
              IF d[1] = 3 THEN <<"Module", of.name, of.errors[d[3] + 1]>>
              ELSE <<<<"Other", "CannotLookup", "BadOrigin">>[d[1] + 1]>>, <<>>>>
Clean(n) == \A i \in 1..n : Readable(block[i]) /\ ErrorArg(block[i]) = {}

(* Up to and including the first record that bears a dispatch error, every   *)
(* record is told as the chain wrote it, and none fails (events.rs).         *)
ToldAsWritten ==
    /\ \A i \in DOMAIN out : Clean(i - 1) /\ Readable(block[i]) => out[i] = Truth(block[i])
    /\ result[1] = "error" => LET i == Len(out) + 1 IN ~(Clean(i - 1) /\ Readable(block[i]))

(* A block that fails for want of the size of a type fails for a type that   *)
(* check_missing_type_sizes warned about when the client was built.          *)
WarnedBeforeFailing ==
    result[1] = "error" /\ result[2] = "TypeSizeUnavailable" => result[3] \in check_missing_type_sizes

(* As the comment at events.rs:244 says, topics come after the event data:   *)
(* what is left to read is the encoding of the records left.  The code does  *)
(* not keep this after a dispatch error: see the README.                     *)
RecordsAreAligned ==
    result = <<"decoding">> => input = EncodeFrom(Len(out) + 1)

(* What a block of events is told as: the types, every record as it was     *)
(* written, and no failure for want of a size that was not warned of        *)
(* (events.rs).                                                             *)
BlocksAreTold == ETypeOK /\ WarnedBeforeFailing /\ ToldAsWritten
=============================================================================
