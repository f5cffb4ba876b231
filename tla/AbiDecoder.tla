----------------------------- MODULE AbiDecoder -----------------------------
(***************************************************************************)
(* LogDecoder::decode (forge-index-core, abi/decoder.rs): the parameters   *)
(* of an event taken from the topics and the data of a log.                *)
(*                                                                         *)
(* Data is a sequence of slots and every offset and length is counted in   *)
(* slots: the code adds 32 where this module adds 1.  A slot is a number   *)
(* of WordBits bits (256 in the code); HalfBits is the width that the code *)
(* reads into a u128 or an i128, AddressBits the width of an address and   *)
(* ByteBits that of a byte.  The payload of bytes and string has one       *)
(* element per slot; the text of a string is valid UTF-8 (the code replaces*)
(* what is not), and the length of an array fits in memory (the code       *)
(* reserves room for it before it reads the elements).                     *)
(*                                                                         *)
(* A type is a record with field k; n is its width or length, of the type  *)
(* of its elements, parts the types of its components.                     *)
(***************************************************************************)
EXTENDS Integers, Sequences, SequencesExt

CONSTANTS WordBits, HalfBits, AddressBits, ByteBits

ASSUME AbiAssumption ==
  /\ {WordBits, HalfBits, AddressBits, ByteBits} \subseteq Nat \ {0}
  /\ HalfBits < WordBits /\ AddressBits < WordBits /\ ByteBits < HalfBits

Failed == [ok |-> FALSE]
Good(v, used) == [ok |-> TRUE, val |-> v, used |-> used]

RECURSIVE IsDynamic(_)

IsDynamic(t) ==
  \/ t.k \in {"bytes", "array"}
  \/ t.k = "farray" /\ IsDynamic(t.of)
  \/ t.k = "tuple" /\ \E i \in DOMAIN t.parts : IsDynamic(t.parts[i])

(* decode_int: sign extension from n bits.  For n = 128 the shift of the   *)
(* mask overflows: a debug build panics, and in a release build every      *)
(* negative value becomes -1.                                              *)
DecodeInt(word, n) ==
  IF n <= HalfBits
    THEN LET raw == word % 2^HalfBits
         IN  CASE (raw \div 2^(n - 1)) % 2 = 0 -> raw
               [] n < HalfBits -> (raw % 2^n) - 2^n
               [] OTHER -> -1
    ELSE IF word >= 2^(WordBits - 1) THEN word - 2^WordBits ELSE word

(* decode_uint: what fits into a u128 is cut to it.                        *)
DecodeUint(word, n) == IF n <= HalfBits THEN word % 2^HalfBits ELSE word

(* decode_indexed_param, and the one-slot cases of decode_param_from_data. *)
DecodeWord(t, word) ==
  CASE t.k = "uint" -> DecodeUint(word, t.n)
    [] t.k = "int" -> DecodeInt(word, t.n)
    [] t.k = "address" -> word % 2^AddressBits
    [] t.k = "bool" -> word % 2^ByteBits # 0
    [] t.k = "fixed" -> word \div 2^(WordBits - t.n * ByteBits)
    [] OTHER -> word      \* the hash of a dynamic value

Elementary(t) == t.k \in {"uint", "int", "address", "bool", "fixed"}

(* read_slot refuses a slot that is not all there; offsets start at 0.     *)
HasSlot(data, off) == off < Len(data)
Slot(data, off) == IF off < Len(data) THEN data[off + 1] ELSE 0

(* The payload after the length, cut off where the data ends.              *)
DecodeBytesAt(data, off) ==
  IF ~HasSlot(data, off) THEN Failed
  ELSE Good(SubSeq(data, off + 2,
              LET end == off + 1 + Slot(data, off)
              IN  IF end <= Len(data) THEN end ELSE Len(data)),
            1 + Slot(data, off))

RECURSIVE DecodeParam(_, _, _), DecodeEach(_, _, _)

(* Consecutive parameters of the types ts from pos on.                     *)
DecodeEach(ts, data, pos) ==
  IF ts = <<>> THEN Good(<<>>, 0)
  ELSE LET first == DecodeParam(Head(ts), data, pos) IN
       IF ~first.ok THEN Failed
       ELSE LET rest == DecodeEach(Tail(ts), data, pos + first.used) IN
            IF ~rest.ok THEN Failed
            ELSE Good(<<first.val>> \o rest.val, first.used + rest.used)

Copies(t, n) == [i \in 1 .. n |-> t]

(* The length, then that many elements.                                    *)
DecodeArrayAt(inner, data, off) ==
  IF ~HasSlot(data, off) THEN Failed
  ELSE DecodeEach(Copies(inner, Slot(data, off)), data, off + 1)

(* decode_param_from_data_at_abs: the offset has been followed already,    *)
(* except for what is left to decode_param_from_data.                      *)
DecodeAtAbs(t, data, off) ==
  CASE t.k = "bytes" -> DecodeBytesAt(data, off)
    [] t.k = "array" -> DecodeArrayAt(t.of, data, off)
    [] OTHER -> DecodeParam(t, data, off)

RECURSIVE DecodeTupleFrom(_, _, _, _)

(* decode_tuple_at: offsets in a tuple count from its base.                *)
DecodeTupleFrom(ts, data, base, pos) ==
  IF ts = <<>> THEN Good(<<>>, pos - base)
  ELSE LET t == Head(ts)
           first == IF ~IsDynamic(t) THEN DecodeParam(t, data, pos)
                    ELSE IF ~HasSlot(data, pos) THEN Failed
                    ELSE DecodeAtAbs(t, data, base + Slot(data, pos))
       IN  IF ~first.ok THEN Failed
           ELSE LET rest == DecodeTupleFrom(Tail(ts), data, base,
                              pos + (IF IsDynamic(t) THEN 1 ELSE first.used))
                IN  IF rest.ok THEN Good(<<first.val>> \o rest.val, rest.used)
                               ELSE Failed

(* Mutant: the size of the tail is skipped in the head.                    *)
BehindConsumed(result) == result

(* The parameter occupies one slot of its head whatever was decoded.       *)
Behind(result) == IF result.ok THEN Good(result.val, 1) ELSE Failed

(* decode_param_from_data.  A static fixed array is taken to fill one slot *)
(* per element; the offset of a dynamic value counts from the start of the *)
(* data.                                                                   *)
DecodeParam(t, data, off) ==
  CASE t.k = "farray" /\ ~IsDynamic(t) ->
         LET all == DecodeEach(Copies(t.of, t.n), data, off)
         IN  IF all.ok THEN Good(all.val, t.n) ELSE Failed
    [] t.k = "tuple" /\ ~IsDynamic(t) -> DecodeTupleFrom(t.parts, data, off, off)
    [] OTHER ->
         IF ~HasSlot(data, off) THEN Failed
         ELSE LET word == Slot(data, off) IN
              CASE t.k = "bytes"  -> Behind(DecodeBytesAt(data, word))
                [] t.k = "array"  -> Behind(DecodeArrayAt(t.of, data, word))
                [] t.k = "farray" -> Behind(DecodeEach(Copies(t.of, t.n), data, word))
                [] t.k = "tuple"  -> Behind(DecodeTupleFrom(t.parts, data, word, word))
                [] OTHER          -> Good(DecodeWord(t, word), 1)

(* decode: indexed parameters from the topics after the selector, the      *)
(* others from the data one after the other.  events is the decoder's map  *)
(* from selectors to inputs; the result maps the names of the parameters,  *)
(* so that of two parameters with one name the later is kept.              *)
Decode(events, log) ==
  IF log.topics = <<>> \/ Head(log.topics) \notin DOMAIN events THEN Failed
  ELSE LET inputs  == events[Head(log.topics)]
           indexed == SelectSeq(inputs, LAMBDA p : p.indexed)
           plain   == SelectSeq(inputs, LAMBDA p : ~p.indexed)
           data    == DecodeEach([i \in DOMAIN plain |-> plain[i].type], log.data, 0)
           (* The value of the i-th input.                                 *)
           Nth(i)  == LET k == Len(SelectSeq(SubSeq(inputs, 1, i),
                                             LAMBDA p : p.indexed = inputs[i].indexed))
                      IN  IF inputs[i].indexed
                            THEN DecodeWord(inputs[i].type, log.topics[k + 1])
                            ELSE data.val[k]
           LastNamed(n) == CHOOSE i \in DOMAIN inputs :
                        /\ inputs[i].name = n
                        /\ \A j \in DOMAIN inputs : inputs[j].name = n => j <= i
       IN  IF Len(indexed) >= Len(log.topics) \/ ~data.ok THEN Failed
           ELSE Good([n \in {inputs[i].name : i \in DOMAIN inputs} |-> Nth(LastNamed(n))], 0)

-----------------------------------------------------------------------------
(* The encoding of the Solidity ABI, for reference.                        *)

EncodeWord(t, v) ==
  CASE t.k = "int"   -> v % 2^WordBits
    [] t.k = "bool"  -> IF v THEN 1 ELSE 0
    [] t.k = "fixed" -> v * 2^(WordBits - t.n * ByteBits)
    [] OTHER         -> v

RECURSIVE EncodeAll(_, _), Encode(_, _)

Encode(t, v) ==
  CASE Elementary(t)  -> <<EncodeWord(t, v)>>
    [] t.k = "bytes"  -> <<Len(v)>> \o v
    [] t.k = "array"  -> <<Len(v)>> \o EncodeAll(Copies(t.of, Len(v)), v)
    [] t.k = "farray" -> EncodeAll(Copies(t.of, t.n), v)
    [] t.k = "tuple"  -> EncodeAll(t.parts, v)

(* Heads, where a dynamic value has the offset of its tail, then tails.    *)
EncodeAll(ts, vs) ==
  LET n == Len(ts)
      enc == [i \in 1 .. n |-> Encode(ts[i], vs[i])]
      Size(i) == IF IsDynamic(ts[i]) THEN 1 ELSE Len(enc[i])
      heads == FoldLeftDomain(LAMBDA acc, i : acc + Size(i), 0, ts)
      TailsBefore(i) == FoldLeftDomain(
                          LAMBDA acc, j : acc + (IF j < i /\ IsDynamic(ts[j])
                                                   THEN Len(enc[j]) ELSE 0), 0, ts)
  IN  FlattenSeq([i \in 1 .. n |-> IF IsDynamic(ts[i])
                                     THEN <<heads + TailsBefore(i)>> ELSE enc[i]])
      \o FlattenSeq([i \in 1 .. n |-> IF IsDynamic(ts[i]) THEN enc[i] ELSE <<>>])

(* What an indexed parameter that is not elementary leaves in its topic.   *)
TopicHash == 2^WordBits - 2

(* The log of an event with these inputs and these values.                 *)
LogOf(selector, inputs, vs) ==
  LET Nums(b) == SelectSeq([i \in DOMAIN inputs |-> i], LAMBDA i : inputs[i].indexed = b)
      plain == Nums(FALSE)
      Topic(i) == IF Elementary(inputs[i].type)
                    THEN EncodeWord(inputs[i].type, vs[i]) ELSE TopicHash
  IN  [topics |-> <<selector>> \o [i \in DOMAIN Nums(TRUE) |-> Topic(Nums(TRUE)[i])],
       data |-> EncodeAll([i \in DOMAIN plain |-> inputs[plain[i]].type],
                          [i \in DOMAIN plain |-> vs[plain[i]]])]

-----------------------------------------------------------------------------
(* The types for which decoding is claimed to be right.  Left out, because *)
(* the code reads something else than the encoding says: signed integers   *)
(* of exactly 128 bits (DecodeInt), static arrays whose elements fill more *)
(* than one slot, and dynamic values inside arrays, fixed arrays or inner  *)
(* tuples (their offsets count from the enclosing value).                  *)

RECURSIVE Flat(_)
Flat(t) ==
  \/ Elementary(t) /\ ~(t.k = "int" /\ t.n = HalfBits)
  \/ t.k = "farray" /\ Elementary(t.of) /\ Flat(t.of)
  \/ t.k = "tuple" /\ \A i \in DOMAIN t.parts : Flat(t.parts[i])

OneLevel(t) == Flat(t) \/ t.k = "bytes" \/ (t.k = "array" /\ Flat(t.of))

Supported(t) ==
  OneLevel(t) \/ (t.k = "tuple" /\ \A i \in DOMAIN t.parts : OneLevel(t.parts[i]))

(* decoder.rs:73: what an event was emitted with is what its handler gets, *)
(* name by name, for the types above and for parameters with different     *)
(* names; an indexed dynamic value comes out as its hash.                  *)
RoundTrips(inputs, vs) ==
  LET log == LogOf("selector", inputs, vs)
      out == Decode([s \in {"selector"} |-> inputs], log)
  IN  (/\ \A i \in DOMAIN inputs :
            Supported(inputs[i].type) \/ (inputs[i].indexed /\ ~Elementary(inputs[i].type))
       /\ \A i, j \in DOMAIN inputs : inputs[i].name = inputs[j].name => i = j)
      => /\ out.ok
         /\ \A i \in DOMAIN inputs :
              out.val[inputs[i].name] =
                IF inputs[i].indexed /\ ~Elementary(inputs[i].type)
                  THEN TopicHash ELSE vs[i]

(* decoder.rs:374: a log with fewer slots than its static parameters need, *)
(* or with fewer topics than indexed parameters, is refused, never decoded *)
(* to values that were not emitted.                                        *)
ShortLogRefused(inputs, vs) ==
  LET log == LogOf("selector", inputs, vs)
      events == [s \in {"selector"} |-> inputs]
  IN  /\ Len(log.topics) > 1 =>
           ~Decode(events, [log EXCEPT !.topics = Front(@)]).ok
      /\ log.data # <<>> /\ (\A i \in DOMAIN inputs : Flat(inputs[i].type)) =>
           ~Decode(events, [log EXCEPT !.data = Front(@)]).ok
=============================================================================
