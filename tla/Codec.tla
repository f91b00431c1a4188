------------------------------- MODULE Codec -------------------------------
(***************************************************************************)
(* stub::pack and stub::unpack<T>: what a value of a C++ type becomes on   *)
(* the wire, and what a type reads from there.  The reading itself is      *)
(* Unpack, integers and lengths are Formats; here are the rest of the      *)
(* packer, the conversion of the objects to a type, and, to compare Unpack *)
(* with, the format as a grammar.                                          *)
(***************************************************************************)
EXTENDS Unpack, Formats, SequencesExt

CONSTANTS
    Messages,  \* bound of the model: pairs of a type and a value of it
    Types      \* bound of the model: the types that messages are read as

RECURSIVE Pack(_, _), PackEach(_, _), ObjectAt(_), As(_, _), Default(_), ReadAs(_, _, _)
RECURSIVE Decode(_), DecodeMany(_, _, _)

-----------------------------------------------------------------------------
(* Types: <<"int", signed, bytes>>, <<"bool">>, <<"str">>, <<"vector", T>>, *)
(* <<"pair", T, U>>, <<"tuple", T...>>.                                     *)

\* std::vector<unsigned char> is specialised: its elements are no objects.
Kind(type) == IF type = <<"vector", <<"int", FALSE, 1>>>> THEN "bytes" ELSE type[1]

\* The elements of a vector, a pair or a tuple: a sequence of <<type, value>>.
PackEach(elements, i) ==
    IF i > Len(elements) THEN <<>>
    ELSE Pack(elements[i][1], elements[i][2]) \o PackEach(elements, i + 1)

Elements(type, v) ==
    [i \in 1..Len(v) |-> <<IF type[1] = "vector" THEN type[2] ELSE type[i + 1], v[i]>>]

Pack(type, v) ==
    CASE Kind(type) = "int"   -> PackInt(v)
      [] Kind(type) = "bool"  -> IF v THEN <<195>> ELSE <<194>>
      [] Kind(type) = "str"   -> PackStr(Len(v)) \o v
      [] Kind(type) = "bytes" -> PackBin(Len(v)) \o v
      [] OTHER                -> PackArray(Len(v)) \o PackEach(Elements(type, v), 1)

-----------------------------------------------------------------------------
(* object::as<T>(): a value, or type_error is thrown.                      *)

AllOr(reads) ==
    IF \E i \in DOMAIN reads : reads[i].refused THEN Refused
    ELSE Value([i \in DOMAIN reads |-> reads[i].value])

\* What a default-constructed element holds.
Default(type) ==
    CASE Kind(type) = "int"  -> Number(FALSE, [i \in 1..8 |-> 0])
      [] Kind(type) = "bool" -> FALSE
      [] Kind(type) \in {"str", "bytes", "vector"} -> <<>>
      [] OTHER -> [i \in 1..(Len(type) - 1) |-> Default(type[i + 1])]

\* A tuple takes what the array has, and leaves the rest as it was.
AsTuple(type, items) ==
    AllOr([i \in 1..(Len(type) - 1) |->
              IF i <= Len(items) THEN As(type[i + 1], items[i]) ELSE Value(Default(type[i + 1]))])

As(type, o) ==
    CASE Kind(type) = "int" -> AsInt(o, type[2], type[3])
      [] Kind(type) = "bool" /\ o.type = "BOOLEAN" -> Value(o.value)
      [] Kind(type) \in {"str", "bytes"} /\ o.type \in {"STR", "BIN"} -> Value(o.bytes)
      [] Kind(type) = "vector" /\ o.type = "ARRAY" ->
           AllOr([i \in 1..Len(o.items) |-> As(type[2], o.items[i])])
      [] Kind(type) = "pair" /\ o.type = "ARRAY" ->
           IF Len(o.items) = 2 THEN AsTuple(type, o.items) ELSE Refused
      [] Kind(type) = "tuple" /\ o.type = "ARRAY" -> AsTuple(type, o.items)
      [] OTHER -> Refused

\* The object behind a pointer, with those it holds.
ObjectAt(ptr) ==
    LET o == memory[ptr]
    IN  IF o.type \in {"ARRAY", "MAP"}
        THEN [type |-> o.type,
              items |-> [i \in 1..(o.size * (IF o.type = "MAP" THEN 2 ELSE 1)) |->
                            ObjectAt(<<o.ptr[1], o.ptr[2] + ObjectSize * (i - 1)>>)]]
        ELSE o

-----------------------------------------------------------------------------
(* References: the format as a grammar, and what a value of one type means *)
(* to another.                                                             *)

\* What a selector announces: a kind, how many bytes hold its size (0: it is
\* known), and what is known of the size.
Format(b) ==
    CASE b \in 128..143 -> <<"MAP", 0, b - 128>>
      [] b \in 144..159 -> <<"ARRAY", 0, b - 144>>
      [] b \in 160..191 -> <<"STR", 0, b - 160>>
      [] b \in 196..198 -> <<"BIN", 2^(b - 196), 0>>
      [] b \in 199..201 -> <<"EXT", 2^(b - 199), 1>>
      [] b \in 202..203 -> <<"FLOAT", 0, 4 * (b - 201)>>
      [] b \in 204..207 -> <<"UINT", 0, 2^(b - 204)>>
      [] b \in 208..211 -> <<"INT", 0, 2^(b - 208)>>
      [] b \in 212..216 -> <<"EXT", 0, 2^(b - 212) + 1>>
      [] b \in 217..219 -> <<"STR", 2^(b - 217), 0>>
      [] b \in 220..221 -> <<"ARRAY", 2^(b - 219), 0>>
      [] b \in 222..223 -> <<"MAP", 2^(b - 221), 0>>
      [] OTHER -> <<"single", 0, 0>>

Integer(bytes, neg) ==
    [type |-> IF neg THEN "NEGATIVE_INTEGER" ELSE "POSITIVE_INTEGER",
     bytes |-> [i \in 1..(8 - Len(bytes)) |-> IF neg THEN 255 ELSE 0] \o bytes]

Leaf(kind, bytes) ==
    CASE kind = "UINT"  -> Integer(bytes, FALSE)
      [] kind = "INT"   -> Integer(bytes, bytes[1] > 127)
      [] kind = "FLOAT" -> [type |-> IF Len(bytes) = 4 THEN "FLOAT32" ELSE "FLOAT64", bytes |-> bytes]
      [] OTHER          -> [type |-> kind, bytes |-> bytes]

SingleObject(b) ==
    CASE b <= 127 -> Integer(<<b>>, FALSE)
      [] b >= 224 -> Integer(<<b>>, TRUE)
      [] b = 192  -> [type |-> "NIL"]
      [] OTHER    -> [type |-> "BOOLEAN", value |-> b = 195]

Fails(outcome) == [outcome |-> outcome]
Gives(object, rest) == [outcome |-> "success", object |-> object, rest |-> rest]

\* The first object of a sequence of bytes, and what follows it.
Decode(s) ==
    IF s = <<>> THEN Fails("insufficient_bytes")
    ELSE LET f     == Format(s[1])
             known == f[2] + 1 <= Len(s)
             size  == f[3] + Loaded(SubSeq(s, 2, f[2] + 1))
             rest  == SubSeq(s, f[2] + 2, Len(s))
         IN  CASE s[1] = 193 -> Fails("parse_error")
               [] ~known -> Fails("insufficient_bytes")
               [] known /\ f[1] = "single" /\ s[1] # 193 -> Gives(SingleObject(s[1]), rest)
               [] known /\ f[1] \in {"ARRAY", "MAP"} ->
                    DecodeMany(f[1], IF f[1] = "MAP" THEN 2 * size ELSE size, Gives(<<>>, rest))
               [] known /\ f[1] \notin {"single", "ARRAY", "MAP"} ->
                    IF Len(rest) < size THEN Fails("insufficient_bytes")
                    ELSE Gives(Leaf(f[1], SubSeq(rest, 1, size)),
                               SubSeq(rest, size + 1, Len(rest)))

\* The items of a container, n of which are still to come.
DecodeMany(kind, n, sofar) ==
    IF n = 0 THEN Gives([type |-> kind, items |-> sofar.object], sofar.rest)
    ELSE LET d == Decode(sofar.rest)
         IN  IF d.outcome # "success" THEN d
             ELSE DecodeMany(kind, n - 1, Gives(Append(sofar.object, d.object), d.rest))

\* The type and the value of a component of a value.
Component(type, v, i) == Elements(type, v)[i]

Aggregates == {"vector", "pair", "tuple"}
Strings    == {"str", "bytes"}

\* What a value of a type is to a reader who expects another type: strings and
\* bytes are the same to either, and neither is a vector of numbers.
ReadAs(expected, type, v) ==
    LET Item(e, i) == ReadAs(e, Component(type, v, i)[1], Component(type, v, i)[2])
        kind == Kind(expected)
    IN  CASE kind = "int" /\ Kind(type) = "int" ->
               IF InRange(v, expected[2], expected[3]) THEN Value(v) ELSE Refused
          [] kind = "bool" /\ Kind(type) = "bool" -> Value(v)
          [] kind \in Strings /\ Kind(type) \in Strings -> Value(v)
          [] kind = "vector" /\ Kind(type) \in Aggregates ->
               AllOr([i \in 1..Len(v) |-> Item(expected[2], i)])
          [] kind = "pair" /\ Kind(type) \in Aggregates /\ Len(v) # 2 -> Refused
          [] kind \in {"pair", "tuple"} /\ Kind(type) \in Aggregates
               /\ (kind = "pair" => Len(v) = 2) ->
               AllOr([i \in 1..(Len(expected) - 1) |->
                         IF i <= Len(v) THEN Item(expected[i + 1], i)
                         ELSE Value(Default(expected[i + 1]))])
          [] OTHER -> Refused

-----------------------------------------------------------------------------
(* Properties.                                                             *)

\* The machine reads what the grammar says, whatever the payload: the same
\* objects, at the same bytes, or the same error.
ParserAgrees ==
    result # "none" =>
        LET d == Decode(data)
        IN  /\ result = d.outcome
            /\ result = "success" => /\ ObjectAt(Root) = d.object
                                     /\ pos = Len(data) - Len(d.rest)

Sent(m) == Pack(m[1], m[2])

\* Whoever reads what was packed gets the value, as far as his type can hold
\* it: a number that does not fit is refused and never cut off, a tuple of
\* fewer elements is the beginning, one of more is filled up.  The dispatcher
\* relies on it, which reads a message once for its name and again for all.
\* Bytes behind a message do no harm, one that was cut off is refused.
ReadsWhatWasSent ==
    result # "none" =>
        \A m \in Messages :
            /\ IsStrictPrefix(data, Sent(m)) => result = "insufficient_bytes"
            /\ IsPrefix(Sent(m), data) =>
                  /\ result = "success"
                  /\ pos = Len(Sent(m))
                  /\ \A type \in Types : As(type, ObjectAt(Root)) = ReadAs(type, m[1], m[2])
=============================================================================
