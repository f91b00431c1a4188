------------------------------- MODULE MCCodec -------------------------------
(* Instances of Codec for TLC.                                             *)
EXTENDS Codec

Wide(bytes)  == Number(FALSE, [i \in 1..(8 - Len(bytes)) |-> 0] \o bytes)
Minus(bytes) == Number(TRUE, [i \in 1..(8 - Len(bytes)) |-> 255] \o bytes)

Long(n)  == <<"int", TRUE, n>>
Ulong(n) == <<"int", FALSE, n>>
Str      == <<"str">>
Bool     == <<"bool">>
Uchars   == <<"vector", Ulong(1)>>

\* The numbers around every limit of a format or of a type.
Naturals_ == {Wide(b) : b \in {<<0>>, <<31>>, <<127>>, <<128>>, <<255>>, <<1, 0>>, <<127, 255>>,
                              <<128, 0>>, <<255, 255>>, <<1, 0, 0>>, <<127, 255, 255, 255>>,
                              <<128, 0, 0, 0>>, <<255, 255, 255, 255>>, <<1, 0, 0, 0, 0>>,
                              <<127, 255, 255, 255, 255, 255, 255, 255>>,
                              <<128, 0, 0, 0, 0, 0, 0, 0>>,
                              <<255, 255, 255, 255, 255, 255, 255, 255>>}}
Negatives == {Minus(b) : b \in {<<255>>, <<224>>, <<223>>, <<128>>, <<255, 127>>, <<255, 0>>,
                               <<128, 0>>, <<255, 127, 255>>, <<128, 0, 0, 0>>,
                               <<255, 127, 255, 255, 255>>, <<128, 0, 0, 0, 0, 0, 0, 0>>}}

IntTypes == {Long(n) : n \in {1, 2, 4, 8}} \cup {Ulong(n) : n \in {1, 2, 4, 8}}

Integers_ == {<<t, d>> \in IntTypes \X (Naturals_ \cup Negatives) : InRange(d, t[2], t[3])}

Text(n) == [i \in 1..n |-> 97]
Yes(n)  == [i \in 1..n |-> TRUE]
One     == Wide(<<1>>)

Composite ==
    {<<Str, Text(n)>> : n \in {0, 1, 31, 32}}
    \cup {<<<<"vector", Bool>>, Yes(n)>> : n \in {0, 1, 15, 16}}
    \cup {<<Uchars, Text(n)>> : n \in {0, 1, 2, 255, 256}}
    \cup {<<<<"vector", Long(1)>>, <<One, Minus(<<255>>)>>>>,
          <<<<"vector", Ulong(2)>>, <<One>>>>,
          <<<<"tuple", Str, Uchars>>, <<Text(1), <<0, 255>>>>>>,
          <<<<"vector", Uchars>>, <<<<>>, <<1>>>>>>}
    \cup {<<<<"pair", Ulong(2), Bool>>, <<Wide(<<1, 0>>), FALSE>>>>,
          <<<<"tuple">>, <<>>>>,
          <<<<"tuple", Str>>, <<Text(1)>>>>,
          <<<<"tuple", Str, Long(4)>>, <<Text(2), Minus(<<223>>)>>>>,
          <<<<"tuple", Str, <<"tuple", Long(4), Bool>>>>, <<Text(1), <<One, TRUE>>>>>>,
          <<<<"tuple", Str, <<"tuple", <<"vector", Str>>>>>>, <<Text(1), <<<<Text(1), Text(2)>>>>>>>>}

MCMessages == Integers_ \cup Composite

MCTypes ==
    IntTypes \cup {m[1] : m \in Composite}
    \cup {<<"vector", Long(2)>>, <<"tuple", Uchars, Uchars>>, <<"tuple", Str, Ulong(1), Bool>>,
          <<"tuple", Str, <<"tuple", Long(4), Bool, Str>>>>}

\* At least one byte of every format, for the longer payloads fewer.
Bytes    == {0, 127, 128, 129, 130, 144, 145, 146, 160, 161, 192, 193, 195, 196, 199, 202, 204,
             208, 209, 212, 217, 218, 220, 222, 224, 255}
FewBytes == {1, 129, 145, 146, 160, 161, 196, 204, 208, 222}

Payloads(bytes, n) == UNION {[1..k -> bytes] : k \in 0..n}

\* Sizes of 16 and of 32 bits, floats and fixext.
Wides == {<<220, 0, 2, 1, 1>>, <<221, 0, 0, 0, 1, 145, 1>>, <<221, 0, 0, 0, 0>>,
          <<222, 0, 1, 1, 145, 1>>, <<223, 0, 0, 0, 1, 161, 97, 144>>, <<223, 0, 0, 0, 0>>,
          <<218, 0, 1, 97>>, <<219, 0, 0, 0, 1, 97>>, <<197, 0, 1, 97>>, <<198, 0, 0, 0, 1, 97>>,
          <<198, 0, 0, 0, 0>>, <<200, 0, 1, 5, 97>>, <<201, 0, 0, 0, 1, 5, 97>>,
          <<213, 5, 1, 2>>, <<214, 5, 1, 2, 3, 4>>, <<215>> \o Text(9), <<216>> \o Text(17),
          <<202, 1, 2, 3, 4>>, <<203, 1, 2, 3, 4, 5, 6, 7, 8>>,
          <<206, 1, 2, 3, 4>>, <<210, 255, 2, 3, 4>>, <<211, 127, 2, 3, 4, 5, 6, 7, 8>>,
          <<146, 161, 97, 146, 161, 98, 145, 1>>, <<130, 161, 97, 145, 1, 161, 98, 129, 1, 2>>}

MCInputs ==
    Payloads(Bytes, 3) \cup [1..4 -> FewBytes]
    \cup UNION {Prefixes(s) : s \in Wides \cup {Sent(m) : m \in MCMessages}}
    \cup {Append(Sent(m), 193) : m \in MCMessages}
=============================================================================
