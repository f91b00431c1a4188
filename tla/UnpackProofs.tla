----------------------------- MODULE UnpackProofs -----------------------------
(***************************************************************************)
(* Theorems about Unpack, for every payload and every size of the chunks,  *)
(* and about Formats: what becomes of any integer and of any string that   *)
(* was packed, and of a string that an array starts with.                  *)
(*                                                                         *)
(* That the stacks agree is not inductive by itself: the visitor writes    *)
(* its objects into the same memory in which the open containers are, and  *)
(* what the parser has counted is compared with the size that stands       *)
(* there.  So nothing may be written where a container is.  As the zone    *)
(* only goes on, the memory of a container lies behind that of the one it  *)
(* is in (Before), and each object that is opened or written lies in the   *)
(* memory of the one below (Houses): hence the places of the open          *)
(* containers, and the place of the next object, are all different.        *)
(***************************************************************************)
EXTENDS Unpack, Formats, SequenceTheorems, TLAPS

Types == {"item", "key", "value"}

\* While an object is read there is a byte to read; when bytes are missing,
\* their number is that of the format, until a length was read from them.
ScanOK ==
    /\ data \in Seq(Byte)
    /\ pos \in 0..Len(data) /\ trail \in Nat /\ cs \in {Header} \cup 4..ExtValue
    /\ again \in BOOLEAN /\ consuming \in BOOLEAN
    /\ consuming => pos < Len(data)
    /\ cs # Header /\ ~consuming => trail > 0
    /\ cs \in 4..31 /\ ~consuming => trail = Trails[cs - 3]

\* The zone allocates from the last chunk, and knows how much is left of it.
ZoneOK ==
    /\ chunks \in Seq(Nat) /\ zone \in [chunk : Nat, at : Nat, free : Nat]
    /\ zone.chunk = Len(chunks) /\ zone.chunk > 0
    /\ zone.at + zone.free = chunks[zone.chunk]

Blocks == [chunk : Nat, from : Nat, size : Nat]

\* Each block begins where those of its chunk before it have ended.
BlocksOK ==
    /\ blocks \in Seq(Blocks)
    /\ \A i \in 1..Len(blocks) :
          /\ blocks[i].chunk \in 1..zone.chunk
          /\ blocks[i].from + blocks[i].size <= chunks[blocks[i].chunk]
          /\ blocks[i].chunk = zone.chunk => blocks[i].from + blocks[i].size <= zone.at
    /\ \A i, j \in 1..Len(blocks) :
          i < j /\ blocks[i].chunk = blocks[j].chunk =>
              blocks[i].from + blocks[i].size <= blocks[j].from

\* A map has two objects for each of its items; and where its memory ends.
Items(o) == IF o.type = "MAP" THEN 2 * o.size ELSE o.size
End(o)   == o.ptr[2] + ObjectSize * Items(o)

\* What the parser has counted of the container o at its level l.
Counted(o, l) ==
    CASE l.type = "item"  -> o.size - l.rest
      [] l.type = "key"   -> 2 * (o.size - l.rest)
      [] l.type = "value" -> 2 * (o.size - l.rest) + 1

Level == [type : Types, rest : Nat]

\* The container o, at the level l, has room for an object at next.
Houses(o, l, next) ==
    /\ o.type = IF l.type = "item" THEN "ARRAY" ELSE "MAP"
    /\ o.ptr \in Nat \X Nat /\ o.size \in Nat
    /\ l.rest \in 1..o.size
    /\ next = <<o.ptr[1], o.ptr[2] + ObjectSize * Counted(o, l)>>

\* The zone z handed out the memory of the container o.
Handed(o, z) ==
    /\ o.ptr[1] \in 1..z.chunk
    /\ o.ptr[1] = z.chunk => End(o) <= z.at

\* The memory of p is behind that of o.
Before(o, p) == o.ptr[1] < p.ptr[1] \/ (o.ptr[1] = p.ptr[1] /\ End(o) <= p.ptr[2])

\* The containers that are open, the outermost first.
Open == 1..Len(levels)

Container(i) == memory[cursors[i]]

StacksOK ==
    /\ levels \in Seq(Level) /\ cursors \in Seq(Nat \X Nat)
    /\ Len(cursors) = Len(levels) + 1 /\ cursors[1] = Root
    /\ \A i \in Open :
          /\ cursors[i] \in DOMAIN memory
          /\ Houses(Container(i), levels[i], cursors[i + 1])
          /\ Handed(Container(i), zone)
    /\ \A i, j \in Open : i < j => Before(Container(i), Container(j))

IInv == ScanOK /\ ZoneOK /\ BlocksOK /\ (result = "none" => StacksOK)

-----------------------------------------------------------------------------
LEMMA BytesAreNumbers == ASSUME NEW b \in Seq(Byte) PROVE \A i \in 1..Len(b) : b[i] \in Nat
<1>1. \A i \in 1..Len(b) : b[i] \in Byte
  OBVIOUS
<1>2. \A n \in Byte : n \in Nat
  BY DEF Byte
<1> QED BY <1>1, <1>2

\* The values of the loop of _msgpack_load, byte by byte.
Adds(f, b) == f = [i \in 0..Len(b) |-> IF i = 0 THEN 0 ELSE 256 * f[i - 1] + b[i]]

\* There is such a function for the lengths a payload can hold, as a proof
\* by induction is not to be had.
LEMMA LoadedExists ==
    ASSUME NEW b, NEW n \in {1, 2, 4}, Len(b) = n, \A i \in 1..n : b[i] \in Nat
    PROVE  \E f : Adds(f, b)
<1> DEFINE two   == 256 * b[1] + b[2]
           three == 256 * two + b[3]
           four  == 256 * three + b[4]
           g     == [i \in 0..n |-> IF i = 0 THEN 0 ELSE IF i = 1 THEN b[1] ELSE IF i = 2 THEN two
                                    ELSE IF i = 3 THEN three ELSE four]
<1>1. \A i \in 0..n : g[i] = IF i = 0 THEN 0 ELSE 256 * g[i - 1] + b[i]
  <2> SUFFICES ASSUME NEW i \in 0..n PROVE g[i] = IF i = 0 THEN 0 ELSE 256 * g[i - 1] + b[i]
    OBVIOUS
  <2>1. i = 0 \/ i = 1 \/ i = 2 \/ i = 3 \/ i = 4
    OBVIOUS
  <2>2. CASE i = 0
    BY <2>2
  <2>3. CASE i = 1
    BY <2>3
  <2>4. CASE i = 2
    BY <2>4
  <2>5. CASE i = 3
    BY <2>5
  <2>6. CASE i = 4
    BY <2>6
  <2> QED BY <2>1, <2>2, <2>3, <2>4, <2>5, <2>6
<1>2. g = [i \in 0..n |-> IF i = 0 THEN 0 ELSE 256 * g[i - 1] + b[i]]
  <2> DEFINE next(i) == IF i = 0 THEN 0 ELSE 256 * g[i - 1] + b[i]
  <2>1. g = [i \in 0..n |-> g[i]]
    OBVIOUS
  <2>2. \A i \in 0..n : g[i] = next(i)
    BY <1>1
  <2> HIDE DEF g, next
  <2>3. g = [i \in 0..n |-> next(i)]
    BY <2>1, <2>2
  <2> QED BY <2>3 DEF next
<1> QED BY <1>2 DEF Adds

LEMMA LoadedType ==
    ASSUME NEW b \in Seq(Byte), Len(b) \in {1, 2, 4}
    PROVE  Loaded(b) \in Nat
<1> DEFINE f == CHOOSE f : Adds(f, b)
<1>1. Loaded(b) = f[Len(b)]
  BY DEF Loaded, Adds
<1>2. \A i \in 1..Len(b) : b[i] \in Nat
  BY BytesAreNumbers
<1>3. Adds(f, b)
  BY <1>2, LoadedExists
<1> HIDE DEF f
<1>4. \A i \in 0..Len(b) : f[i] = IF i = 0 THEN 0 ELSE 256 * f[i - 1] + b[i]
  BY <1>3 DEF Adds
<1>5. f[0] = 0 /\ Len(b) \in Nat
  BY <1>4
<1>6. \A i \in 1..Len(b) : f[i - 1] \in Nat => f[i] \in Nat
  BY <1>2, <1>4
<1>7. \A i \in 1..Len(b) : i - 1 \in 0..Len(b)
  OBVIOUS
<1>8. Len(b) >= 1 => f[1] \in Nat
  BY <1>5, <1>6
<1>9. Len(b) >= 2 => f[2] \in Nat
  BY <1>5, <1>6, <1>8
<1>10. Len(b) >= 4 => f[4] \in Nat
  <2>1. Len(b) >= 4 => f[3] \in Nat
    BY <1>5, <1>6, <1>9
  <2> QED BY <2>1, <1>5, <1>6
<1>11. f[Len(b)] \in Nat
  <2>1. Len(b) = 1 \/ Len(b) = 2 \/ Len(b) = 4
    OBVIOUS
  <2>2. CASE Len(b) = 1
    BY <2>2, <1>8
  <2>3. CASE Len(b) = 2
    BY <2>3, <1>9
  <2>4. CASE Len(b) = 4
    BY <2>4, <1>10
  <2> QED BY <2>1, <2>2, <2>3, <2>4
<1> QED BY <1>1, <1>11

LEMMA TrailsType ==
    /\ \A c \in 4..31 : Trails[c - 3] \in Nat \ {0}
    /\ \A c \in (4..9) \cup (25..31) : Trails[c - 3] \in {1, 2, 4}
    /\ \A s \in 196..223 : s % 32 \in 4..31 /\ s % 32 = s - 192
  BY DEF Trails

\* The bytes of a trail are there, and m_current ends on the last of them.
LEMMA Trailing ==
    ASSUME ScanOK, TrailNext
    PROVE  /\ TrailBytes \in Seq(Byte) /\ Len(TrailBytes) = trail
           /\ From \in Nat /\ trail \in Nat /\ trail > 0
           /\ From + trail - 1 \in Nat /\ From + trail - 1 < Len(data) /\ Len(data) \in Nat
<1>1. From \in Nat /\ Len(data) \in Nat
  BY DEF From, ScanOK
<1>2. trail > 0 /\ trail \in Nat /\ From + trail <= Len(data)
  BY <1>1 DEF ScanOK, TrailNext, Parsing, Arrived
<1>3. data \in Seq(Byte) /\ From + 1 \in 1..Len(data) + 1 /\ From + trail \in From..Len(data)
  BY <1>1, <1>2 DEF ScanOK
<1>4. TrailBytes \in Seq(Byte) /\ Len(TrailBytes) = trail
  <2> HIDE DEF From
  <2> QED BY <1>1, <1>2, <1>3 DEF TrailBytes
<1> QED BY <1>1, <1>2, <1>4

LEMMA TrailLoaded ==
    ASSUME ScanOK, TrailNext, cs \in (4..9) \cup (25..31)
    PROVE  Loaded(TrailBytes) \in Nat
<1>1. ~consuming /\ cs \in 4..31
  BY DEF TrailNext, Parsing
<1>2. trail = Trails[cs - 3]
  BY <1>1 DEF ScanOK
<1>3. trail \in {1, 2, 4}
  BY <1>2, TrailsType
<1> QED BY <1>3, Trailing, LoadedType

LEMMA ScanComplete ==
    ASSUME ScanOK, data' = data, consuming' = TRUE, again' \in BOOLEAN,
           pos' \in Nat, pos' < Len(data), trail' \in Nat, cs' \in {Header} \cup 4..ExtValue
    PROVE  ScanOK'
BY DEF ScanOK

LEMMA ScanHeader ==
    ASSUME ScanOK, UNCHANGED <<data, trail>>, consuming' = FALSE, again' \in BOOLEAN,
           pos' \in 0..Len(data), cs' = Header
    PROVE  ScanOK'
<1>1. cs' \in {Header} \cup 4..ExtValue /\ ~(cs' \in 4..31)
  BY DEF Header
<1>2. data \in Seq(Byte) /\ trail \in Nat
  BY DEF ScanOK
<1> QED BY <1>1, <1>2, Zenon DEF ScanOK

LEMMA ScanTrail ==
    ASSUME ScanOK, data' = data, consuming' = FALSE, again' = TRUE,
           pos' \in 0..Len(data), trail' \in Nat \ {0}, cs' \in 4..ExtValue,
           cs' \in 4..31 => trail' = Trails[cs' - 3]
    PROVE  ScanOK'
<1>1. data \in Seq(Byte) /\ trail' > 0 /\ trail' \in Nat /\ cs' \in {Header} \cup 4..ExtValue
  BY DEF ScanOK
<1> QED BY <1>1, Zenon DEF ScanOK

LEMMA ScanSame == ScanOK /\ UNCHANGED scan => ScanOK'
BY DEF ScanOK, scan

\* The parser stays within the payload.
LEMMA ScanNext == ASSUME ScanOK, Next PROVE ScanOK'
<1>0. /\ pos \in 0..Len(data) /\ Len(data) \in Nat /\ trail \in Nat
      /\ cs \in {Header} \cup 4..ExtValue /\ again \in BOOLEAN /\ consuming \in BOOLEAN
      /\ TRUE \in BOOLEAN /\ FALSE \in BOOLEAN
  BY DEF ScanOK
<1>1. CASE Single
  <2>1. /\ consuming' /\ consuming' \in BOOLEAN /\ pos < Len(data)
        /\ UNCHANGED <<data, pos, cs, trail, again>>
    BY <1>1 DEF Single, Visit, VisitBytes, HeaderNext
  <2> QED BY <1>0, <2>1, ScanComplete
<1>2. CASE FixAggregate
  <2>1. /\ UNCHANGED <<data, trail, again>> /\ pos < Len(data) /\ cs = Header /\ cs' = Header
        /\ \/ consuming' = TRUE /\ pos' = pos
           \/ consuming' = FALSE /\ pos' = pos + 1
    BY <1>2 DEF FixAggregate, Aggregate, Visit, HeaderNext, Parsing, ScanOK
  <2>2. pos + 1 \in 0..Len(data) /\ pos \in Nat
    BY <1>0, <2>1
  <2>3. CASE consuming' = TRUE /\ pos' = pos
    BY <1>0, <2>1, <2>2, <2>3, ScanComplete
  <2>4. CASE consuming' = FALSE /\ pos' = pos + 1
    BY <1>0, <2>1, <2>2, <2>4, ScanHeader
  <2> QED BY <2>1, <2>3, <2>4
<1>3. CASE Announces
  <2>1. /\ UNCHANGED <<data, pos>> /\ consuming' = FALSE /\ again' = TRUE
        /\ \/ Selector \in 196..223 /\ cs' = Selector % 32 /\ trail' = Trails[Selector - 195]
           \/ Selector \in 161..191 /\ cs' = StrValue /\ trail' = Selector - 160
    BY <1>3 DEF Announces, HeaderNext, Parsing, ScanOK
  <2>2. CASE Selector \in 196..223 /\ cs' = Selector % 32 /\ trail' = Trails[Selector - 195]
    <3>1. cs' \in 4..31 /\ Selector - 195 = cs' - 3
      BY <2>2, TrailsType
    <3>2. trail' = Trails[cs' - 3] /\ trail' \in Nat \ {0} /\ cs' \in {Header} \cup 4..ExtValue
      BY <2>2, <3>1, TrailsType DEF ExtValue
    <3>3. cs' \in 4..ExtValue
      BY <3>1 DEF ExtValue
    <3> QED BY <1>0, <2>1, <3>2, <3>3, ScanTrail, Zenon
  <2>3. CASE Selector \in 161..191 /\ cs' = StrValue /\ trail' = Selector - 160
    <3>1. cs' \in 4..ExtValue /\ cs' \notin 4..31 /\ trail' \in Nat \ {0}
      BY <2>3 DEF StrValue, ExtValue
    <3> QED BY <1>0, <2>1, <3>1, ScanTrail
  <2> QED BY <2>1, <2>2, <2>3
<1>4. CASE Unknown \/ Insufficient \/ Terminated
  BY <1>4, ScanSame DEF Unknown, Insufficient, Terminated, vars
<1>5. CASE Scalar
  <2>1. /\ UNCHANGED <<data, cs, trail>> /\ consuming' = TRUE /\ again' = FALSE
        /\ pos' = From + trail - 1
    BY <1>5 DEF Scalar, Visit, VisitBytes
  <2>2. pos' \in 0..Len(data) /\ pos' < Len(data)
    BY <1>5, <2>1, Trailing DEF Scalar
  <2>3. pos' \in Nat
    BY <2>2
  <2> QED BY <1>0, <2>1, <2>2, <2>3, ScanComplete, Zenon
<1>6. CASE Length
  <2>1. /\ data' = data /\ pos' = From + trail - 1
        /\ \E type \in {"BIN", "EXT", "STR"} :
              /\ trail' = Loaded(TrailBytes) + IF type = "EXT" THEN 1 ELSE 0
              /\ \/ trail' = 0 /\ consuming' = TRUE /\ again' = FALSE /\ cs' = cs
                 \/ /\ trail' # 0 /\ consuming' = FALSE /\ again' = TRUE
                    /\ cs' = CHOOSE c \in DOMAIN BodyOf : BodyOf[c] = type
    BY <1>6 DEF Length, VisitBytes, TrailNext, Parsing, ScanOK
  <2>2. pos' \in 0..Len(data) /\ pos' < Len(data) /\ Loaded(TrailBytes) \in Nat
    BY <1>6, <2>1, Trailing, TrailLoaded DEF Length
  <2>3. trail' \in Nat
    BY <2>1, <2>2
  <2>4. \A type \in {"BIN", "EXT", "STR"} :
           (CHOOSE c \in DOMAIN BodyOf : BodyOf[c] = type) \in 32..ExtValue
    BY DEF BodyOf, StrValue, BinValue, ExtValue
  <2>5. CASE consuming' = TRUE /\ again' = FALSE /\ cs' = cs
    <3>1. pos' \in Nat
      BY <2>2
    <3> QED BY <1>0, <2>1, <2>2, <2>3, <2>5, <3>1, ScanComplete, Zenon
  <2>6. CASE trail' # 0 /\ consuming' = FALSE /\ again' = TRUE /\ cs' \in 32..ExtValue
    <3>1. cs' \in 4..ExtValue /\ cs' \notin 4..31 /\ trail' \in Nat \ {0}
      BY <2>3, <2>6 DEF ExtValue
    <3> QED BY <2>1, <2>2, <2>6, <3>1, ScanTrail
  <2> QED BY <2>1, <2>4, <2>5, <2>6
<1>7. CASE LongAggregate
  <2>1. /\ UNCHANGED <<data, trail>> /\ again' = FALSE
        /\ \/ consuming' = TRUE /\ pos' = From + trail - 1 /\ cs' = cs
           \/ consuming' = FALSE /\ pos' = From + trail - 1 + 1 /\ cs' = Header
    BY <1>7 DEF LongAggregate, Aggregate, Visit, TrailNext, Parsing, ScanOK
  <2>2. From + trail - 1 \in Nat /\ From + trail - 1 < Len(data)
        /\ From + trail - 1 + 1 \in 0..Len(data)
    BY <1>0, <1>7, Trailing DEF LongAggregate
  <2>3. CASE consuming' = TRUE /\ pos' = From + trail - 1 /\ cs' = cs
    BY <1>0, <2>1, <2>2, <2>3, ScanComplete
  <2>4. CASE consuming' = FALSE /\ pos' = From + trail - 1 + 1 /\ cs' = Header
    BY <1>0, <2>1, <2>2, <2>4, ScanHeader
  <2> QED BY <2>1, <2>3, <2>4
<1>8. CASE ItemEnds \/ KeyEnds \/ ValueEnds \/ Succeeds
  <2>1. /\ UNCHANGED <<data, trail, again>> /\ consuming = TRUE
        /\ \/ UNCHANGED <<consuming, pos, cs>>
           \/ consuming' = FALSE /\ pos' = pos + 1 /\ cs' = Header
    BY <1>8 DEF ItemEnds, KeyEnds, ValueEnds, Succeeds, Consuming, Close, Proceed, ScanOK
  <2>2. pos < Len(data) /\ pos + 1 \in 0..Len(data)
    BY <1>0, <2>1 DEF ScanOK
  <2>3. CASE UNCHANGED <<consuming, pos, cs>>
    BY <1>0, <2>1, <2>2, <2>3, ScanComplete
  <2>4. CASE consuming' = FALSE /\ pos' = pos + 1 /\ cs' = Header
    BY <1>0, <2>1, <2>2, <2>4, ScanHeader
  <2> QED BY <2>1, <2>3, <2>4
<1> QED BY <1>1, <1>2, <1>3, <1>4, <1>5, <1>6, <1>7, <1>8 DEF Next

-----------------------------------------------------------------------------
LEMMA ChunkForType == ASSUME NEW size \in Nat PROVE ChunkFor(size) \in Nat /\ ChunkFor(size) >= size
<1>1. \A s \in Doubled(size) : s \in Nat /\ s >= size
  BY UnpackAssumption DEF Doubled
<1> QED BY <1>1 DEF ChunkFor

LEMMA AlignedType ==
    ASSUME NEW at \in Nat, NEW align \in {1, 8}
    PROVE  Aligned(at, align) \in Nat /\ Aligned(at, align) >= at
<1>1. CASE align = 1
  BY <1>1 DEF Aligned
<1>2. CASE align = 8
  BY <1>2 DEF Aligned
<1> QED BY <1>1, <1>2

\* What an allocation does to the zone, and where its block is.
LEMMA AllocateZone ==
    ASSUME ZoneOK, NEW size \in Nat, NEW align \in {1, 8}, Allocate(size, align)
    PROVE  /\ ZoneOK'
           /\ blocks' = Append(blocks, Block(size, align))
           /\ Block(size, align) \in Blocks /\ Block(size, align).size = size
           /\ Block(size, align).chunk = zone'.chunk
           /\ Block(size, align).from + size = zone'.at
           /\ \/ zone.chunk < zone'.chunk
              \/ zone.chunk = zone'.chunk /\ zone.at <= Block(size, align).from
           /\ \A c \in 1..zone.chunk : chunks'[c] = chunks[c]
<1> DEFINE from == Aligned(zone.at, align)
           need == Needed(size, align)
<1>1. /\ zone.at \in Nat /\ zone.free \in Nat /\ zone.chunk \in Nat /\ zone.chunk = Len(chunks)
      /\ chunks \in Seq(Nat) /\ zone.chunk > 0 /\ zone.at + zone.free = chunks[zone.chunk]
      /\ zone = [chunk |-> zone.chunk, at |-> zone.at, free |-> zone.free]
  BY DEF ZoneOK
<1>2. from \in Nat /\ from >= zone.at /\ need = size + from - zone.at
  BY <1>1, AlignedType DEF Needed
<1>3. blocks' = Append(blocks, Block(size, align))
  BY DEF Allocate
<1> HIDE DEF from
<1>4. CASE zone.free < need
  <2> DEFINE s == ChunkFor(size + align - 1)
  <2>1. s \in Nat /\ s >= size
    <3>1. size + align - 1 \in Nat /\ size + align - 1 >= size
      OBVIOUS
    <3>2. s \in Nat /\ s >= size + align - 1
      BY <3>1, ChunkForType
    <3> QED BY <3>1, <3>2
  <2>2. /\ chunks' = Append(chunks, s)
        /\ zone' = [chunk |-> Len(chunks) + 1, at |-> size, free |-> s - size]
        /\ Block(size, align) = [chunk |-> Len(chunks) + 1, from |-> 0, size |-> size]
    BY <1>4 DEF Allocate, Block
  <2> HIDE DEF s
  <2>3. /\ chunks' \in Seq(Nat) /\ Len(chunks') = Len(chunks) + 1
        /\ chunks'[Len(chunks) + 1] = s
        /\ \A c \in 1..Len(chunks) : chunks'[c] = chunks[c]
    BY <1>1, <2>1, <2>2
  <2>4. zone' \in [chunk : Nat, at : Nat, free : Nat] /\ zone'.at + zone'.free = s
    BY <1>1, <2>1, <2>2
  <2>5. ZoneOK'
    BY <1>1, <2>2, <2>3, <2>4 DEF ZoneOK
  <2> QED BY <1>1, <1>3, <2>2, <2>3, <2>5 DEF Blocks
<1>5. CASE ~(zone.free < need)
  <2>1. /\ chunks' = chunks
        /\ zone' = [chunk |-> zone.chunk, at |-> zone.at + need, free |-> zone.free - need]
        /\ Block(size, align) = [chunk |-> zone.chunk, from |-> from, size |-> size]
    BY <1>1, <1>5 DEF Allocate, Block, from
  <2> HIDE DEF need
  <2>2. zone.at + need = from + size /\ need \in Nat /\ zone.free - need \in Nat
    BY <1>1, <1>2, <1>5
  <2>3. /\ zone' \in [chunk : Nat, at : Nat, free : Nat]
        /\ zone'.at + zone'.free = chunks'[zone'.chunk]
    BY <1>1, <2>1, <2>2
  <2>4. ZoneOK'
    BY <1>1, <2>1, <2>3 DEF ZoneOK
  <2> QED BY <1>1, <1>2, <1>3, <2>1, <2>2, <2>4 DEF Blocks
<1> QED BY <1>4, <1>5

\* A block is never handed out twice.
LEMMA BlocksAllocate ==
    ASSUME ZoneOK, BlocksOK, NEW size \in Nat, NEW align \in {1, 8}, Allocate(size, align)
    PROVE  ZoneOK' /\ BlocksOK'
<1> DEFINE b == Block(size, align)
           n == Len(blocks)
<1>1. /\ ZoneOK' /\ blocks' = Append(blocks, b) /\ b \in Blocks /\ b.size = size
      /\ b.chunk = zone'.chunk /\ b.from + size = zone'.at
      /\ \/ zone.chunk < zone'.chunk
         \/ zone.chunk = zone'.chunk /\ zone.at <= b.from
      /\ \A c \in 1..zone.chunk : chunks'[c] = chunks[c]
  BY AllocateZone
<1> HIDE DEF b
<1>2. blocks \in Seq(Blocks) /\ n \in Nat
  BY DEF BlocksOK
<1>3. /\ blocks' \in Seq(Blocks) /\ Len(blocks') = n + 1 /\ blocks'[n + 1] = b
      /\ \A i \in 1..n : blocks'[i] = blocks[i]
  BY <1>1, <1>2
<1>4. /\ zone.chunk \in Nat /\ zone.at \in Nat /\ zone'.chunk \in Nat /\ zone'.at \in Nat
      /\ zone'.free \in Nat /\ zone'.chunk > 0 /\ zone'.at + zone'.free = chunks'[zone'.chunk]
  BY <1>1 DEF ZoneOK
<1>5. \A i \in 1..n : /\ blocks[i].from \in Nat /\ blocks[i].size \in Nat
                      /\ blocks[i].chunk \in Nat
  <2>1. \A i \in 1..n : blocks[i] \in Blocks
    BY <1>2
  <2> QED BY <2>1 DEF Blocks
<1>6. ASSUME NEW i \in 1..(n + 1)
      PROVE  /\ blocks'[i].chunk \in 1..zone'.chunk
             /\ blocks'[i].from + blocks'[i].size <= chunks'[blocks'[i].chunk]
             /\ blocks'[i].chunk = zone'.chunk => blocks'[i].from + blocks'[i].size <= zone'.at
  <2>1. CASE i = n + 1
    <3>1. blocks'[i] = b /\ b.from + b.size = zone'.at /\ b.chunk = zone'.chunk
      BY <1>1, <1>3, <2>1
    <3>2. zone'.chunk \in 1..zone'.chunk /\ zone'.at <= chunks'[zone'.chunk]
      BY <1>4
    <3> QED BY <3>1, <3>2, <1>4
  <2>2. CASE i \in 1..n
    <3>1. /\ blocks[i].chunk \in 1..zone.chunk
          /\ blocks[i].from + blocks[i].size <= chunks[blocks[i].chunk]
          /\ blocks[i].chunk = zone.chunk => blocks[i].from + blocks[i].size <= zone.at
      BY <2>2 DEF BlocksOK
    <3>2. blocks'[i] = blocks[i] /\ chunks'[blocks[i].chunk] = chunks[blocks[i].chunk]
      BY <1>1, <1>3, <2>2, <3>1
    <3>3. b.from \in Nat /\ blocks[i].from \in Nat /\ blocks[i].size \in Nat
      BY <1>1, <1>5, <2>2 DEF Blocks
    <3>4. zone'.chunk >= zone.chunk
      BY <1>1, <1>4
    <3>5. blocks[i].chunk \in 1..zone'.chunk
      BY <1>4, <3>1, <3>4
    <3>6. ASSUME blocks[i].chunk = zone'.chunk PROVE blocks[i].from + blocks[i].size <= zone'.at
      <4>1. zone.chunk = zone'.chunk /\ zone.at <= b.from
        BY <1>1, <1>4, <3>1, <3>6
      <4>2. b.from + size = zone'.at
        BY <1>1
      <4>3. blocks[i].from + blocks[i].size <= zone.at
        BY <3>1, <3>6, <4>1
      <4>4. zone.at <= zone'.at
        <5>1. \A x, y \in Nat : x <= y => x <= y + size
          OBVIOUS
        <5> QED BY <1>4, <3>3, <4>1, <4>2, <5>1
      <4>5. blocks[i].from + blocks[i].size \in Nat
        BY <3>3
      <4>6. \A x, y, z \in Nat : x <= y /\ y <= z => x <= z
        OBVIOUS
      <4> QED BY <1>4, <4>3, <4>4, <4>5, <4>6
    <3> QED BY <3>1, <3>2, <3>5, <3>6
  <2> QED BY <1>2, <2>1, <2>2
<1>7. ASSUME NEW i \in 1..(n + 1), NEW j \in 1..(n + 1), i < j,
             blocks'[i].chunk = blocks'[j].chunk
      PROVE  blocks'[i].from + blocks'[i].size <= blocks'[j].from
  <2>1. i \in 1..n
    BY <1>2, <1>7
  <2>2. CASE j \in 1..n
    BY <1>3, <1>7, <2>1, <2>2 DEF BlocksOK
  <2>3. CASE j = n + 1
    <3>1. /\ blocks[i].chunk \in 1..zone.chunk /\ blocks[i].chunk = zone'.chunk
          /\ blocks[i].chunk = zone.chunk => blocks[i].from + blocks[i].size <= zone.at
      BY <1>1, <1>3, <1>7, <2>1, <2>3 DEF BlocksOK
    <3>2. b.from \in Nat /\ zone.chunk = zone'.chunk /\ zone.at <= b.from
      BY <1>1, <1>4, <3>1 DEF Blocks
    <3>3. blocks'[i] = blocks[i] /\ blocks'[j] = b
      BY <1>3, <2>1, <2>3
    <3>4. blocks[i].from \in Nat /\ blocks[i].size \in Nat
      BY <1>5, <2>1
    <3> QED BY <1>4, <3>1, <3>2, <3>3, <3>4
  <2> QED BY <1>2, <2>2, <2>3
<1> QED BY <1>1, <1>3, <1>6, <1>7 DEF BlocksOK

\* Only the copies of bytes and the memory of containers are allocated.
LEMMA Allocates ==
    ASSUME ScanOK, Next
    PROVE  \/ UNCHANGED <<zone, chunks, blocks>>
           \/ \E size \in Nat, align \in {1, 8} : Allocate(size, align)
<1>1. CASE Single
  <2>1. Len(<<>>) \in Nat
    OBVIOUS
  <2> QED BY <1>1, <2>1 DEF Single, Visit, VisitBytes
<1>2. ASSUME NEW type, NEW size \in Nat, NEW last, Aggregate(type, size, last)
      PROVE  \/ UNCHANGED <<zone, chunks, blocks>>
             \/ \E n \in Nat, align \in {1, 8} : Allocate(n, align)
  <2>1. size * ObjectSize * (IF type = "MAP" THEN 2 ELSE 1) \in Nat
    BY DEF ObjectSize
  <2> QED BY <1>2, <2>1 DEF Aggregate, Visit
<1>3. CASE FixAggregate
  <2>1. Selector \in 144..159 => Selector - 144 \in Nat
    OBVIOUS
  <2>2. Selector \in 128..143 => Selector - 128 \in Nat
    OBVIOUS
  <2> QED BY <1>2, <1>3, <2>1, <2>2 DEF FixAggregate
<1>4. CASE Scalar
  <2>1. Len(TrailBytes) \in Nat
    BY <1>4, Trailing DEF Scalar
  <2> QED BY <1>4, <2>1 DEF Scalar, Visit, VisitBytes
<1>5. CASE Length
  <2>1. Len(<<>>) \in Nat
    OBVIOUS
  <2> QED BY <1>5, <2>1 DEF Length, VisitBytes, heap
<1>6. CASE LongAggregate
  <2>1. Loaded(TrailBytes) \in Nat
    BY <1>6, TrailLoaded DEF LongAggregate
  <2> QED BY <1>2, <1>6, <2>1 DEF LongAggregate
<1>7. CASE Announces \/ Unknown \/ Insufficient \/ ItemEnds \/ KeyEnds \/ ValueEnds
           \/ Succeeds \/ Terminated
  BY <1>7 DEF Announces, Unknown, Insufficient, ItemEnds, KeyEnds, ValueEnds, Succeeds, Terminated,
     vars, heap
<1> QED BY <1>1, <1>3, <1>4, <1>5, <1>6, <1>7 DEF Next

LEMMA ZoneNext == ASSUME ScanOK, ZoneOK, BlocksOK, Next PROVE ZoneOK' /\ BlocksOK'
<1>1. CASE UNCHANGED <<zone, chunks, blocks>>
  BY <1>1 DEF ZoneOK, BlocksOK
<1> QED BY <1>1, Allocates, BlocksAllocate

-----------------------------------------------------------------------------
\* The next object fits into its container.
LEMMA Inside ==
    \A o, next : \A l \in Level : Houses(o, l, next) =>
        /\ next[1] = o.ptr[1] /\ o.ptr[1] \in Nat /\ o.ptr[2] \in Nat /\ next[2] \in Nat
        /\ End(o) \in Nat /\ o.ptr[2] <= next[2] /\ next[2] + ObjectSize <= End(o)
<1> SUFFICES ASSUME NEW o, NEW next, NEW l \in Level, Houses(o, l, next)
             PROVE  /\ next[1] = o.ptr[1] /\ o.ptr[1] \in Nat /\ o.ptr[2] \in Nat /\ next[2] \in Nat
                    /\ End(o) \in Nat /\ o.ptr[2] <= next[2] /\ next[2] + ObjectSize <= End(o)
  OBVIOUS
<1>1. /\ o.size \in Nat /\ l.rest \in 1..o.size /\ o.ptr[1] \in Nat /\ o.ptr[2] \in Nat
      /\ l.type \in Types /\ o.type = IF l.type = "item" THEN "ARRAY" ELSE "MAP"
      /\ next[1] = o.ptr[1] /\ next[2] = o.ptr[2] + ObjectSize * Counted(o, l)
  BY DEF Houses, Level
<1>2. Counted(o, l) \in Nat /\ Counted(o, l) + 1 <= Items(o) /\ Items(o) \in Nat
  <2>1. CASE l.type = "item"
    BY <1>1, <2>1 DEF Counted, Items
  <2>2. CASE l.type = "key"
    BY <1>1, <2>2 DEF Counted, Items
  <2>3. CASE l.type = "value"
    BY <1>1, <2>3 DEF Counted, Items
  <2> QED BY <1>1, <2>1, <2>2, <2>3 DEF Types
<1> HIDE DEF Counted, Items
<1> QED BY <1>1, <1>2 DEF End, ObjectSize

LEMMA StacksLength ==
    ASSUME StacksOK
    PROVE  /\ Len(levels) \in Nat /\ Len(cursors) = Len(levels) + 1
           /\ Top(cursors) = cursors[Len(levels) + 1]
<1>1. levels \in Seq(Level) /\ Len(cursors) = Len(levels) + 1
  BY DEF StacksOK
<1> QED BY <1>1 DEF Top

\* The visitor writes where no open container is.
LEMMA CursorsApart ==
    ASSUME StacksOK
    PROVE  \A i \in Open : cursors[i] # Top(cursors)
<1> SUFFICES ASSUME NEW i \in Open PROVE cursors[i] # Top(cursors)
  OBVIOUS
<1> DEFINE n == Len(levels)
<1>1. n \in Nat /\ n \in Open /\ Top(cursors) = cursors[n + 1] /\ i \in Nat /\ i <= n /\ i >= 1
  <2>1. n \in Nat /\ Top(cursors) = cursors[n + 1]
    BY StacksLength
  <2>2. i \in 1..n
    BY DEF Open
  <2> QED BY <2>1, <2>2 DEF Open
<1>2. \A k \in Open : levels[k] \in Level
  BY DEF StacksOK, Open
<1>3. /\ cursors[n + 1][1] = Container(n).ptr[1] /\ Container(n).ptr[1] > 0
      /\ Container(n).ptr[2] <= cursors[n + 1][2] /\ cursors[n + 1][2] \in Nat
      /\ Container(n).ptr[1] \in Nat /\ Container(n).ptr[2] \in Nat
  <2>1. Houses(Container(n), levels[n], cursors[n + 1]) /\ levels[n] \in Level
    BY <1>1, <1>2 DEF StacksOK
  <2>2. Container(n).ptr[1] \in 1..zone.chunk
    BY <1>1 DEF StacksOK, Handed
  <2>3. /\ cursors[n + 1][1] = Container(n).ptr[1] /\ Container(n).ptr[1] \in Nat
        /\ Container(n).ptr[2] \in Nat /\ cursors[n + 1][2] \in Nat
        /\ Container(n).ptr[2] <= cursors[n + 1][2]
    BY <2>1, Inside
  <2> QED BY <2>2, <2>3
<1>4. CASE i = 1
  BY <1>3, <1>4, <1>1 DEF StacksOK, Root
<1>5. CASE i > 1
  <2>1. i - 1 \in Open /\ i - 1 < n /\ i - 1 + 1 = i
    BY <1>1, <1>5 DEF Open
  <2>2. /\ Houses(Container(i - 1), levels[i - 1], cursors[i])
        /\ Before(Container(i - 1), Container(n))
    BY <1>1, <2>1 DEF StacksOK
  <2>3. /\ cursors[i][1] = Container(i - 1).ptr[1] /\ cursors[i][2] \in Nat
        /\ cursors[i][2] + ObjectSize <= End(Container(i - 1)) /\ End(Container(i - 1)) \in Nat
        /\ Container(i - 1).ptr[1] \in Nat
    <3>1. levels[i - 1] \in Level
      BY <1>2, <2>1
    <3> QED BY <2>2, <3>1, Inside
  <2>4. \/ cursors[i][1] < cursors[n + 1][1]
        \/ cursors[i][2] < cursors[n + 1][2]
    <3> HIDE DEF Container
    <3> QED BY <1>3, <2>2, <2>3 DEF Before, ObjectSize
  <2> QED BY <1>1, <1>3, <2>3, <2>4
<1> QED BY <1>1, <1>4, <1>5

LEMMA WriteKeeps ==
    ASSUME StacksOK, NEW o, Write(o)
    PROVE  /\ Top(cursors) \in DOMAIN memory' /\ memory'[Top(cursors)] = o
           /\ \A i \in Open : cursors[i] \in DOMAIN memory' /\ memory'[cursors[i]] = Container(i)
<1>1. \A i \in Open : cursors[i] \in DOMAIN memory /\ cursors[i] # Top(cursors)
  BY CursorsApart DEF StacksOK
<1> QED BY <1>1 DEF Write, Container

\* The zone only goes on.
Further == \/ zone.chunk < zone'.chunk
           \/ zone.chunk = zone'.chunk /\ zone.at <= zone'.at

LEMMA StillHanded ==
    ASSUME ZoneOK, ZoneOK', Further, NEW o, Handed(o, zone), o.ptr[1] \in Nat, End(o) \in Nat
    PROVE  Handed(o, zone')
<1>1. /\ zone.chunk \in Nat /\ zone'.chunk \in Nat /\ zone.at \in Nat /\ zone'.at \in Nat
  BY DEF ZoneOK
<1> HIDE DEF End
<1> QED BY <1>1 DEF Handed, Further

LEMMA AllocateFurther ==
    ASSUME ZoneOK, NEW size \in Nat, NEW align \in {1, 8}, Allocate(size, align)
    PROVE  Further
<1>1. /\ Block(size, align) \in Blocks /\ Block(size, align).from + size = zone'.at
      /\ \/ zone.chunk < zone'.chunk
         \/ zone.chunk = zone'.chunk /\ zone.at <= Block(size, align).from
      /\ zone.at \in Nat
  BY AllocateZone DEF ZoneOK
<1>2. Block(size, align).from \in Nat
  BY <1>1 DEF Blocks
<1> QED BY <1>1, <1>2 DEF Further

\* An object is written that opens no container.
LEMMA StacksWrite ==
    ASSUME StacksOK, ZoneOK, ZoneOK', Further, NEW o, Write(o), UNCHANGED stacks
    PROVE  StacksOK'
<1>1. levels' = levels /\ cursors' = cursors /\ Open' = Open
  BY DEF stacks, Open
<1>2. \A i \in Open : /\ cursors'[i] \in DOMAIN memory' /\ Container(i)' = Container(i)
                      /\ levels[i] \in Level
  <2>1. \A i \in Open : cursors[i] \in DOMAIN memory' /\ memory'[cursors[i]] = Container(i)
    BY WriteKeeps
  <2>2. \A i \in Open : levels[i] \in Level
    BY DEF StacksOK, Open
  <2> QED BY <1>1, <2>1, <2>2 DEF Container
<1>3. \A i \in Open : Handed(Container(i), zone')
  <2> SUFFICES ASSUME NEW i \in Open PROVE Handed(Container(i), zone')
    OBVIOUS
  <2>1. Houses(Container(i), levels[i], cursors[i + 1]) /\ Handed(Container(i), zone)
    BY DEF StacksOK
  <2> HIDE DEF Container
  <2> QED BY <1>2, <2>1, Inside, StillHanded
<1> QED BY <1>1, <1>2, <1>3 DEF StacksOK

\* A container is written, gets its memory behind everything handed out
\* before, and a level on both stacks.
LEMMA StacksOpen ==
    ASSUME StacksOK, ZoneOK, NEW type \in {"ARRAY", "MAP"}, NEW size \in Nat \ {0}, NEW last,
           Aggregate(type, size, last)
    PROVE  StacksOK'
<1> DEFINE n     == Len(levels)
           bytes == size * ObjectSize * (IF type = "MAP" THEN 2 ELSE 1)
           b     == Block(bytes, 8)
           ptr   == <<b.chunk, b.from>>
           o     == [type |-> type, ptr |-> ptr, size |-> size]
           l     == [type |-> IF type = "MAP" THEN "key" ELSE "item", rest |-> size]
<1>1. /\ Write(o) /\ Allocate(bytes, 8)
      /\ cursors' = Append(cursors, ptr) /\ levels' = Append(levels, l)
  BY DEF Aggregate
<1>2. bytes \in Nat /\ bytes = ObjectSize * Items(o)
  BY DEF ObjectSize, Items
<1>3. /\ ZoneOK' /\ b \in Blocks /\ b.chunk = zone'.chunk /\ b.from + bytes = zone'.at
      /\ \/ zone.chunk < zone'.chunk
         \/ zone.chunk = zone'.chunk /\ zone.at <= b.from
  BY <1>1, <1>2, AllocateZone
<1>4. Further
  BY <1>1, <1>2, AllocateFurther
<1>5. /\ zone.chunk \in Nat /\ zone.at \in Nat /\ zone'.chunk \in Nat /\ zone'.at \in Nat
      /\ zone'.chunk > 0
  BY <1>3 DEF ZoneOK
<1>6. o.type = type /\ o.ptr = ptr /\ o.size = size /\ ptr[1] = b.chunk /\ ptr[2] = b.from
      /\ b.chunk \in Nat /\ b.from \in Nat /\ ptr \in Nat \X Nat
  BY <1>3 DEF Blocks
<1>7. l \in Level /\ l.rest = size /\ l.type = IF type = "MAP" THEN "key" ELSE "item"
  BY DEF Level, Types
<1>8. Houses(o, l, ptr)
  <2>1. Counted(o, l) = 0
    BY <1>6, <1>7 DEF Counted
  <2>2. <<o.ptr[1], o.ptr[2] + ObjectSize * Counted(o, l)>> = ptr
    BY <1>6, <2>1 DEF ObjectSize
  <2>3. o.type = IF l.type = "item" THEN "ARRAY" ELSE "MAP"
    BY <1>6, <1>7
  <2> HIDE DEF o, l, ptr
  <2> QED BY <1>6, <1>7, <2>2, <2>3 DEF Houses
<1>9. Handed(o, zone') /\ End(o) = zone'.at
  <2>1. End(o) = b.from + bytes
    BY <1>2, <1>6 DEF End
  <2> HIDE DEF o, ptr, b, bytes
  <2> QED BY <1>3, <1>5, <1>6, <2>1 DEF Handed
<1> HIDE DEF b, o, l, ptr, bytes
<1>10. /\ levels \in Seq(Level) /\ cursors \in Seq(Nat \X Nat) /\ n \in Nat /\ Len(cursors) = n + 1
  BY DEF StacksOK
<1>11. /\ levels' \in Seq(Level) /\ Len(levels') = n + 1 /\ levels'[n + 1] = l
       /\ \A i \in 1..n : levels'[i] = levels[i]
  BY <1>1, <1>7, <1>10
<1>12. /\ cursors' \in Seq(Nat \X Nat) /\ Len(cursors') = n + 2 /\ cursors'[n + 2] = ptr
       /\ \A i \in 1..(n + 1) : cursors'[i] = cursors[i]
  BY <1>1, <1>6, <1>10
<1>13. \A i \in 1..n : /\ cursors'[i] \in DOMAIN memory' /\ Container(i)' = Container(i)
                       /\ Houses(Container(i), levels[i], cursors[i + 1])
                       /\ Handed(Container(i), zone) /\ levels[i] \in Level
  <2>1. \A i \in 1..n : cursors[i] \in DOMAIN memory' /\ memory'[cursors[i]] = Container(i)
    BY <1>1, WriteKeeps DEF Open
  <2>2. \A i \in 1..n : /\ Houses(Container(i), levels[i], cursors[i + 1])
                        /\ Handed(Container(i), zone) /\ levels[i] \in Level
    BY <1>10 DEF StacksOK, Open
  <2>3. \A i \in 1..n : cursors'[i] = cursors[i]
    BY <1>10, <1>12
  <2> QED BY <2>1, <2>2, <2>3 DEF Container
<1>14. \A i \in 1..(n + 1) :
           i = n + 1 => cursors'[i] \in DOMAIN memory' /\ Container(i)' = o
  <2>1. Top(cursors) = cursors[n + 1] /\ cursors'[n + 1] = cursors[n + 1]
    <3>1. n + 1 \in 1..(n + 1)
      BY <1>10
    <3> QED BY <1>12, <3>1, StacksLength
  <2>2. Top(cursors) \in DOMAIN memory' /\ memory'[Top(cursors)] = o
    BY <1>1, WriteKeeps
  <2> QED BY <2>1, <2>2 DEF Container
<1>15. \A i \in 1..n : /\ Container(i).ptr[1] \in Nat /\ End(Container(i)) \in Nat
  <2> HIDE DEF Container
  <2> QED BY <1>13, Inside
<1>16. \A i \in 1..n : Handed(Container(i), zone') /\ Before(Container(i), o)
  <2> SUFFICES ASSUME NEW i \in 1..n PROVE Handed(Container(i), zone') /\ Before(Container(i), o)
    OBVIOUS
  <2> HIDE DEF Container
  <2>1. Handed(Container(i), zone')
    BY <1>3, <1>4, <1>13, <1>15, StillHanded
  <2>2. Container(i).ptr[1] \in 1..zone.chunk
        /\ (Container(i).ptr[1] = zone.chunk => End(Container(i)) <= zone.at)
    BY <1>13 DEF Handed
  <2>3. \/ Container(i).ptr[1] < b.chunk
        \/ Container(i).ptr[1] = b.chunk /\ End(Container(i)) <= b.from
    BY <1>3, <1>5, <1>6, <1>15, <2>2
  <2> QED BY <1>6, <2>1, <2>3 DEF Before
<1>17. \A i \in 1..(n + 1) :
          /\ cursors'[i] \in DOMAIN memory'
          /\ Houses(Container(i)', levels'[i], cursors'[i + 1])
          /\ Handed(Container(i)', zone')
  <2> SUFFICES ASSUME NEW i \in 1..(n + 1)
               PROVE  /\ cursors'[i] \in DOMAIN memory'
                      /\ Houses(Container(i)', levels'[i], cursors'[i + 1])
                      /\ Handed(Container(i)', zone')
    OBVIOUS
  <2>1. CASE i = n + 1
    <3>1. i + 1 = n + 2 /\ levels'[i] = l /\ cursors'[i + 1] = ptr
      BY <1>10, <1>11, <1>12, <2>1
    <3>2. cursors'[i] \in DOMAIN memory' /\ Container(i)' = o
      BY <1>14, <2>1
    <3> QED BY <1>8, <1>9, <3>1, <3>2
  <2>2. CASE i \in 1..n
    <3>1. i + 1 \in 1..(n + 1)
      BY <1>10, <2>2
    <3> QED BY <1>11, <1>12, <1>13, <1>16, <2>2, <3>1
  <2> QED BY <1>10, <2>1, <2>2
<1>18. \A i, j \in 1..(n + 1) : i < j => Before(Container(i)', Container(j)')
  <2> SUFFICES ASSUME NEW i \in 1..(n + 1), NEW j \in 1..(n + 1), i < j
               PROVE  Before(Container(i)', Container(j)')
    OBVIOUS
  <2>1. i \in 1..n
    BY <1>10
  <2>2. CASE j = n + 1
    BY <1>13, <1>14, <1>16, <2>1, <2>2
  <2>3. CASE j \in 1..n
    BY <1>13, <2>1, <2>3 DEF StacksOK, Open
  <2> QED BY <1>10, <2>2, <2>3
<1>19. cursors'[1] = Root
  BY <1>10, <1>12 DEF StacksOK
<1> QED BY <1>10, <1>11, <1>12, <1>17, <1>18, <1>19 DEF StacksOK, Open

\* An object of the innermost container is complete, and not its last.
LEMMA StacksAdvance ==
    ASSUME StacksOK, levels # <<>>, UNCHANGED <<memory, zone>>, NEW l \in Level,
           levels' = [levels EXCEPT ![Len(levels)] = l], cursors' = Advanced(cursors),
           Houses(Container(Len(levels)), l, NextObject(Top(cursors)))
    PROVE  StacksOK'
<1> DEFINE n == Len(levels)
<1>1. /\ levels \in Seq(Level) /\ cursors \in Seq(Nat \X Nat) /\ n \in Nat /\ n > 0
      /\ Len(cursors) = n + 1 /\ Top(cursors) = cursors[n + 1]
  BY DEF StacksOK, Top
<1>2. /\ levels' \in Seq(Level) /\ Len(levels') = n /\ levels'[n] = l
      /\ \A i \in 1..n : i # n => levels'[i] = levels[i]
  BY <1>1
<1>3. NextObject(cursors[n + 1]) \in Nat \X Nat
  <2>1. cursors[n + 1] \in Nat \X Nat
    BY <1>1
  <2> QED BY <2>1 DEF NextObject, ObjectSize
<1>4. cursors' = [cursors EXCEPT ![n + 1] = NextObject(cursors[n + 1])]
  BY <1>1 DEF Advanced
<1>5. /\ cursors' \in Seq(Nat \X Nat) /\ Len(cursors') = n + 1
      /\ cursors'[n + 1] = NextObject(cursors[n + 1])
      /\ \A i \in 1..n : cursors'[i] = cursors[i]
  BY <1>1, <1>3, <1>4
<1>6. \A i \in 1..n : Container(i)' = Container(i)
  BY <1>5 DEF Container
<1>7. \A i \in 1..n : /\ cursors[i] \in DOMAIN memory /\ Handed(Container(i), zone)
                      /\ Houses(Container(i), levels[i], cursors[i + 1])
  BY DEF StacksOK, Open
<1>8. \A i \in 1..n : Houses(Container(i), levels'[i], cursors'[i + 1])
  <2> SUFFICES ASSUME NEW i \in 1..n PROVE Houses(Container(i), levels'[i], cursors'[i + 1])
    OBVIOUS
  <2>1. CASE i = n
    BY <1>1, <1>2, <1>5, <2>1
  <2>2. CASE i # n
    <3>1. i + 1 \in 1..n
      BY <1>1, <2>2
    <3> QED BY <1>2, <1>5, <1>7, <2>2, <3>1
  <2> QED BY <2>1, <2>2
<1>9. cursors'[1] = Root
  BY <1>1, <1>5 DEF StacksOK
<1>10. \A i, j \in 1..n : i < j => Before(Container(i)', Container(j)')
  BY <1>6 DEF StacksOK, Open
<1>11. \A i \in 1..n : /\ cursors'[i] \in DOMAIN memory' /\ Handed(Container(i)', zone')
                       /\ Houses(Container(i)', levels'[i], cursors'[i + 1])
  BY <1>5, <1>6, <1>7, <1>8
<1> QED BY <1>1, <1>2, <1>5, <1>9, <1>10, <1>11 DEF StacksOK, Open

LEMMA PoppedFacts ==
    ASSUME NEW S, NEW s \in Seq(S), Len(s) > 0
    PROVE  /\ Popped(s) \in Seq(S) /\ Len(Popped(s)) = Len(s) - 1
           /\ \A i \in 1..(Len(s) - 1) : Popped(s)[i] = s[i]
<1>1. Len(s) \in Nat /\ Len(s) - 1 \in Nat
  OBVIOUS
<1>2. \A i \in 1..(Len(s) - 1) : i \in 1..Len(s)
  BY <1>1
<1>3. Len(Popped(s)) = Len(s) - 1
  <2>1. \A i \in 1..(Len(s) - 1) : s[i] \in S
    BY <1>2
  <2>2. Len(Popped(s)) = IF 1 <= Len(s) - 1 THEN Len(s) - 1 - 1 + 1 ELSE 0
    BY <1>1, <2>1, SubSeqProperties DEF Popped
  <2>3. CASE Len(s) = 1
    BY <2>2, <2>3
  <2>4. CASE Len(s) > 1
    BY <1>1, <2>2, <2>4
  <2>5. Len(s) = 1 \/ Len(s) > 1
    <3>1. \A n \in Nat : n > 0 => n = 1 \/ n > 1
      OBVIOUS
    <3> QED BY <1>1, <3>1
  <2> QED BY <2>3, <2>4, <2>5
<1>4. \A i \in 1..(Len(s) - 1) : Popped(s)[i] = s[i] /\ Popped(s)[i] \in S
  BY <1>1, <1>2 DEF Popped
<1>5. Popped(s) \in Seq(S)
  BY <1>1, <1>2, SubSeqProperties DEF Popped
<1> QED BY <1>3, <1>4, <1>5

\* The innermost container is complete.
LEMMA StacksPop ==
    ASSUME StacksOK, levels # <<>>, UNCHANGED <<memory, zone>>,
           levels' = Popped(levels), cursors' = Popped(cursors)
    PROVE  StacksOK'
<1> DEFINE n == Len(levels)
<1>1. /\ levels \in Seq(Level) /\ cursors \in Seq(Nat \X Nat) /\ n \in Nat /\ n > 0
      /\ Len(cursors) = n + 1
  BY DEF StacksOK
<1>2. /\ levels' \in Seq(Level) /\ Len(levels') = n - 1
      /\ \A i \in 1..(n - 1) : levels'[i] = levels[i]
  BY <1>1, PoppedFacts
<1>3. /\ cursors' \in Seq(Nat \X Nat) /\ Len(cursors') = n
      /\ \A i \in 1..n : cursors'[i] = cursors[i]
  <2>1. Len(cursors) > 0 /\ Len(cursors) - 1 = n
    BY <1>1
  <2> QED BY <1>1, <2>1, PoppedFacts
<1>4. \A i \in 1..n : Container(i)' = Container(i)
  BY <1>3 DEF Container
<1>5. \A i \in 1..(n - 1) : i \in 1..n /\ i + 1 \in 1..n
  BY <1>1
<1>6. \A i \in 1..(n - 1) : /\ cursors'[i] \in DOMAIN memory' /\ Handed(Container(i)', zone')
                            /\ Houses(Container(i)', levels'[i], cursors'[i + 1])
  BY <1>2, <1>3, <1>4, <1>5 DEF StacksOK, Open
<1>7. \A i, j \in 1..(n - 1) : i < j => Before(Container(i)', Container(j)')
  BY <1>4, <1>5 DEF StacksOK, Open
<1>8. cursors'[1] = Root
  <2>1. 1 \in 1..n
    BY <1>1
  <2> QED BY <1>3, <2>1 DEF StacksOK
<1>9. Len(cursors') = Len(levels') + 1 /\ Open' = 1..(n - 1)
  BY <1>1, <1>2, <1>3 DEF Open
<1> QED BY <1>2, <1>3, <1>6, <1>7, <1>8, <1>9 DEF StacksOK

\* The one step more that the parser counts is the one the visitor goes.
LEMMA CountedOneMore ==
    ASSUME NEW o, NEW l \in Level, NEW m \in Level, NEW next,
           Houses(o, l, next), m.rest \in 1..o.size,
           \/ l.type = "item" /\ m.type = "item" /\ m.rest = l.rest - 1
           \/ l.type = "key" /\ m.type = "value" /\ m.rest = l.rest
           \/ l.type = "value" /\ m.type = "key" /\ m.rest = l.rest - 1
    PROVE  Houses(o, m, NextObject(next))
<1>1. /\ o.size \in Nat /\ l.rest \in 1..o.size /\ o.ptr \in Nat \X Nat
      /\ o.ptr[1] \in Nat /\ o.ptr[2] \in Nat
      /\ o.type = IF l.type = "item" THEN "ARRAY" ELSE "MAP"
      /\ next[1] = o.ptr[1] /\ next[2] = o.ptr[2] + ObjectSize * Counted(o, l)
  BY DEF Houses
<1>2. Counted(o, m) = Counted(o, l) + 1 /\ Counted(o, l) \in Nat
  <2>1. CASE l.type = "item" /\ m.type = "item" /\ m.rest = l.rest - 1
    BY <1>1, <2>1 DEF Counted
  <2>2. CASE l.type = "key" /\ m.type = "value" /\ m.rest = l.rest
    BY <1>1, <2>2 DEF Counted
  <2>3. CASE l.type = "value" /\ m.type = "key" /\ m.rest = l.rest - 1
    BY <1>1, <2>3 DEF Counted
  <2> QED BY <2>1, <2>2, <2>3
<1>3. o.type = IF m.type = "item" THEN "ARRAY" ELSE "MAP"
  BY <1>1
<1>4. NextObject(next) = <<o.ptr[1], o.ptr[2] + ObjectSize * Counted(o, m)>>
  <2> HIDE DEF Counted
  <2> QED BY <1>1, <1>2 DEF NextObject, ObjectSize
<1> QED BY <1>1, <1>3, <1>4 DEF Houses

\* The innermost container and its level.
LEMMA Innermost ==
    ASSUME StacksOK, levels # <<>>
    PROVE  /\ Top(levels) \in Level /\ Len(levels) \in Open
           /\ Top(levels) = levels[Len(levels)]
           /\ Houses(Container(Len(levels)), Top(levels), Top(cursors))
           /\ Top(levels).rest \in 1..Container(Len(levels)).size
           /\ Container(Len(levels)).size \in Nat
<1>1. levels \in Seq(Level) /\ Len(levels) \in Open /\ Len(cursors) = Len(levels) + 1
      /\ Len(levels) \in 1..Len(levels)
  BY DEF StacksOK, Open
<1>2. Top(levels) = levels[Len(levels)] /\ Top(cursors) = cursors[Len(levels) + 1]
  BY StacksLength DEF Top
<1>3. Houses(Container(Len(levels)), Top(levels), Top(cursors))
  BY <1>1, <1>2 DEF StacksOK
<1>4. Top(levels) \in Level
  BY <1>1, <1>2
<1> QED BY <1>1, <1>2, <1>3, <1>4 DEF Houses

\* What consume does to the two stacks.
LEMMA StacksClose ==
    ASSUME StacksOK, levels # <<>>, NEW next \in Types, Close(next), UNCHANGED <<memory, zone>>,
           \/ Top(levels).type = "item" /\ next = "item"
           \/ Top(levels).type = "value" /\ next = "key"
    PROVE  StacksOK'
<1>1. CASE Top(levels).rest = 1
  BY <1>1, StacksPop DEF Close
<1>2. CASE Top(levels).rest # 1
  <2> DEFINE m == [type |-> next, rest |-> Top(levels).rest - 1]
  <2>1. levels' = [levels EXCEPT ![Len(levels)] = m] /\ cursors' = Advanced(cursors)
    BY <1>2, Innermost DEF Close
  <2>2. m \in Level /\ m.rest \in 1..Container(Len(levels)).size /\ m.rest = Top(levels).rest - 1
        /\ m.type = next
    <3>1. Top(levels).rest - 1 \in 1..Container(Len(levels)).size
      BY <1>2, Innermost
    <3> QED BY <3>1 DEF Level
  <2> HIDE DEF m
  <2>3. Houses(Container(Len(levels)), m, NextObject(Top(cursors)))
    BY <2>2, Innermost, CountedOneMore
  <2> QED BY <2>1, <2>2, <2>3, StacksAdvance
<1> QED BY <1>1, <1>2

LEMMA StacksNext ==
    ASSUME ScanOK, ZoneOK, BlocksOK, StacksOK, Next, result' = "none"
    PROVE  StacksOK'
<1>0. ZoneOK'
  BY ZoneNext
<1>1. ASSUME NEW o, Write(o), UNCHANGED stacks,
             \/ UNCHANGED <<zone, chunks, blocks>>
             \/ \E n \in Nat : Allocate(n, 1)
      PROVE  StacksOK'
  <2>1. Further
    <3>1. CASE UNCHANGED <<zone, chunks, blocks>>
      <4>1. zone.at \in Nat
        BY DEF ZoneOK
      <4> QED BY <3>1, <4>1 DEF Further
    <3> QED BY <1>1, <3>1, AllocateFurther
  <2> QED BY <1>0, <1>1, <2>1, StacksWrite
<1>2. ASSUME NEW o, Visit(o) PROVE StacksOK'
  BY <1>1, <1>2 DEF Visit
<1>3. ASSUME NEW type, NEW bytes, VisitBytes(type, bytes), Len(bytes) \in Nat PROVE StacksOK'
  BY <1>1, <1>3 DEF VisitBytes
<1>4. ASSUME NEW type \in {"ARRAY", "MAP"}, NEW size \in Nat, NEW last, Aggregate(type, size, last)
      PROVE  StacksOK'
  <2>1. CASE size = 0
    BY <1>2, <1>4, <2>1 DEF Aggregate
  <2> QED BY <1>4, <2>1, StacksOpen
<1>5. CASE Single
  <2>1. Len(<<>>) \in Nat
    OBVIOUS
  <2> QED BY <1>2, <1>3, <1>5, <2>1 DEF Single
<1>6. CASE FixAggregate
  <2>1. Selector \in 144..159 => Selector - 144 \in Nat
    OBVIOUS
  <2>2. Selector \in 128..143 => Selector - 128 \in Nat
    OBVIOUS
  <2> QED BY <1>4, <1>6, <2>1, <2>2 DEF FixAggregate
<1>7. CASE Scalar
  <2>1. Len(TrailBytes) \in Nat
    BY <1>7, Trailing DEF Scalar
  <2> QED BY <1>2, <1>3, <1>7, <2>1 DEF Scalar
<1>8. CASE Length
  <2>1. Len(<<>>) \in Nat
    OBVIOUS
  <2>2. \/ \E type : VisitBytes(type, <<>>)
        \/ UNCHANGED <<stacks, heap>>
    BY <1>8 DEF Length
  <2>3. CASE UNCHANGED <<stacks, heap>>
    BY <2>3 DEF stacks, heap, StacksOK, Open, Container
  <2> QED BY <1>3, <2>1, <2>2, <2>3
<1>9. CASE LongAggregate
  <2>1. Loaded(TrailBytes) \in Nat
    BY <1>9, TrailLoaded DEF LongAggregate
  <2> QED BY <1>4, <1>9, <2>1 DEF LongAggregate
<1>10. CASE Announces \/ Terminated
  BY <1>10 DEF Announces, Terminated, vars, stacks, heap, StacksOK, Open, Container
<1>11. CASE Unknown \/ Insufficient \/ Succeeds
  BY <1>11 DEF Unknown, Insufficient, Succeeds
<1>12. CASE ItemEnds
  <2>1. "item" \in Types /\ levels # <<>> /\ Top(levels).type = "item" /\ Close("item")
        /\ UNCHANGED <<memory, zone>>
    BY <1>12 DEF ItemEnds, Consuming, heap, Types
  <2> QED BY <2>1, StacksClose
<1>13. CASE ValueEnds
  <2>1. "key" \in Types /\ levels # <<>> /\ Top(levels).type = "value" /\ Close("key")
        /\ UNCHANGED <<memory, zone>>
    BY <1>13 DEF ValueEnds, Consuming, heap, Types
  <2> QED BY <2>1, StacksClose
<1>14. CASE KeyEnds
  <2> DEFINE m == [type |-> "value", rest |-> Top(levels).rest]
  <2>1. levels # <<>> /\ Top(levels).type = "key" /\ UNCHANGED <<memory, zone>>
        /\ cursors' = Advanced(cursors)
    BY <1>14 DEF KeyEnds, Consuming, heap
  <2>2. Top(levels) \in Level /\ Top(levels) = levels[Len(levels)]
    BY <2>1, Innermost
  <2>3. levels' = [levels EXCEPT ![Len(levels)] = m]
    <3>1. [levels[Len(levels)] EXCEPT !.type = "value"] = m
      BY <2>2 DEF Level
    <3> QED BY <1>14, <3>1 DEF KeyEnds
  <2>4. m \in Level /\ m.rest = Top(levels).rest /\ m.type = "value"
    BY <2>2 DEF Level, Types
  <2> HIDE DEF m
  <2>5. Houses(Container(Len(levels)), m, NextObject(Top(cursors)))
    BY <2>1, <2>4, Innermost, CountedOneMore
  <2> QED BY <2>1, <2>3, <2>4, <2>5, StacksAdvance
<1> QED BY <1>5, <1>6, <1>7, <1>8, <1>9, <1>10, <1>11, <1>12, <1>13, <1>14 DEF Next

-----------------------------------------------------------------------------
LEMMA InitIInv == Init => IInv
<1> SUFFICES ASSUME Init PROVE IInv
  OBVIOUS
<1>1. ScanOK
  <2>1. data \in Seq(Byte)
    BY UnpackAssumption DEF Init
  <2>2. 0 \in 0..Len(data) /\ 0 \in Nat
    BY <2>1
  <2>3. pos = 0 /\ cs = Header /\ trail = 0 /\ again = FALSE /\ consuming = FALSE
    BY DEF Init
  <2>4. ~(cs \in 4..31)
    BY <2>3 DEF Header
  <2> QED BY <2>1, <2>2, <2>3, <2>4, Zenon DEF ScanOK
<1>2. ZoneOK
  <2>1. ChunkSize \in Nat /\ <<ChunkSize>> \in Seq(Nat) /\ Len(<<ChunkSize>>) = 1
        /\ <<ChunkSize>>[1] = ChunkSize
    BY UnpackAssumption
  <2> QED BY <2>1 DEF Init, ZoneOK
<1>3. BlocksOK
  BY DEF Init, BlocksOK
<1>4. StacksOK
  <2>1. cursors = <<Root>> /\ Root \in Nat \X Nat
    BY DEF Init, Root
  <2>2. cursors \in Seq(Nat \X Nat) /\ Len(cursors) = 1 /\ cursors[1] = Root
    BY <2>1
  <2>3. levels = <<>> /\ levels \in Seq(Level) /\ Len(levels) = 0
    BY DEF Init
  <2> QED BY <2>2, <2>3 DEF StacksOK, Open
<1> QED BY <1>1, <1>2, <1>3, <1>4 DEF IInv

LEMMA NextIInv == IInv /\ [Next]_vars => IInv'
<1> SUFFICES ASSUME IInv, [Next]_vars PROVE IInv'
  OBVIOUS
<1>1. CASE Next
  <2>1. ScanOK' /\ ZoneOK' /\ BlocksOK'
    BY <1>1, ScanNext, ZoneNext DEF IInv
  <2>2. result' = "none" => result = "none"
    BY <1>1 DEF Next, Terminated, vars, Single, FixAggregate, Announces, HeaderNext, Unknown,
       Scalar, Length, LongAggregate, TrailNext, Parsing, Insufficient, ItemEnds, KeyEnds,
       ValueEnds, Succeeds, Consuming
  <2> QED BY <1>1, <2>1, <2>2, StacksNext DEF IInv
<1>2. CASE UNCHANGED vars
  BY <1>2 DEF vars, scan, stacks, heap, IInv, ScanOK, ZoneOK, BlocksOK, StacksOK, Open, Container
<1> QED BY <1>1, <1>2

LEMMA Invariance == Spec => []IInv
BY InitIInv, NextIInv, PTL DEF Spec

\* The parser and the visitor agree about every container that is open: of any
\* payload, no object is written before or behind the memory of its container.
THEOREM ObjectsInTheirPlace == Spec => []StacksAgree
<1>1. IInv => StacksAgree
  <2> SUFFICES ASSUME StacksOK PROVE StacksAgree
    BY DEF IInv, StacksAgree
  <2>1. \A i \in Open : /\ levels[i].rest \in 1..Container(i).size
                       /\ cursors[i + 1] = <<Container(i).ptr[1],
                                             Container(i).ptr[2] + ObjectSize * Done(i)>>
    BY DEF StacksOK, Houses, Counted, Done, Container
  <2> QED BY <2>1 DEF StacksOK, StacksAgree, Open, Container
<1> QED BY <1>1, Invariance, PTL

\* Whatever is unpacked, what the zone hands out lies within a chunk and is
\* not handed out again, and no byte behind the payload is read.
THEOREM NothingOutOfBounds == Spec => []MemoryInBounds
<1>1. IInv => MemoryInBounds
  <2> SUFFICES ASSUME IInv PROVE MemoryInBounds
    OBVIOUS
  <2>1. pos <= Len(data)
    BY DEF IInv, ScanOK
  <2>2. \A i \in 1..Len(blocks) : blocks[i].from + blocks[i].size <= chunks[blocks[i].chunk]
    BY DEF IInv, BlocksOK
  <2>3. \A i, j \in 1..Len(blocks) :
           i < j /\ blocks[i].chunk = blocks[j].chunk =>
               blocks[i].from + blocks[i].size <= blocks[j].from
    BY DEF IInv, BlocksOK
  <2> QED BY <2>1, <2>2, <2>3 DEF MemoryInBounds
<1> QED BY <1>1, Invariance, PTL

-----------------------------------------------------------------------------
(* Integers: from the packer, by any payload that begins with one, to any  *)
(* integer type.                                                           *)

\* Eight bytes, and the numbers of a 64-bit type, signed or not.
Eight == [1..8 -> Byte]
Wide  == {d \in [neg : BOOLEAN, bytes : Eight] : d.neg => d.bytes[1] >= 128}

LEMMA Order == \A x, y \in 0..255 : (x <= y /\ x # y <=> x < y) /\ (x < y => x <= y)
OBVIOUS

LEMMA FirstDifference ==
    ASSUME NEW a \in Eight, NEW b \in Eight, a # b
    PROVE  \E i \in 1..8 : a[i] # b[i] /\ \A j \in 1..(i - 1) : a[j] = b[j]
<1>1. PICK k \in 1..8 : a[k] # b[k]
  BY DEF Eight
<1>2. SUFFICES ASSUME \A i \in 1..8 : (\A j \in 1..(i - 1) : a[j] = b[j]) => a[i] = b[i]
               PROVE  FALSE
  BY <1>1
<1>3. a[1] = b[1]
  BY <1>2
<1>4. a[2] = b[2]
  BY <1>2, <1>3
<1>5. a[3] = b[3]
  BY <1>2, <1>3, <1>4
<1>6. a[4] = b[4]
  BY <1>2, <1>3, <1>4, <1>5
<1>7. a[5] = b[5]
  BY <1>2, <1>3, <1>4, <1>5, <1>6
<1>8. a[6] = b[6]
  BY <1>2, <1>3, <1>4, <1>5, <1>6, <1>7
<1>9. a[7] = b[7]
  BY <1>2, <1>3, <1>4, <1>5, <1>6, <1>7, <1>8
<1>10. a[8] = b[8]
  BY <1>2, <1>3, <1>4, <1>5, <1>6, <1>7, <1>8, <1>9
<1>11. k = 1 \/ k = 2 \/ k = 3 \/ k = 4 \/ k = 5 \/ k = 6 \/ k = 7 \/ k = 8
  OBVIOUS
<1> QED BY <1>1, <1>3, <1>4, <1>5, <1>6, <1>7, <1>8, <1>9, <1>10, <1>11

\* What is not greater in any byte is not greater.
LEMMA Bytewise ==
    ASSUME NEW a \in Eight, NEW b \in Eight, \A i \in 1..8 : a[i] <= b[i]
    PROVE  LessOrEqual(a, b)
<1>1. CASE a = b
  BY <1>1 DEF LessOrEqual
<1>2. CASE a # b
  <2>1. PICK i \in 1..8 : a[i] # b[i] /\ \A j \in 1..(i - 1) : a[j] = b[j]
    BY <1>2, FirstDifference
  <2>2. a[i] \in 0..255 /\ b[i] \in 0..255
    BY DEF Eight, Byte
  <2>3. a[i] < b[i]
    <3>1. a[i] # b[i] /\ a[i] <= b[i]
      BY <2>1
    <3> QED BY <2>2, <3>1, Order
  <2> QED BY <2>1, <2>3 DEF LessOrEqual
<1> QED BY <1>1, <1>2

LEMMA BelowMax ==
    ASSUME NEW a \in Eight, NEW signed \in BOOLEAN, NEW n \in {1, 2, 4, 8}
    PROVE  LessOrEqual(a, MaxOf(signed, n)) <=>
               /\ \A i \in 1..(8 - n) : a[i] = 0
               /\ signed => a[9 - n] < 128
<1> DEFINE top == MaxOf(signed, n)
<1>1. top \in Eight
  BY DEF MaxOf, Eight, Byte
<1>2. /\ \A i \in 1..(8 - n) : top[i] = 0
      /\ top[9 - n] = IF signed THEN 127 ELSE 255
      /\ \A i \in (10 - n)..8 : top[i] = 255
  BY DEF MaxOf
<1>3. \A i \in 1..8 : a[i] \in 0..255
  BY DEF Eight, Byte
<1>6. \A i \in 1..8 : top[i] \in 0..255
  BY <1>1 DEF Eight, Byte
<1> HIDE DEF top
<1>4. ASSUME LessOrEqual(a, top)
      PROVE  (\A i \in 1..(8 - n) : a[i] = 0) /\ (signed => a[9 - n] < 128)
  <2>1. CASE a = top
    BY <1>2, <2>1
  <2>2. ASSUME NEW i \in 1..8, a[i] < top[i], \A j \in 1..(i - 1) : a[j] = top[j]
        PROVE  (\A k \in 1..(8 - n) : a[k] = 0) /\ (signed => a[9 - n] < 128)
    <3>1. i >= 9 - n
      <4> SUFFICES ASSUME i \in 1..(8 - n) PROVE FALSE
        OBVIOUS
      <4>1. a[i] \in 0..255 /\ top[i] = 0
        BY <1>2, <1>3
      <4> QED BY <2>2, <4>1
    <3>2. \A k \in 1..(8 - n) : a[k] = 0
      BY <1>2, <2>2, <3>1
    <3>3. a[9 - n] <= top[9 - n]
      <4>1. CASE i = 9 - n
        <5>1. a[i] \in 0..255 /\ top[i] \in 0..255
          BY <1>3, <1>6
        <5>2. a[i] <= top[i]
          BY <2>2, <5>1, Order
        <5> QED BY <4>1, <5>2
      <4>2. CASE i > 9 - n
        <5>1. 9 - n \in 1..(i - 1)
          BY <4>2
        <5> QED BY <2>2, <5>1, <1>2
      <4> QED BY <3>1, <4>1, <4>2
    <3>4. 9 - n \in 1..8
      OBVIOUS
    <3> QED BY <3>2, <3>3, <3>4, <1>2, <1>3
  <2> QED BY <1>4, <2>1, <2>2 DEF LessOrEqual
<1>5. ASSUME \A i \in 1..(8 - n) : a[i] = 0, signed => a[9 - n] < 128
      PROVE  LessOrEqual(a, top)
  <2>1. ASSUME NEW i \in 1..8 PROVE a[i] <= top[i]
    <3>1. CASE i < 9 - n
      BY <1>2, <1>5, <3>1
    <3>2. CASE i = 9 - n
      <4>1. a[i] \in 0..255
        BY <1>3
      <4> QED BY <1>2, <1>5, <3>2, <4>1
    <3>3. CASE i > 9 - n
      <4>1. i \in (10 - n)..8 /\ a[i] \in 0..255
        BY <1>3, <3>3
      <4> QED BY <1>2, <4>1
    <3> QED BY <3>1, <3>2, <3>3
  <2> QED BY <1>1, <2>1, Bytewise
<1> QED BY <1>4, <1>5 DEF top

LEMMA AboveMin ==
    ASSUME NEW a \in Eight, NEW n \in {1, 2, 4, 8}
    PROVE  LessOrEqual(MinOf(n), a) <=>
               (\A i \in 1..(8 - n) : a[i] = 255) /\ a[9 - n] >= 128
<1> DEFINE low == MinOf(n)
<1>1. low \in Eight
  BY DEF MinOf, Eight, Byte
<1>2. /\ \A i \in 1..(8 - n) : low[i] = 255
      /\ low[9 - n] = 128
      /\ \A i \in (10 - n)..8 : low[i] = 0
  BY DEF MinOf
<1>3. \A i \in 1..8 : a[i] \in 0..255
  BY DEF Eight, Byte
<1>6. \A i \in 1..8 : low[i] \in 0..255
  BY <1>1 DEF Eight, Byte
<1> HIDE DEF low
<1>4. ASSUME LessOrEqual(low, a)
      PROVE  (\A i \in 1..(8 - n) : a[i] = 255) /\ a[9 - n] >= 128
  <2>1. CASE low = a
    BY <1>2, <2>1
  <2>2. ASSUME NEW i \in 1..8, low[i] < a[i], \A j \in 1..(i - 1) : low[j] = a[j]
        PROVE  (\A k \in 1..(8 - n) : a[k] = 255) /\ a[9 - n] >= 128
    <3>1. i >= 9 - n
      <4> SUFFICES ASSUME i \in 1..(8 - n) PROVE FALSE
        OBVIOUS
      <4>1. a[i] \in 0..255 /\ low[i] = 255
        BY <1>2, <1>3
      <4> QED BY <2>2, <4>1
    <3>2. \A k \in 1..(8 - n) : a[k] = 255
      BY <1>2, <2>2, <3>1
    <3>3. a[9 - n] >= low[9 - n]
      <4>1. CASE i = 9 - n
        <5>1. a[i] \in 0..255 /\ low[i] \in 0..255
          BY <1>3, <1>6
        <5>2. low[i] <= a[i]
          BY <2>2, <5>1, Order
        <5> QED BY <4>1, <5>2
      <4>2. CASE i > 9 - n
        <5>1. 9 - n \in 1..(i - 1)
          BY <4>2
        <5> QED BY <2>2, <5>1, <1>2
      <4> QED BY <3>1, <4>1, <4>2
    <3> QED BY <3>2, <3>3, <1>2
  <2> QED BY <1>4, <2>1, <2>2 DEF LessOrEqual
<1>5. ASSUME \A i \in 1..(8 - n) : a[i] = 255, a[9 - n] >= 128
      PROVE  LessOrEqual(low, a)
  <2>1. ASSUME NEW i \in 1..8 PROVE low[i] <= a[i]
    <3>1. CASE i < 9 - n
      BY <1>2, <1>5, <3>1
    <3>2. CASE i = 9 - n
      BY <1>2, <1>5, <3>2
    <3>3. CASE i > 9 - n
      <4>1. i \in (10 - n)..8 /\ a[i] \in 0..255
        BY <1>3, <3>3
      <4> QED BY <1>2, <4>1
    <3> QED BY <3>1, <3>2, <3>3
  <2> QED BY <1>1, <2>1, Bytewise
<1> QED BY <1>4, <1>5 DEF low

\* The object that a number is read as.
IntObject(d) ==
    [type |-> IF d.neg THEN "NEGATIVE_INTEGER" ELSE "POSITIVE_INTEGER", bytes |-> d.bytes]

LEMMA ReadAsRange ==
    ASSUME NEW d \in Wide, NEW signed \in BOOLEAN, NEW n \in {1, 2, 4, 8}
    PROVE  AsInt(IntObject(d), signed, n) = IF InRange(d, signed, n) THEN Value(d) ELSE Refused
<1>1. d.neg \in BOOLEAN /\ d.bytes \in Eight /\ d = Number(d.neg, d.bytes)
  BY DEF Wide, Number
<1>2. \A i \in 1..8 : d.bytes[i] \in 0..255
  BY <1>1 DEF Eight, Byte
<1>3. 9 - n \in 1..8
  OBVIOUS
<1>4. CASE ~d.neg
  <2>1. LessOrEqual(d.bytes, MaxOf(signed, n)) <=> InRange(d, signed, n)
    <3>1. Fits(n, d) <=> \A i \in 1..(8 - n) : d.bytes[i] = 0
      BY <1>4 DEF Fits
    <3>2. d.bytes[9 - n] \in 0..255
      BY <1>2, <1>3
    <3>3. InRange(d, signed, n) <=> Fits(n, d) /\ (signed => d.bytes[9 - n] < 128)
      BY <1>4, <3>2 DEF InRange
    <3> QED BY <1>1, <3>1, <3>3, BelowMax
  <2>2. IntObject(d).type = "POSITIVE_INTEGER" /\ IntObject(d).bytes = d.bytes
    BY <1>4 DEF IntObject
  <2>3. d = Number(FALSE, d.bytes)
    BY <1>1, <1>4
  <2> QED BY <2>1, <2>2, <2>3 DEF AsInt
<1>5. CASE d.neg
  <2>1. signed /\ LessOrEqual(MinOf(n), d.bytes) <=> InRange(d, signed, n)
    BY <1>1, <1>2, <1>3, <1>5, AboveMin DEF InRange, Fits
  <2>2. IntObject(d).type = "NEGATIVE_INTEGER" /\ IntObject(d).bytes = d.bytes
    BY <1>5 DEF IntObject
  <2>3. d = Number(TRUE, d.bytes)
    BY <1>1, <1>5
  <2> QED BY <2>1, <2>2, <2>3 DEF AsInt
<1> QED BY <1>4, <1>5
LEMMA EightSeq == ASSUME NEW a \in Eight PROVE a \in Seq(Byte) /\ Len(a) = 8
<1>1. a = [i \in 1..8 |-> a[i]] /\ \A i \in 1..8 : a[i] \in Byte
  BY DEF Eight
<1>2. [i \in 1..8 |-> a[i]] \in Seq(Byte) /\ Len([i \in 1..8 |-> a[i]]) = 8
  BY <1>1
<1> QED BY <1>1, <1>2

\* The number of bytes of a format, by its place among those of its sign.
Power == <<1, 2, 4, 8>>

\* The bytes that are sent are the lowest, and a reader who extends them has
\* the number again.
LEMMA LowExtended ==
    ASSUME NEW d \in Wide, NEW n \in {1, 2, 4, 8}, Fits(n, d)
    PROVE  /\ Low(n, d) \in Seq(Byte) /\ Len(Low(n, d)) = n
           /\ Low(n, d)[1] = d.bytes[9 - n]
           /\ Extended(Low(n, d), d.neg) = d.bytes
           /\ d.neg => d.bytes[9 - n] >= 128
<1> DEFINE low == Low(n, d)
<1>1. d.neg \in BOOLEAN /\ d.bytes \in Eight
  BY DEF Wide
<1>2. d.bytes \in Seq(Byte) /\ Len(d.bytes) = 8
  BY <1>1, EightSeq
<1>3. low \in Seq(Byte) /\ Len(low) = n /\ \A i \in 1..n : low[i] = d.bytes[8 - n + i]
  BY <1>2 DEF Low
<1> HIDE DEF low
<1>4. low[1] = d.bytes[9 - n]
  BY <1>3
<1>5. d.neg => d.bytes[9 - n] >= 128
  BY DEF Fits
<1> DEFINE fill == [i \in 1..(8 - Len(low)) |-> IF d.neg /\ low[1] >= 128 THEN 255 ELSE 0]
<1>6. Extended(low, d.neg) = fill \o low
  BY DEF Extended
<1>7. fill \in Seq(Byte) /\ Len(fill) = 8 - n
  BY <1>3 DEF Byte
<1>8. \A i \in 1..(8 - n) : fill[i] = d.bytes[i]
  BY <1>3, <1>4, <1>5, <1>1 DEF Fits
<1> HIDE DEF fill
<1>9. fill \o low \in Seq(Byte) /\ Len(fill \o low) = 8
  BY <1>3, <1>7
<1>10. ASSUME NEW i \in 1..8 PROVE (fill \o low)[i] = d.bytes[i]
  <2>1. CASE i <= 8 - n
    BY <1>3, <1>7, <1>8, <2>1
  <2>2. CASE i > 8 - n
    <3>1. (fill \o low)[i] = low[i - (8 - n)]
      BY <1>3, <1>7, <2>2
    <3>2. i - (8 - n) \in 1..n /\ 8 - n + (i - (8 - n)) = i
      BY <2>2
    <3> QED BY <1>3, <3>1, <3>2
  <2>3. i <= 8 - n \/ i > 8 - n
    OBVIOUS
  <2> QED BY <2>1, <2>2, <2>3
<1>11. fill \o low = d.bytes
  BY <1>2, <1>9, <1>10, SeqEqual
<1> QED BY <1>3, <1>4, <1>5, <1>6, <1>11 DEF low

\* What a number is sent as: itself, or a selector and its lowest bytes.
LEMMA Packed ==
    ASSUME NEW d \in Wide
    PROVE  \/ /\ Fits(1, d) /\ PackInt(d) = Low(1, d)
              /\ (d.neg => d.bytes[8] >= 224) /\ (~d.neg => d.bytes[8] <= 127)
           \/ \E k \in 1..4 :
                 /\ Fits(Power[k], d)
                 /\ PackInt(d) = <<(IF d.neg THEN 207 ELSE 203) + k>> \o Low(Power[k], d)
<1>1. d.neg \in BOOLEAN /\ d.bytes \in Eight /\ (d.neg => d.bytes[1] >= 128)
  BY DEF Wide
<1>2. d.bytes[8] \in 0..255
  BY <1>1 DEF Eight, Byte
<1> DEFINE Short == Fits(1, d) /\ (d.bytes[8] \in 0..127 \/ (d.neg /\ d.bytes[8] >= 224))
           Fit(n) == Fits(n, d) /\ \A m \in {1, 2, 4, 8} : m < n => ~Fits(m, d)
           n == CHOOSE n \in {1, 2, 4, 8} : Fit(n)
           code == CASE n = 1 -> 0 [] n = 2 -> 1 [] n = 4 -> 2 [] n = 8 -> 3
<1>3. CASE Short
  <2>1. d.neg => d.bytes[8] >= 128
    BY <1>3 DEF Fits
  <2>2. (d.neg => d.bytes[8] >= 224) /\ (~d.neg => d.bytes[8] <= 127)
    BY <1>1, <1>2, <1>3, <2>1
  <2>3. PackInt(d) = Low(1, d)
    BY <1>3 DEF PackInt
  <2> QED BY <1>3, <2>2, <2>3
<1>4. CASE ~Short
  <2>1. \E m \in {1, 2, 4, 8} : Fit(m)
    <3>1. Fits(8, d)
      BY <1>1 DEF Fits
    <3>2. CASE Fits(1, d)
      BY <3>2
    <3>3. CASE ~Fits(1, d) /\ Fits(2, d)
      BY <3>3
    <3>4. CASE ~Fits(1, d) /\ ~Fits(2, d) /\ Fits(4, d)
      BY <3>4
    <3>5. CASE ~Fits(1, d) /\ ~Fits(2, d) /\ ~Fits(4, d)
      BY <3>1, <3>5
    <3> QED BY <3>2, <3>3, <3>4, <3>5
  <2>2. n \in {1, 2, 4, 8} /\ Fit(n)
    BY <2>1
  <2>3. PackInt(d) = <<(IF d.neg THEN 208 ELSE 204) + code>> \o Low(n, d)
    BY <1>4 DEF PackInt
  <2> HIDE DEF n, Fit
  <2>4. \E k \in 1..4 : Power[k] = n /\ code = k - 1
    <3>1. CASE n = 1
      BY <3>1 DEF Power
    <3>2. CASE n = 2
      BY <3>2 DEF Power
    <3>3. CASE n = 4
      BY <3>3 DEF Power
    <3>4. CASE n = 8
      BY <3>4 DEF Power
    <3> QED BY <2>2, <3>1, <3>2, <3>3, <3>4
  <2>5. PICK k \in 1..4 : Power[k] = n /\ code = k - 1
    BY <2>4
  <2> HIDE DEF code
  <2>6. (IF d.neg THEN 208 ELSE 204) + code = (IF d.neg THEN 207 ELSE 203) + k
    BY <1>1, <2>5
  <2>7. Fits(Power[k], d)
    BY <2>2, <2>5 DEF Fit
  <2>8. PackInt(d) = <<(IF d.neg THEN 207 ELSE 203) + k>> \o Low(Power[k], d)
    BY <2>3, <2>5, <2>6
  <2> QED BY <2>7, <2>8
<1> QED BY <1>3, <1>4
\* The payload begins with the bytes p; whatever comes behind them.
Carries(p) == Len(p) <= Len(data) /\ SubSeq(data, 1, Len(p)) = p

\* The payload is the beginning of the bytes p, and not all of them.
Cut(p) == Len(data) < Len(p) /\ data = SubSeq(p, 1, Len(data))

\* No container is open.
Alone == levels = <<>> /\ cursors = <<Root>>

\* The selector is next, ...
Begins == result = "none" /\ ~consuming /\ Alone /\ pos = 0 /\ cs = Header

\* ... it was read and announced the k-th format of the sign, ...
Announced(d, k) ==
    /\ result = "none" /\ ~consuming /\ Alone /\ pos = 0
    /\ cs = (IF d.neg THEN 15 ELSE 11) + k
    /\ trail = Power[k] /\ again
    /\ Fits(Power[k], d)
    /\ PackInt(d) = <<(IF d.neg THEN 207 ELSE 203) + k>> \o Low(Power[k], d)

\* ... the object is complete, ...
Read(d) ==
    /\ result = "none" /\ consuming /\ Alone
    /\ memory[Root] = IntObject(d)
    /\ pos = Len(PackInt(d)) - 1

\* ... and given to the caller.
Given(d) ==
    /\ result = "success"
    /\ memory[Root] = IntObject(d)
    /\ pos = Len(PackInt(d))

Progress(d) == Begins \/ (\E k \in 1..4 : Announced(d, k)) \/ Read(d) \/ Given(d)

LEMMA PackedType ==
    ASSUME NEW d \in Wide
    PROVE  PackInt(d) \in Seq(Byte) /\ Len(PackInt(d)) > 0
<1>1. CASE Fits(1, d) /\ PackInt(d) = Low(1, d)
  BY <1>1, LowExtended
<1>2. ASSUME NEW k \in 1..4, Fits(Power[k], d),
             PackInt(d) = <<(IF d.neg THEN 207 ELSE 203) + k>> \o Low(Power[k], d)
      PROVE  PackInt(d) \in Seq(Byte) /\ Len(PackInt(d)) > 0
  <2>1. Power[k] \in {1, 2, 4, 8}
    BY DEF Power
  <2>2. Low(Power[k], d) \in Seq(Byte)
    BY <1>2, <2>1, LowExtended
  <2>3. <<(IF d.neg THEN 207 ELSE 203) + k>> \in Seq(Byte)
    BY DEF Byte
  <2> QED BY <1>2, <2>2, <2>3
<1> QED BY <1>1, <1>2, Packed

LEMMA CarriesBytes ==
    ASSUME NEW p \in Seq(Byte), Carries(p), data \in Seq(Byte), NEW i \in 1..Len(p)
    PROVE  i \in 1..Len(data) /\ data[i] = p[i]
<1>1. Len(p) \in Nat /\ Len(data) \in Nat
  OBVIOUS
<1>2. SubSeq(data, 1, Len(p))[i] = data[i]
  BY <1>1 DEF Carries
<1> QED BY <1>1, <1>2 DEF Carries

\* An object that is visited when no container is open is the root.
LEMMA VisitRoot ==
    ASSUME NEW o, Alone, Write(o)
    PROVE  memory'[Root] = o
<1>1. Top(cursors) = Root
  BY DEF Alone, Top
<1> QED BY <1>1 DEF Write

LEMMA HeaderSteps ==
    ASSUME Next, result = "none", ~consuming, cs = Header, pos < Len(data), pos \in Nat, Len(data) \in Nat
    PROVE  Single \/ FixAggregate \/ Announces \/ Unknown
BY DEF Next, Terminated, Scalar, Length, LongAggregate, TrailNext, Insufficient, ItemEnds, KeyEnds,
   ValueEnds, Succeeds, Consuming

LEMMA BeginsNext ==
    ASSUME NEW d \in Wide, data \in Seq(Byte), Len(data) > 0, data[1] = PackInt(d)[1], Begins, Next
    PROVE  (\E k \in 1..4 : Announced(d, k)') \/ (Len(PackInt(d)) = 1 /\ Read(d)')
<1>1. PackInt(d) \in Seq(Byte) /\ Len(PackInt(d)) > 0
  BY PackedType
<1>2. pos < Len(data) /\ Len(data) \in Nat /\ Selector = PackInt(d)[1]
  BY DEF Begins, Selector, At
<1>3. Single \/ FixAggregate \/ Announces \/ Unknown
  BY <1>2, HeaderSteps DEF Begins
<1>4. d.neg \in BOOLEAN
  BY DEF Wide
<1>5. CASE Fits(1, d) /\ PackInt(d) = Low(1, d)
            /\ (d.neg => d.bytes[8] >= 224) /\ (~d.neg => d.bytes[8] <= 127)
  <2>1. /\ Len(PackInt(d)) = 1 /\ Selector = d.bytes[8] /\ PackInt(d) = <<Selector>>
        /\ Extended(PackInt(d), d.neg) = d.bytes
        /\ Selector \in 0..255
    <3>1. /\ Low(1, d) \in Seq(Byte) /\ Len(Low(1, d)) = 1 /\ Low(1, d)[1] = d.bytes[8]
          /\ Extended(Low(1, d), d.neg) = d.bytes
      BY <1>5, LowExtended
    <3>2. PackInt(d) = <<Selector>>
      BY <1>2, <1>5, <3>1
    <3>3. Len(PackInt(d)) = 1 /\ Extended(PackInt(d), d.neg) = d.bytes
      BY <1>5, <3>1
    <3>4. Selector = d.bytes[8]
      BY <1>2, <1>5, <3>1
    <3>5. Selector \in Byte
      BY <1>1, <1>2
    <3> QED BY <3>2, <3>3, <3>4, <3>5 DEF Byte
  <2>2. Single
    <3>1. CASE d.neg
      <4>1. Selector \in 0..255 /\ Selector >= 224
        BY <1>5, <2>1, <3>1
      <4>2. \A b \in 0..255 : b >= 224 => b \in 224..255
        OBVIOUS
      <4>3. Selector \in 224..255
        BY <4>1, <4>2
      <4> QED BY <1>3, <4>3 DEF FixAggregate, Announces, Unknown
    <3>2. CASE ~d.neg
      <4>1. Selector \in 0..255 /\ Selector <= 127
        BY <1>5, <2>1, <3>2
      <4>2. \A b \in 0..255 : b <= 127 => b \in 0..127
        OBVIOUS
      <4>3. Selector \in 0..127
        BY <4>1, <4>2
      <4> QED BY <1>3, <4>3 DEF FixAggregate, Announces, Unknown
    <3> QED BY <3>1, <3>2
  <2>3. Visit(IntObject(d))
    <3>1. CASE d.neg
      <4>1. Visit(Signed(<<Selector>>))
        BY <1>5, <2>1, <2>2, <3>1 DEF Single
      <4>2. Extended(<<Selector>>, TRUE) = d.bytes
        BY <1>4, <2>1, <3>1
      <4>3. Selector >= 128
        BY <1>5, <2>1, <3>1
      <4>4. Signed(<<Selector>>) = IntObject(d)
        BY <3>1, <4>2, <4>3 DEF Signed, IntObject
      <4> QED BY <4>1, <4>4
    <3>2. CASE ~d.neg
      <4>1. Visit(Positive(<<Selector>>))
        BY <1>5, <2>1, <2>2, <3>2 DEF Single
      <4>2. Extended(<<Selector>>, FALSE) = d.bytes
        BY <1>4, <2>1, <3>2
      <4>3. Positive(<<Selector>>) = IntObject(d)
        BY <3>2, <4>2 DEF Positive, IntObject
      <4> QED BY <4>1, <4>3
    <3> QED BY <3>1, <3>2
  <2>4. Read(d)'
    <3>1. memory'[Root] = IntObject(d)
      BY <2>3, VisitRoot DEF Visit, Begins
    <3>2. result' = "none" /\ consuming' /\ Alone' /\ pos' = 0
      BY <2>2, <2>3 DEF Single, Visit, Begins, Alone, stacks
    <3> QED BY <2>1, <3>1, <3>2 DEF Read
  <2> QED BY <2>1, <2>4
<1>6. ASSUME NEW k \in 1..4, Fits(Power[k], d),
             PackInt(d) = <<(IF d.neg THEN 207 ELSE 203) + k>> \o Low(Power[k], d)
      PROVE  Announced(d, k)'
  <2>1. Selector = (IF d.neg THEN 207 ELSE 203) + k
    <3>1. Power[k] \in {1, 2, 4, 8}
      BY DEF Power
    <3>2. Low(Power[k], d) \in Seq(Byte)
      BY <1>6, <3>1, LowExtended
    <3> QED BY <1>2, <1>6, <3>2
  <2>2. Selector \in 204..211
    BY <2>1
  <2>3. Announces
    <3>1. ~FixAggregate /\ ~Unknown
      BY <2>2 DEF FixAggregate, Unknown
    <3>2. ~Single
      BY <2>2 DEF Single
    <3> QED BY <1>3, <3>1, <3>2
  <2>4. /\ cs' = (IF d.neg THEN 15 ELSE 11) + k
        /\ trail' = Power[k]
    <3>1. cs' = Selector % 32 /\ trail' = Trails[Selector - 195]
      BY <2>2, <2>3 DEF Announces
    <3>2. k = 1 \/ k = 2 \/ k = 3 \/ k = 4
      OBVIOUS
    <3>3. /\ Trails[9] = 1 /\ Trails[10] = 2 /\ Trails[11] = 4 /\ Trails[12] = 8
          /\ Trails[13] = 1 /\ Trails[14] = 2 /\ Trails[15] = 4 /\ Trails[16] = 8
      BY DEF Trails
    <3>4. Power[1] = 1 /\ Power[2] = 2 /\ Power[3] = 4 /\ Power[4] = 8
      BY DEF Power
    <3>5. CASE d.neg
      <4>1. Selector = 207 + k
        BY <2>1, <3>5
      <4>2. trail' = Trails[12 + k] /\ cs' = 15 + k
        BY <3>1, <4>1
      <4>3. Trails[12 + k] = Power[k]
        BY <3>2, <3>3, <3>4
      <4> QED BY <3>5, <4>2, <4>3
    <3>6. CASE ~d.neg
      <4>1. Selector = 203 + k
        BY <2>1, <3>6
      <4>2. trail' = Trails[8 + k] /\ cs' = 11 + k
        BY <3>1, <4>1
      <4>3. Trails[8 + k] = Power[k]
        BY <3>2, <3>3, <3>4
      <4> QED BY <3>6, <4>2, <4>3
    <3> QED BY <3>5, <3>6
  <2>5. result' = "none" /\ ~consuming' /\ Alone' /\ pos' = 0 /\ again'
    BY <2>3 DEF Announces, Begins, Alone, stacks
  <2> QED BY <1>6, <2>4, <2>5 DEF Announced
<1> QED BY <1>5, <1>6, Packed

LEMMA AnnouncedNext ==
    ASSUME NEW d \in Wide, Carries(PackInt(d)), data \in Seq(Byte), NEW k \in 1..4, Announced(d, k), Next
    PROVE  Read(d)'
<1> DEFINE low == Low(Power[k], d)
<1>1. Power[k] \in {1, 2, 4, 8}
  BY DEF Power
<1>2. d.neg \in BOOLEAN
  BY DEF Wide
<1>3. /\ low \in Seq(Byte) /\ Len(low) = Power[k] /\ low[1] = d.bytes[9 - Power[k]]
      /\ Extended(low, d.neg) = d.bytes
      /\ d.neg => low[1] >= 128
  BY <1>1, LowExtended DEF Announced
<1> HIDE DEF low
<1>4. /\ PackInt(d) \in Seq(Byte) /\ Len(PackInt(d)) = Power[k] + 1
      /\ \A i \in 1..Power[k] : PackInt(d)[i + 1] = low[i]
  <2>1. PackInt(d) = <<(IF d.neg THEN 207 ELSE 203) + k>> \o low
    BY DEF Announced, low
  <2> QED BY <1>1, <1>3, <2>1, PackedType
<1>5. From = 1 /\ trail = Power[k] /\ Len(data) \in Nat /\ Len(data) >= Power[k] + 1
  BY <1>4 DEF Announced, From, Carries
<1>6. TrailBytes = low
  <2>1. TrailBytes = SubSeq(data, 2, 1 + Power[k])
    BY <1>5 DEF TrailBytes
  <2>2. TrailBytes \in Seq(Byte) /\ Len(TrailBytes) = Power[k]
    BY <1>1, <1>5, <2>1
  <2>3. ASSUME NEW i \in 1..Power[k] PROVE TrailBytes[i] = low[i]
    <3>1. TrailBytes[i] = data[i + 1]
      BY <1>1, <1>5, <2>1
    <3>2. i + 1 \in 1..Len(PackInt(d))
      BY <1>1, <1>4
    <3> QED BY <1>4, <3>1, <3>2, CarriesBytes
  <2> QED BY <1>3, <2>2, <2>3, SeqEqual
<1>7. Arrived
  BY <1>1, <1>5 DEF Arrived
<1>8. cs \in 12..19 /\ (d.neg => cs \in 16..19) /\ (~d.neg => cs \in 12..15)
  BY DEF Announced
<1>9. Scalar
  <2>1. result = "none" /\ ~consuming /\ cs # Header
    BY <1>8 DEF Announced, Header
  <2>2. ~Length /\ ~LongAggregate
    BY <1>8 DEF Length, LongAggregate
  <2>3. ~Insufficient
    BY <1>7, <2>1 DEF Insufficient
  <2> QED BY <2>1, <2>2, <2>3 DEF Next, Terminated, Single, FixAggregate, Announces, Unknown,
          HeaderNext, ItemEnds, KeyEnds, ValueEnds, Succeeds, Consuming
<1>10. Visit(IntObject(d))
  <2>1. CASE d.neg
    <3>1. Visit(Signed(low))
      BY <1>6, <1>8, <1>9, <2>1 DEF Scalar, BodyOf, StrValue, ExtValue
    <3>2. Extended(low, TRUE) = d.bytes
      BY <1>2, <1>3, <2>1
    <3>3. Signed(low) = IntObject(d)
      BY <1>3, <2>1, <3>2 DEF Signed, IntObject
    <3> QED BY <3>1, <3>3
  <2>2. CASE ~d.neg
    <3>1. Visit(Positive(low))
      BY <1>6, <1>8, <1>9, <2>2 DEF Scalar, BodyOf, StrValue, ExtValue
    <3>2. Extended(low, FALSE) = d.bytes
      BY <1>2, <1>3, <2>2
    <3>3. Positive(low) = IntObject(d)
      BY <2>2, <3>2 DEF Positive, IntObject
    <3> QED BY <3>1, <3>3
  <2> QED BY <2>1, <2>2
<1>11. memory'[Root] = IntObject(d)
  BY <1>10, VisitRoot DEF Visit, Announced
<1>12. result' = "none" /\ consuming' /\ Alone' /\ pos' = Power[k]
  <2>1. pos' = 1 + Power[k] - 1
    BY <1>5, <1>9 DEF Scalar
  <2> QED BY <1>1, <1>10, <2>1 DEF Visit, Announced, Alone, stacks
<1> QED BY <1>1, <1>4, <1>11, <1>12 DEF Read

LEMMA ReadNext ==
    ASSUME NEW d \in Wide, Read(d), Next
    PROVE  Given(d)'
<1>1. Succeeds
  BY DEF Next, Read, Alone, Terminated, Single, FixAggregate, Announces, Unknown, HeaderNext,
     Scalar, Length, LongAggregate, TrailNext, Parsing, Insufficient, ItemEnds, KeyEnds,
     ValueEnds, Consuming
<1>2. Len(PackInt(d)) \in Nat
  BY PackedType
<1> QED BY <1>1, <1>2 DEF Succeeds, Proceed, Read, Given, heap

LEMMA GivenNext == ASSUME NEW d \in Wide, Given(d), Next PROVE Given(d)'
BY DEF Next, Given, Terminated, Single, FixAggregate, Announces, Unknown, HeaderNext, Scalar,
   Length, LongAggregate, TrailNext, Parsing, Insufficient, ItemEnds, KeyEnds, ValueEnds,
   Succeeds, Consuming, vars, scan, stacks, heap

Progressing == data \in Seq(Byte) /\ \A d \in Wide : Carries(PackInt(d)) => Progress(d)

LEMMA DataStays == [Next]_vars => UNCHANGED data
BY DEF Next, Terminated, Single, FixAggregate, Announces, Unknown, Scalar, Length, LongAggregate,
   Insufficient, ItemEnds, KeyEnds, ValueEnds, Succeeds, vars, scan

LEMMA ProgressingInit == Init => Progressing
BY UnpackAssumption DEF Init, Progressing, Progress, Begins, Alone

LEMMA ProgressingNext == Progressing /\ [Next]_vars => Progressing'
<1> SUFFICES ASSUME Progressing, [Next]_vars PROVE Progressing'
  OBVIOUS
<1>1. data' = data
  BY DataStays
<1>2. ASSUME NEW d \in Wide, Carries(PackInt(d)), Progress(d) PROVE Progress(d)'
  <2>1. CASE Next
    <3>1. CASE Begins
      <4>1. PackInt(d) \in Seq(Byte) /\ Len(PackInt(d)) > 0
        BY PackedType
      <4>2. 1 \in 1..Len(PackInt(d))
        BY <4>1
      <4>3. Len(data) > 0 /\ data[1] = PackInt(d)[1]
        BY <1>2, <4>1, <4>2, CarriesBytes DEF Progressing
      <4> QED BY <2>1, <3>1, <4>3, BeginsNext DEF Progressing, Progress
    <3>2. CASE \E k \in 1..4 : Announced(d, k)
      BY <1>2, <2>1, <3>2, AnnouncedNext DEF Progressing, Progress
    <3>3. CASE Read(d)
      BY <2>1, <3>3, ReadNext DEF Progress
    <3>4. CASE Given(d)
      BY <2>1, <3>4, GivenNext DEF Progress
    <3> QED BY <1>2, <3>1, <3>2, <3>3, <3>4 DEF Progress
  <2>2. CASE UNCHANGED vars
    BY <1>2, <2>2 DEF Progress, Begins, Announced, Read, Given, Alone, vars, scan, stacks, heap
  <2> QED BY <2>1, <2>2
<1> QED BY <1>1, <1>2 DEF Progressing, Carries

\* Whoever packs an integer, of whatever type, is read as he meant: it takes
\* the bytes that were sent and no more, and gives the number to every type
\* that has it, and type_error to the others, nothing cut off and no sign lost.
THEOREM NumbersArrive ==
    Spec => [](\A d \in Wide : Carries(PackInt(d)) /\ result # "none" =>
                  /\ result = "success"
                  /\ pos = Len(PackInt(d))
                  /\ \A signed \in BOOLEAN, n \in {1, 2, 4, 8} :
                        AsInt(memory[Root], signed, n) =
                            IF InRange(d, signed, n) THEN Value(d) ELSE Refused)
<1> DEFINE Arrives == \A d \in Wide : Carries(PackInt(d)) /\ result # "none" =>
                         /\ result = "success"
                         /\ pos = Len(PackInt(d))
                         /\ \A signed \in BOOLEAN, n \in {1, 2, 4, 8} :
                               AsInt(memory[Root], signed, n) =
                                   IF InRange(d, signed, n) THEN Value(d) ELSE Refused
<1>1. Progressing => Arrives
  <2> SUFFICES ASSUME Progressing, NEW d \in Wide, Carries(PackInt(d)), result # "none"
               PROVE  /\ result = "success"
                      /\ pos = Len(PackInt(d))
                      /\ \A signed \in BOOLEAN, n \in {1, 2, 4, 8} :
                            AsInt(memory[Root], signed, n) =
                                IF InRange(d, signed, n) THEN Value(d) ELSE Refused
    OBVIOUS
  <2>1. Given(d)
    BY DEF Progressing, Progress, Begins, Announced, Read
  <2> QED BY <2>1, ReadAsRange DEF Given
<1> QED BY <1>1, ProgressingInit, ProgressingNext, PTL DEF Spec

\* What becomes of a number that was cut off.
Breaking == data \in Seq(Byte) /\ \A d \in Wide : Cut(PackInt(d)) =>
                Begins \/ (\E k \in 1..4 : Announced(d, k)) \/ result = "insufficient_bytes"

LEMMA BeginsCut ==
    ASSUME NEW d \in Wide, Cut(PackInt(d)), data \in Seq(Byte), Begins, Next
    PROVE  (\E k \in 1..4 : Announced(d, k)') \/ result' = "insufficient_bytes"
<1>1. PackInt(d) \in Seq(Byte) /\ Len(data) \in Nat
  BY PackedType
<1>2. CASE Len(data) = 0
  <2>1. Insufficient
    BY <1>2 DEF Begins, Next, Terminated, Single, FixAggregate, Announces, Unknown, HeaderNext,
       Scalar, Length, LongAggregate, TrailNext, ItemEnds, KeyEnds, ValueEnds, Succeeds, Consuming
  <2> QED BY <2>1 DEF Insufficient
<1>3. CASE Len(data) > 0
  <2>1. data[1] = PackInt(d)[1]
    BY <1>1, <1>3 DEF Cut
  <2> QED BY <1>1, <1>3, <2>1, BeginsNext DEF Cut
<1> QED BY <1>1, <1>2, <1>3

LEMMA AnnouncedCut ==
    ASSUME NEW d \in Wide, Cut(PackInt(d)), data \in Seq(Byte), NEW k \in 1..4, Announced(d, k), Next
    PROVE  result' = "insufficient_bytes"
<1>1. Power[k] \in {1, 2, 4, 8}
  BY DEF Power
<1>2. Low(Power[k], d) \in Seq(Byte) /\ Len(Low(Power[k], d)) = Power[k]
  BY <1>1, LowExtended DEF Announced
<1>3. Len(PackInt(d)) = Power[k] + 1
  BY <1>1, <1>2, PackedType DEF Announced
<1>4. ~Arrived
  <2>1. Len(data) \in Nat /\ Len(data) < Power[k] + 1
    BY <1>3 DEF Cut
  <2>2. From = 1 /\ trail = Power[k]
    BY DEF Announced, From
  <2> QED BY <1>1, <2>1, <2>2 DEF Arrived
<1>5. result = "none" /\ ~consuming /\ cs # Header
  BY DEF Announced, Header
<1>6. Insufficient
  BY <1>4, <1>5 DEF Next, Terminated, Single, FixAggregate, Announces, Unknown, HeaderNext,
     Scalar, Length, LongAggregate, TrailNext, ItemEnds, KeyEnds, ValueEnds, Succeeds, Consuming
<1> QED BY <1>6 DEF Insufficient

LEMMA BreakingNext == Breaking /\ [Next]_vars => Breaking'
<1> SUFFICES ASSUME Breaking, [Next]_vars PROVE Breaking'
  OBVIOUS
<1> DEFINE Stage(d) == Begins \/ (\E k \in 1..4 : Announced(d, k)) \/ result = "insufficient_bytes"
<1>1. data' = data
  BY DataStays
<1>2. ASSUME NEW d \in Wide, Cut(PackInt(d)), Stage(d) PROVE Stage(d)'
  <2>1. CASE Next
    <3>1. CASE Begins
      BY <1>2, <2>1, <3>1, BeginsCut DEF Breaking
    <3>2. CASE \E k \in 1..4 : Announced(d, k)
      BY <1>2, <2>1, <3>2, AnnouncedCut DEF Breaking
    <3>3. CASE result = "insufficient_bytes"
      BY <2>1, <3>3 DEF Next, Terminated, Single, FixAggregate, Announces, Unknown, HeaderNext,
         Scalar, Length, LongAggregate, TrailNext, Parsing, Insufficient, ItemEnds, KeyEnds,
         ValueEnds, Succeeds, Consuming, vars
    <3> QED BY <1>2, <3>1, <3>2, <3>3
  <2>2. CASE UNCHANGED vars
    BY <1>2, <2>2 DEF Begins, Announced, Alone, vars, scan, stacks, heap
  <2> QED BY <2>1, <2>2
<1> QED BY <1>1, <1>2 DEF Breaking, Cut

\* Of an integer that was cut off, wherever it was, nothing is made: unpack
\* throws insufficient_bytes.
THEOREM CutNumbersRefused ==
    Spec => [](\A d \in Wide : Cut(PackInt(d)) /\ result # "none" => result = "insufficient_bytes")
<1>1. Init => Breaking
  BY UnpackAssumption DEF Init, Breaking, Begins, Alone
<1>2. Breaking => \A d \in Wide : Cut(PackInt(d)) /\ result # "none" => result = "insufficient_bytes"
  BY DEF Breaking, Begins, Announced
<1> QED BY <1>1, <1>2, BreakingNext, PTL DEF Spec

-----------------------------------------------------------------------------
(* Strings: their length is sent before them, in the selector or in one or *)
(* two bytes behind it.                                                    *)

\* The strings whose length stub::pack is modelled for, and what is sent.
Strings == {v \in Seq(Byte) : Len(v) < 65536}

PackedStr(v) == PackStr(Len(v)) \o v

LEMMA LoadedOne == ASSUME NEW a \in Byte PROVE Loaded(<<a>>) = a
<1> DEFINE b == <<a>>
           f == CHOOSE f : Adds(f, b)
<1>1. Len(b) = 1 /\ b[1] = a /\ a \in Nat
  BY DEF Byte
<1>2. Loaded(b) = f[1]
  BY <1>1 DEF Loaded, Adds
<1> HIDE DEF b
<1>3. Adds(f, b)
  BY <1>1, LoadedExists
<1> HIDE DEF f
<1>4. \A i \in 0..1 : f[i] = IF i = 0 THEN 0 ELSE 256 * f[i - 1] + b[i]
  BY <1>1, <1>3 DEF Adds
<1>5. f[0] = 0
  BY <1>4
<1>6. f[1] = 256 * f[0] + a
  BY <1>1, <1>4
<1> QED BY <1>1, <1>2, <1>5, <1>6 DEF b

LEMMA LoadedTwo == ASSUME NEW hi \in Byte, NEW lo \in Byte PROVE Loaded(<<hi, lo>>) = 256 * hi + lo
<1> DEFINE b == <<hi, lo>>
           f == CHOOSE f : Adds(f, b)
<1>1. Len(b) = 2 /\ b[1] = hi /\ b[2] = lo /\ hi \in Nat /\ lo \in Nat
  BY DEF Byte
<1>2. Loaded(b) = f[2]
  BY <1>1 DEF Loaded, Adds
<1> HIDE DEF b
<1>3. \A i \in 1..2 : b[i] \in Nat
  BY <1>1
<1>4. Adds(f, b)
  BY <1>1, <1>3, LoadedExists
<1> HIDE DEF f
<1>5. \A i \in 0..2 : f[i] = IF i = 0 THEN 0 ELSE 256 * f[i - 1] + b[i]
  BY <1>1, <1>4 DEF Adds
<1>6. f[0] = 0
  BY <1>5
<1>7. f[1] = 256 * f[0] + hi
  BY <1>1, <1>5
<1>8. f[2] = 256 * f[1] + lo
  BY <1>1, <1>5
<1> QED BY <1>1, <1>2, <1>6, <1>7, <1>8 DEF b

\* A length that was stored is loaded again.
LEMMA Halves ==
    ASSUME NEW n \in Nat, n < 65536
    PROVE  /\ (n \div 256) % 256 \in 0..255 /\ n % 256 \in 0..255
           /\ 256 * ((n \div 256) % 256) + (n % 256) = n
<1>1. n \div 256 \in 0..255 /\ n % 256 \in 0..255 /\ (n \div 256) % 256 = n \div 256
  OBVIOUS
<1>2. n = 256 * (n \div 256) + (n % 256)
  OBVIOUS
<1> QED BY <1>1, <1>2

LEMMA SubSeqTwo ==
    ASSUME NEW w \in Seq(Byte), Len(w) = 6
    PROVE  /\ SubSeq(w, 5, 6) \in Seq(Byte) /\ Len(SubSeq(w, 5, 6)) = 2
           /\ SubSeq(w, 5, 6)[1] = w[5] /\ SubSeq(w, 5, 6)[2] = w[6]
<1>1. SubSeq(w, 5, 6) \in Seq(Byte) /\ Len(SubSeq(w, 5, 6)) = 2
  <2>1. w[5] \in Byte /\ w[6] \in Byte
    <3>1. 5 \in 1..Len(w) /\ 6 \in 1..Len(w)
      OBVIOUS
    <3> QED BY <3>1, ElementOfSeq
  <2>2. \A i \in 5..6 : w[i] \in Byte
    BY <2>1
  <2>3. Len(SubSeq(w, 5, 6)) = 2
    OBVIOUS
  <2> QED BY <2>2, <2>3, SubSeqProperties
<1>2. SubSeq(w, 5, 6)[1] = w[5] /\ SubSeq(w, 5, 6)[2] = w[6]
  OBVIOUS
<1> QED BY <1>1, <1>2

LEMMA LastTwo ==
    ASSUME NEW z \in Seq(Byte), Len(z) = 4, NEW b \in Seq(Byte), Len(b) = 2
    PROVE  SubSeq(z \o b, 5, 6) = b
<1> DEFINE w == z \o b
           s == SubSeq(w, 5, 6)
<1>1. w \in Seq(Byte) /\ Len(w) = Len(z) + Len(b)
  BY ConcatProperties
<1>2. \A i \in 1..Len(z) + Len(b) : w[i] = IF i <= Len(z) THEN z[i] ELSE b[i - Len(z)]
  BY ConcatProperties
<1> HIDE DEF w
<1>3. w[5] = b[1] /\ w[6] = b[2] /\ Len(w) = 6
  BY <1>1, <1>2
<1>4. s \in Seq(Byte) /\ Len(s) = 2 /\ s[1] = w[5] /\ s[2] = w[6]
  BY <1>1, <1>3, SubSeqTwo
<1> HIDE DEF s
<1>5. \A i \in 1..Len(s) : s[i] = b[i]
  <2> SUFFICES ASSUME NEW i \in 1..Len(s) PROVE s[i] = b[i]
    OBVIOUS
  <2>1. i = 1 \/ i = 2
    BY <1>4
  <2> QED BY <1>3, <1>4, <2>1
<1>6. s = b
  BY <1>4, <1>5, SeqEqual
<1> QED BY <1>6 DEF s, w

LEMMA StoreTwo ==
    ASSUME NEW n \in Nat, n < 65536
    PROVE  /\ Store(2, n) \in Seq(Byte) /\ Len(Store(2, n)) = 2
           /\ Loaded(Store(2, n)) = n
<1> DEFINE hi == (n \div 256) % 256
           lo == n % 256
<1>1. hi \in Byte /\ lo \in Byte /\ 256 * hi + lo = n
  BY Halves DEF Byte
<1>2. Store(2, n) = SubSeq(<<0, 0, 0, 0>> \o <<hi, lo>>, 5, 6)
  BY DEF Store, Of
<1> HIDE DEF hi, lo
<1>3. <<0, 0, 0, 0>> \in Seq(Byte) /\ Len(<<0, 0, 0, 0>>) = 4
  BY DEF Byte
<1>4. <<hi, lo>> \in Seq(Byte) /\ Len(<<hi, lo>>) = 2
  BY <1>1
<1>5. Store(2, n) = <<hi, lo>>
  BY <1>2, <1>3, <1>4, LastTwo
<1>6. Loaded(<<hi, lo>>) = n
  BY <1>1, LoadedTwo
<1> QED BY <1>4, <1>5, <1>6

\* The bytes before a string: one that holds the length, ...
ShortHead(n) == n < 32 /\ PackStr(n) = <<160 + n>>

\* ... or a selector, and the length s in j bytes.
LongHead(n, j, s) ==
    /\ n >= 32
    /\ PackStr(n) = <<216 + j>> \o s
    /\ s \in Seq(Byte) /\ Len(s) = j /\ Loaded(s) = n

LEMMA StrHead ==
    ASSUME NEW n \in Nat, n < 65536
    PROVE  ShortHead(n) \/ \E j \in 1..2, s \in Seq(Byte) : LongHead(n, j, s)
<1>1. CASE n < 32
  BY <1>1 DEF PackStr, ShortHead
<1>2. CASE n >= 32 /\ n < 256
  <2>1. n \in Byte /\ PackStr(n) = <<217, n>>
    BY <1>2 DEF PackStr, Byte
  <2> DEFINE s == <<n>>
  <2>2. <<217, n>> = <<217>> \o s
    BY <2>1
  <2>3. s \in Seq(Byte) /\ Len(s) = 1 /\ Loaded(s) = n
    BY <2>1, LoadedOne
  <2> HIDE DEF s
  <2>4. LongHead(n, 1, s)
    BY <1>2, <2>1, <2>2, <2>3 DEF LongHead
  <2>5. 1 \in 1..2
    OBVIOUS
  <2> QED BY <2>3, <2>4, <2>5
<1>3. CASE n >= 256
  <2>1. PackStr(n) = <<218>> \o Store(2, n)
    BY <1>3 DEF PackStr
  <2>2. LongHead(n, 2, Store(2, n))
    BY <1>3, <2>1, StoreTwo DEF LongHead
  <2> QED BY <2>2, StoreTwo
<1>4. n < 32 \/ (n >= 32 /\ n < 256) \/ n >= 256
  OBVIOUS
<1> QED BY <1>1, <1>2, <1>3, <1>4

\* The object that a string is read as.
StrObject(v) == [type |-> "STR", bytes |-> v]

\* From the byte o on, the payload is p.
Holds(o, p) == o + Len(p) <= Len(data) /\ \A i \in 1..Len(p) : data[o + i] = p[i]

\* The selector at o is next, ...
StrStarts(o) == result = "none" /\ ~consuming /\ pos = o /\ cs = Header

\* ... it was read and announced the length, ...
LengthDue(o, v, j, s) ==
    /\ result = "none" /\ ~consuming /\ pos = o
    /\ cs = 24 + j /\ trail = j /\ again
    /\ LongHead(Len(v), j, s)

\* ... the length is known, ...
BodyDue(o, v) ==
    /\ result = "none" /\ ~consuming /\ pos = o + Len(PackStr(Len(v))) - 1
    /\ cs = StrValue /\ trail = Len(v) /\ again
    /\ Len(v) > 0

StrBegun(o, v) ==
    \/ StrStarts(o)
    \/ \E j \in 1..2, s \in Seq(Byte) : LengthDue(o, v, j, s)
    \/ BodyDue(o, v)

\* ... and a step completes the object, where the visitor points.
StrEnds(o, v) ==
    /\ Write(StrObject(v))
    /\ result' = "none" /\ consuming' /\ pos' = o + Len(PackedStr(v)) - 1
    /\ UNCHANGED stacks

LEMMA ShortType ==
    ASSUME NEW n \in Nat, ShortHead(n)
    PROVE  PackStr(n) \in Seq(Byte) /\ Len(PackStr(n)) = 1 /\ PackStr(n)[1] = 160 + n
<1>1. 160 + n \in Byte
  BY DEF ShortHead, Byte
<1> QED BY <1>1 DEF ShortHead

LEMMA LongType ==
    ASSUME NEW n \in Nat, NEW j \in 1..2, NEW s \in Seq(Byte), LongHead(n, j, s)
    PROVE  /\ PackStr(n) \in Seq(Byte) /\ Len(PackStr(n)) = j + 1 /\ PackStr(n)[1] = 216 + j
           /\ \A i \in 1..j : PackStr(n)[i + 1] = s[i]
<1> DEFINE h == <<216 + j>>
<1>1. h \in Seq(Byte) /\ Len(h) = 1 /\ h[1] = 216 + j
  BY DEF Byte
<1>2. PackStr(n) = h \o s /\ Len(s) = j
  BY DEF LongHead
<1> HIDE DEF h
<1>3. /\ h \o s \in Seq(Byte) /\ Len(h \o s) = Len(h) + Len(s)
      /\ \A i \in 1..Len(h) + Len(s) : (h \o s)[i] = IF i <= Len(h) THEN h[i] ELSE s[i - Len(h)]
  BY <1>1, ConcatProperties
<1> QED BY <1>1, <1>2, <1>3

LEMMA PackedStrType ==
    ASSUME NEW v \in Strings
    PROVE  /\ PackStr(Len(v)) \in Seq(Byte) /\ Len(PackStr(Len(v))) > 0
           /\ PackedStr(v) \in Seq(Byte) /\ Len(PackedStr(v)) = Len(PackStr(Len(v))) + Len(v)
           /\ \A i \in 1..Len(PackStr(Len(v))) : PackedStr(v)[i] = PackStr(Len(v))[i]
           /\ \A i \in 1..Len(v) : PackedStr(v)[Len(PackStr(Len(v))) + i] = v[i]
<1> DEFINE h == PackStr(Len(v))
<1>1. v \in Seq(Byte) /\ Len(v) \in Nat /\ Len(v) < 65536
  BY DEF Strings
<1>2. h \in Seq(Byte) /\ Len(h) > 0
  <2>1. CASE ShortHead(Len(v))
    BY <1>1, <2>1, ShortType
  <2>2. ASSUME NEW j \in 1..2, NEW s \in Seq(Byte), LongHead(Len(v), j, s)
        PROVE  h \in Seq(Byte) /\ Len(h) > 0
    BY <1>1, <2>2, LongType
  <2> QED BY <1>1, <2>1, <2>2, StrHead
<1> HIDE DEF h
<1>3. /\ h \o v \in Seq(Byte) /\ Len(h \o v) = Len(h) + Len(v)
      /\ \A i \in 1..Len(h) + Len(v) : (h \o v)[i] = IF i <= Len(h) THEN h[i] ELSE v[i - Len(h)]
  BY <1>1, <1>2, ConcatProperties
<1>4. \A i \in 1..Len(h) : (h \o v)[i] = h[i]
  BY <1>1, <1>2, <1>3
<1>5. \A i \in 1..Len(v) : (h \o v)[Len(h) + i] = v[i]
  BY <1>1, <1>2, <1>3
<1>6. PackedStr(v) = h \o v
  BY DEF PackedStr, h
<1> QED BY <1>2, <1>3, <1>4, <1>5, <1>6 DEF h

LEMMA TrailIs ==
    ASSUME NEW t \in Seq(Byte), data \in Seq(Byte), From \in Nat, trail = Len(t),
           From + Len(t) <= Len(data), \A i \in 1..Len(t) : data[From + i] = t[i]
    PROVE  Arrived /\ TrailBytes = t
<1> DEFINE b == SubSeq(data, From + 1, From + Len(t))
<1>1. Len(data) \in Nat /\ Len(t) \in Nat
  OBVIOUS
<1>2. Arrived
  BY <1>1 DEF Arrived
<1>3. b \in Seq(Byte) /\ Len(b) = Len(t) /\ \A i \in 1..Len(t) : b[i] = data[From + i]
  <2> HIDE DEF From
  <2> QED BY <1>1
<1>4. b = t
  <2> HIDE DEF b
  <2> QED BY <1>3, SeqEqual
<1> QED BY <1>2, <1>4 DEF TrailBytes

LEMMA FixStrApart == \A n \in 161..191 : ~(n \in 196..223)
OBVIOUS

LEMMA StrBeginsNext ==
    ASSUME NEW v \in Strings, NEW o \in Nat, data \in Seq(Byte), Len(data) > o,
           data[o + 1] = PackedStr(v)[1], StrStarts(o), Next
    PROVE  \/ UNCHANGED <<stacks, heap>> /\ \E j \in 1..2, s \in Seq(Byte) : LengthDue(o, v, j, s)'
           \/ UNCHANGED <<stacks, heap>> /\ BodyDue(o, v)'
           \/ Len(PackedStr(v)) = 1 /\ StrEnds(o, v)
<1>1. v \in Seq(Byte) /\ Len(v) \in Nat /\ Len(v) < 65536
  BY DEF Strings
<1>2. Len(data) \in Nat /\ Selector = PackStr(Len(v))[1]
  BY PackedStrType DEF StrStarts, Selector, At
<1>3. Single \/ FixAggregate \/ Announces \/ Unknown
  BY <1>2, HeaderSteps DEF StrStarts
<1>4. CASE ShortHead(Len(v))
  <2>1. Len(v) < 32 /\ Selector = 160 + Len(v) /\ Len(PackStr(Len(v))) = 1
    BY <1>1, <1>2, <1>4, ShortType DEF ShortHead
  <2>2. CASE Len(v) = 0
    <3>1. v = <<>> /\ Selector = 160
      BY <1>1, <2>1, <2>2
    <3>2. Single /\ VisitBytes("STR", <<>>)
      <4>1. ~FixAggregate /\ ~Announces /\ ~Unknown
        BY <3>1 DEF FixAggregate, Announces, Unknown
      <4>2. Single
        BY <1>3, <4>1
      <4> QED BY <3>1, <4>2 DEF Single
    <3>3. Write(StrObject(v))
      <4>1. Write([type |-> "STR", bytes |-> v])
        BY <3>1, <3>2 DEF VisitBytes
      <4> QED BY <4>1 DEF StrObject
    <3>4. result' = "none" /\ consuming' /\ pos' = o /\ UNCHANGED stacks
      BY <3>2 DEF Single, VisitBytes, StrStarts
    <3>5. Len(PackedStr(v)) = 1
      BY <2>1, <2>2, PackedStrType
    <3> QED BY <3>3, <3>4, <3>5 DEF StrEnds
  <2>3. CASE Len(v) > 0
    <3>1. Selector \in 161..191
      <4>1. \A n \in Nat : n > 0 /\ n < 32 => 160 + n \in 161..191
        OBVIOUS
      <4>2. Len(v) \in Nat /\ Len(v) > 0 /\ Len(v) < 32
        BY <1>1, <2>1, <2>3
      <4>3. 160 + Len(v) \in 161..191
        BY <4>1, <4>2
      <4> QED BY <2>1, <4>3
    <3>2. Announces
      <4>1. ~FixAggregate /\ ~Unknown
        BY <3>1 DEF FixAggregate, Unknown
      <4>2. ~Single
        BY <3>1 DEF Single
      <4> QED BY <1>3, <4>1, <4>2
    <3>3. cs' = StrValue /\ trail' = Selector - 160
      <4>1. ~(Selector \in 196..223)
        BY <3>1, FixStrApart
      <4> QED BY <3>1, <3>2, <4>1 DEF Announces
    <3>4. trail' = Len(v)
      BY <1>1, <2>1, <3>3
    <3>5. result' = "none" /\ ~consuming' /\ pos' = o /\ again' /\ UNCHANGED <<stacks, heap>>
      BY <3>2 DEF Announces, StrStarts
    <3>6. BodyDue(o, v)'
      BY <2>1, <2>3, <3>3, <3>4, <3>5 DEF BodyDue
    <3> QED BY <3>5, <3>6
  <2> QED BY <1>1, <2>2, <2>3
<1>5. ASSUME NEW j \in 1..2, NEW s \in Seq(Byte), LongHead(Len(v), j, s)
      PROVE  UNCHANGED <<stacks, heap>> /\ LengthDue(o, v, j, s)'
  <2>1. Selector = 216 + j
    BY <1>1, <1>2, <1>5, LongType
  <2>2. Announces
    <3>1. Selector \in 217..218
      BY <2>1
    <3>2. ~FixAggregate /\ ~Unknown
      BY <3>1 DEF FixAggregate, Unknown
    <3>3. ~Single
      BY <3>1 DEF Single
    <3> QED BY <1>3, <3>2, <3>3
  <2>3. cs' = 24 + j /\ trail' = j
    <3>1. cs' = Selector % 32 /\ trail' = Trails[Selector - 195]
      BY <2>1, <2>2 DEF Announces
    <3>2. Trails[22] = 1 /\ Trails[23] = 2
      BY DEF Trails
    <3>3. j = 1 \/ j = 2
      OBVIOUS
    <3>4. CASE j = 1
      BY <2>1, <3>1, <3>2, <3>4
    <3>5. CASE j = 2
      BY <2>1, <3>1, <3>2, <3>5
    <3> QED BY <3>3, <3>4, <3>5
  <2>4. result' = "none" /\ ~consuming' /\ pos' = o /\ again' /\ UNCHANGED <<stacks, heap>>
    BY <2>2 DEF Announces, StrStarts
  <2> QED BY <1>5, <2>3, <2>4 DEF LengthDue
<1> QED BY <1>1, <1>4, <1>5, StrHead

\* With a trail that is awaited, the parser takes it or gives up.
LEMMA TrailSteps ==
    ASSUME Next, result = "none", ~consuming, cs # Header
    PROVE  IF Arrived THEN Scalar \/ Length \/ LongAggregate ELSE Insufficient
BY DEF Next, Terminated, Single, FixAggregate, Announces, Unknown, HeaderNext, Scalar, Length,
   LongAggregate, TrailNext, Insufficient, ItemEnds, KeyEnds, ValueEnds, Succeeds, Consuming

LEMMA LengthDueNext ==
    ASSUME NEW v \in Strings, NEW o \in Nat, NEW j \in 1..2, NEW s \in Seq(Byte),
           LengthDue(o, v, j, s), data \in Seq(Byte), Len(data) > o + j,
           \A i \in 1..j : data[o + (i + 1)] = PackedStr(v)[i + 1], Next
    PROVE  BodyDue(o, v)' /\ UNCHANGED <<stacks, heap>>
<1>1. Len(v) \in Nat /\ Len(data) \in Nat
  BY DEF Strings
<1>2. /\ Len(PackStr(Len(v))) = j + 1 /\ \A i \in 1..j : PackStr(Len(v))[i + 1] = s[i]
      /\ Len(s) = j /\ Loaded(s) = Len(v) /\ Len(v) >= 32
  BY <1>1, LongType DEF LengthDue, LongHead
<1>3. \A i \in 1..j : data[(o + 1) + i] = s[i]
  <2> SUFFICES ASSUME NEW i \in 1..j PROVE data[(o + 1) + i] = s[i]
    OBVIOUS
  <2>1. i + 1 \in 1..Len(PackStr(Len(v))) /\ (o + 1) + i = o + (i + 1)
    BY <1>2
  <2> QED BY <1>2, <2>1, PackedStrType
<1>4. From = o + 1
  BY DEF From, LengthDue
<1>5. Arrived /\ TrailBytes = s
  BY <1>1, <1>2, <1>3, <1>4, TrailIs DEF LengthDue
<1>6. Length
  <2>1. cs \in 25..26
    BY DEF LengthDue
  <2>2. ~Scalar /\ ~LongAggregate
    BY <2>1 DEF Scalar, LongAggregate, BodyOf, StrValue, ExtValue
  <2> QED BY <1>5, <2>1, <2>2, TrailSteps DEF LengthDue, Header
<1>7. cs \in 25..26 /\ trail = j
  BY DEF LengthDue
<1>8. /\ trail' = Len(v) /\ pos' = o + j /\ again'
      /\ cs' = CHOOSE c \in DOMAIN BodyOf : BodyOf[c] = "STR"
      /\ UNCHANGED <<consuming, stacks, heap, result>>
  <2>1. ~(cs \in 4..6) /\ ~(cs \in 7..9)
    BY <1>7
  <2>2. Loaded(TrailBytes) + 0 = Len(v) /\ Len(v) # 0
    BY <1>1, <1>2, <1>5
  <2>3. From + trail - 1 = o + j
    BY <1>4, <1>7
  <2> QED BY <1>6, <2>1, <2>2, <2>3 DEF Length
<1>9. cs' = StrValue
  BY <1>8 DEF BodyOf, StrValue, BinValue, ExtValue
<1>10. j = 1 \/ j = 2
  OBVIOUS
<1>11. pos' = o + Len(PackStr(Len(v))) - 1
  BY <1>2, <1>8, <1>10
<1>12. trail' = Len(v) /\ Len(v) > 0
  BY <1>1, <1>2, <1>8
<1> QED BY <1>8, <1>9, <1>11, <1>12 DEF LengthDue, BodyDue

LEMMA BodyDueNext ==
    ASSUME NEW v \in Strings, NEW o \in Nat, BodyDue(o, v), data \in Seq(Byte),
           Holds(o, PackedStr(v)), Next
    PROVE  StrEnds(o, v)
<1> DEFINE h == Len(PackStr(Len(v)))
<1>1. v \in Seq(Byte) /\ Len(v) \in Nat /\ Len(data) \in Nat
  BY DEF Strings
<1>2. /\ h \in Nat /\ h > 0 /\ Len(PackedStr(v)) = h + Len(v)
      /\ \A i \in 1..Len(v) : PackedStr(v)[h + i] = v[i]
      /\ PackedStr(v) \in Seq(Byte)
  BY PackedStrType
<1>3. From = o + h /\ trail = Len(v) /\ cs = StrValue
  BY <1>2 DEF BodyDue, From
<1> HIDE DEF h
<1>4. \A i \in 1..Len(v) : data[(o + h) + i] = v[i]
  <2> SUFFICES ASSUME NEW i \in 1..Len(v) PROVE data[(o + h) + i] = v[i]
    OBVIOUS
  <2>1. h + i \in 1..Len(PackedStr(v)) /\ (o + h) + i = o + (h + i)
    BY <1>1, <1>2
  <2> QED BY <1>2, <2>1 DEF Holds
<1>5. Arrived /\ TrailBytes = v
  BY <1>1, <1>2, <1>3, <1>4, TrailIs DEF Holds
<1>6. Scalar
  <2>1. ~Length /\ ~LongAggregate
    BY <1>3 DEF Length, LongAggregate, StrValue
  <2> QED BY <1>3, <1>5, <2>1, TrailSteps DEF BodyDue, StrValue, Header
<1>7. VisitBytes("STR", v) /\ pos' = o + h + Len(v) - 1
  <2>1. cs = 32
    BY <1>3 DEF StrValue
  <2>2. VisitBytes(BodyOf[cs], TrailBytes)
    BY <1>6, <2>1 DEF Scalar
  <2>3. BodyOf[cs] = "STR"
    BY <1>3 DEF BodyOf, StrValue, ExtValue
  <2> QED BY <1>3, <1>5, <1>6, <2>2, <2>3 DEF Scalar
<1>8. Write(StrObject(v))
  BY <1>7 DEF VisitBytes, StrObject
<1>9. result' = "none" /\ consuming' /\ UNCHANGED stacks
  BY <1>7 DEF VisitBytes, BodyDue
<1> QED BY <1>1, <1>2, <1>7, <1>8, <1>9 DEF StrEnds

\* A string anywhere in a payload.
LEMMA StrNext ==
    ASSUME NEW v \in Strings, NEW o \in Nat, data \in Seq(Byte), Holds(o, PackedStr(v)),
           StrBegun(o, v), Next
    PROVE  StrEnds(o, v) \/ (StrBegun(o, v)' /\ UNCHANGED <<stacks, heap>>)
<1>1. /\ Len(PackedStr(v)) \in Nat /\ Len(PackedStr(v)) > 0 /\ Len(data) \in Nat
      /\ Len(data) >= o + Len(PackedStr(v))
  <2>1. Len(v) \in Nat
    BY DEF Strings
  <2> QED BY <2>1, PackedStrType DEF Holds
<1>2. CASE StrStarts(o)
  <2>1. Len(data) > o /\ data[o + 1] = PackedStr(v)[1]
    BY <1>1 DEF Holds
  <2> QED BY <1>2, <2>1, StrBeginsNext DEF StrBegun
<1>3. ASSUME NEW j \in 1..2, NEW s \in Seq(Byte), LengthDue(o, v, j, s)
      PROVE  BodyDue(o, v)' /\ UNCHANGED <<stacks, heap>>
  <2>1. Len(v) \in Nat
    BY DEF Strings
  <2>2. Len(PackStr(Len(v))) = j + 1
    BY <1>3, <2>1, LongType DEF LengthDue
  <2>3. Len(PackedStr(v)) = j + 1 + Len(v)
    BY <2>2, PackedStrType
  <2>4. Len(data) > o + j /\ \A i \in 1..j : data[o + (i + 1)] = PackedStr(v)[i + 1]
    BY <1>1, <2>1, <2>3 DEF Holds
  <2> QED BY <1>3, <2>4, LengthDueNext
<1>4. CASE BodyDue(o, v)
  BY <1>4, BodyDueNext
<1> QED BY <1>2, <1>3, <1>4 DEF StrBegun

LEMMA Ended ==
    ASSUME Next, result # "none"
    PROVE  UNCHANGED vars
BY DEF Next, Terminated, Single, FixAggregate, Announces, Unknown, HeaderNext, Scalar,
   Length, LongAggregate, TrailNext, Parsing, Insufficient, ItemEnds, KeyEnds, ValueEnds,
   Succeeds, Consuming

LEMMA StrStutters ==
    ASSUME NEW o, NEW v, UNCHANGED vars, StrBegun(o, v)
    PROVE  StrBegun(o, v)'
BY DEF StrBegun, StrStarts, LengthDue, BodyDue, vars, scan

\* The object is complete, ...
StrRead(v) ==
    /\ result = "none" /\ consuming /\ Alone
    /\ memory[Root] = StrObject(v)
    /\ pos = Len(PackedStr(v)) - 1

\* ... and given to the caller.
StrGiven(v) ==
    /\ result = "success"
    /\ memory[Root] = StrObject(v)
    /\ pos = Len(PackedStr(v))

LEMMA StrReadNext ==
    ASSUME NEW v \in Strings, StrRead(v), Next
    PROVE  StrGiven(v)'
<1>1. Succeeds
  BY DEF Next, StrRead, Alone, Terminated, Single, FixAggregate, Announces, Unknown, HeaderNext,
     Scalar, Length, LongAggregate, TrailNext, Parsing, Insufficient, ItemEnds, KeyEnds,
     ValueEnds, Consuming
<1>2. Len(PackedStr(v)) \in Nat
  BY PackedStrType
<1> QED BY <1>1, <1>2 DEF Succeeds, Proceed, StrRead, StrGiven, heap

StrProgress(v) == (Alone /\ StrBegun(0, v)) \/ StrRead(v) \/ StrGiven(v)

StrProgressing ==
    data \in Seq(Byte) /\ \A v \in Strings : Carries(PackedStr(v)) => StrProgress(v)

LEMMA CarriesHolds ==
    ASSUME NEW p \in Seq(Byte), Carries(p), data \in Seq(Byte)
    PROVE  Holds(0, p)
<1>1. 0 + Len(p) <= Len(data)
  BY DEF Carries
<1>2. \A i \in 1..Len(p) : data[0 + i] = p[i]
  BY CarriesBytes
<1> QED BY <1>1, <1>2 DEF Holds

LEMMA StrProgressingNext == StrProgressing /\ [Next]_vars => StrProgressing'
<1> SUFFICES ASSUME StrProgressing, [Next]_vars PROVE StrProgressing'
  OBVIOUS
<1>1. data' = data /\ data \in Seq(Byte)
  BY DataStays DEF StrProgressing
<1>2. ASSUME NEW v \in Strings, Carries(PackedStr(v)), StrProgress(v), Next
      PROVE  StrProgress(v)'
  <2>1. CASE Alone /\ StrBegun(0, v)
    <3>1. Holds(0, PackedStr(v))
      BY <1>1, <1>2, PackedStrType, CarriesHolds
    <3>2. StrEnds(0, v) \/ (StrBegun(0, v)' /\ UNCHANGED <<stacks, heap>>)
      BY <1>1, <1>2, <2>1, <3>1, StrNext
    <3>3. CASE StrEnds(0, v)
      <4>1. memory'[Root] = StrObject(v)
        BY <2>1, <3>3, VisitRoot DEF StrEnds
      <4>2. pos' = Len(PackedStr(v)) - 1
        BY <3>3, PackedStrType DEF StrEnds
      <4> QED BY <2>1, <3>3, <4>1, <4>2 DEF StrEnds, StrProgress, StrRead, Alone, stacks
    <3>4. CASE StrBegun(0, v)' /\ UNCHANGED <<stacks, heap>>
      BY <2>1, <3>4 DEF StrProgress, Alone, stacks
    <3> QED BY <3>2, <3>3, <3>4
  <2>2. CASE StrRead(v)
    BY <1>2, <2>2, StrReadNext DEF StrProgress
  <2>3. CASE StrGiven(v)
    <3>1. UNCHANGED vars
      BY <1>2, <2>3, Ended DEF StrGiven
    <3> QED BY <2>3, <3>1 DEF StrProgress, StrGiven, vars, scan, heap
  <2> QED BY <1>2, <2>1, <2>2, <2>3 DEF StrProgress
<1>3. ASSUME NEW v \in Strings, StrProgress(v), UNCHANGED vars
      PROVE  StrProgress(v)'
  BY <1>3, StrStutters DEF StrProgress, StrRead, StrGiven, Alone, vars, scan, stacks, heap
<1> QED BY <1>1, <1>2, <1>3 DEF StrProgressing, Carries

StrBreaking ==
    /\ data \in Seq(Byte)
    /\ \A v \in Strings : Cut(PackedStr(v)) => StrBegun(0, v) \/ result = "insufficient_bytes"

LEMMA StrBreakingNext == StrBreaking /\ [Next]_vars => StrBreaking'
<1> SUFFICES ASSUME StrBreaking, [Next]_vars PROVE StrBreaking'
  OBVIOUS
<1>1. data' = data /\ data \in Seq(Byte) /\ Len(data) \in Nat
  BY DataStays DEF StrBreaking
<1>2. ASSUME NEW v \in Strings, Cut(PackedStr(v)), StrBegun(0, v), Next
      PROVE  StrBegun(0, v)' \/ result' = "insufficient_bytes"
  <2>1. /\ PackedStr(v) \in Seq(Byte) /\ Len(data) < Len(PackedStr(v))
        /\ \A i \in 1..Len(data) : data[i] = PackedStr(v)[i]
    <3>1. PackedStr(v) \in Seq(Byte)
      BY PackedStrType
    <3> QED BY <1>1, <1>2, <3>1 DEF Cut
  <2>2. CASE StrStarts(0) /\ Len(data) = 0
    <3>1. Insufficient
      BY <1>2, <2>2 DEF StrStarts, Next, Terminated, Single, FixAggregate, Announces, Unknown,
         HeaderNext, Scalar, Length, LongAggregate, TrailNext, ItemEnds, KeyEnds, ValueEnds,
         Succeeds, Consuming
    <3> QED BY <3>1 DEF Insufficient
  <2>3. CASE StrStarts(0) /\ Len(data) > 0
    <3>1. data[0 + 1] = PackedStr(v)[1]
      BY <1>1, <2>1, <2>3
    <3>2. Len(PackedStr(v)) # 1
      BY <1>1, <2>1, <2>3
    <3> QED BY <1>1, <1>2, <2>3, <3>1, <3>2, StrBeginsNext DEF StrBegun
  <2>4. ASSUME NEW j \in 1..2, NEW s \in Seq(Byte), LengthDue(0, v, j, s)
        PROVE  BodyDue(0, v)' \/ result' = "insufficient_bytes"
    <3>1. CASE Len(data) > j
      <4>1. Len(data) > 0 + j /\ \A i \in 1..j : data[0 + (i + 1)] = PackedStr(v)[i + 1]
        BY <1>1, <2>1, <3>1
      <4> QED BY <1>1, <1>2, <2>4, <4>1, LengthDueNext
    <3>2. CASE Len(data) <= j
      <4>1. ~Arrived
        BY <1>1, <2>4, <3>2 DEF LengthDue, Arrived, From
      <4>2. Insufficient
        BY <1>2, <2>4, <4>1, TrailSteps DEF LengthDue, Header
      <4> QED BY <4>2 DEF Insufficient
    <3> QED BY <1>1, <3>1, <3>2
  <2>5. CASE BodyDue(0, v)
    <3>1. /\ Len(v) \in Nat /\ Len(PackStr(Len(v))) \in Nat
          /\ Len(PackedStr(v)) = Len(PackStr(Len(v))) + Len(v)
      BY PackedStrType DEF Strings
    <3>2. From = Len(PackStr(Len(v))) /\ trail = Len(v)
      BY <2>5, <3>1 DEF BodyDue, From
    <3>3. ~Arrived
      BY <1>1, <2>1, <3>1, <3>2 DEF Arrived
    <3>4. Insufficient
      BY <1>2, <2>5, <3>3, TrailSteps DEF BodyDue, StrValue, Header
    <3> QED BY <3>4 DEF Insufficient
  <2>6. StrStarts(0) => Len(data) = 0 \/ Len(data) > 0
    BY <1>1
  <2> QED BY <1>2, <2>2, <2>3, <2>4, <2>5, <2>6 DEF StrBegun
<1>3. ASSUME result = "insufficient_bytes", Next
      PROVE  result' = "insufficient_bytes"
  <2>1. UNCHANGED vars
    BY <1>3, Ended
  <2> QED BY <1>3, <2>1 DEF vars
<1>4. ASSUME NEW v \in Strings, StrBegun(0, v) \/ result = "insufficient_bytes", UNCHANGED vars
      PROVE  StrBegun(0, v)' \/ result' = "insufficient_bytes"
  BY <1>4, StrStutters DEF vars
<1> QED BY <1>1, <1>2, <1>3, <1>4 DEF StrBreaking, Cut

\* A string of up to 2^16 - 1 bytes that was packed is read back as it was,
\* whatever follows it, and no byte behind it.
THEOREM StringsArrive ==
    Spec => [](\A v \in Strings : Carries(PackedStr(v)) /\ result # "none" =>
                  /\ result = "success"
                  /\ memory[Root] = StrObject(v)
                  /\ pos = Len(PackedStr(v)))
<1>1. Init => StrProgressing
  BY UnpackAssumption DEF Init, StrProgressing, StrProgress, StrBegun, StrStarts, Alone
<1>2. StrProgressing => \A v \in Strings : Carries(PackedStr(v)) /\ result # "none" =>
                           /\ result = "success"
                           /\ memory[Root] = StrObject(v)
                           /\ pos = Len(PackedStr(v))
  BY DEF StrProgressing, StrProgress, StrBegun, StrStarts, LengthDue, BodyDue, StrRead, StrGiven
<1> QED BY <1>1, <1>2, StrProgressingNext, PTL DEF Spec

\* Of a string that was cut off, in its length or in its bytes, nothing is
\* made: unpack throws insufficient_bytes.
THEOREM CutStringsRefused ==
    Spec => [](\A v \in Strings : Cut(PackedStr(v)) /\ result # "none" =>
                  result = "insufficient_bytes")
<1>1. Init => StrBreaking
  BY UnpackAssumption DEF Init, StrBreaking, StrBegun, StrStarts
<1>2. StrBreaking => \A v \in Strings : Cut(PackedStr(v)) /\ result # "none" =>
                        result = "insufficient_bytes"
  BY DEF StrBreaking, StrBegun, StrStarts, LengthDue, BodyDue
<1> QED BY <1>1, <1>2, StrBreakingNext, PTL DEF Spec

-----------------------------------------------------------------------------
(* What an array starts with.  A request is an array of a name and the     *)
(* arguments, and the dispatcher looks up its first item (stub::unpack as  *)
(* std::tuple<std::string>) whatever the arguments are; a response is an   *)
(* array of its value alone.                                               *)

\* What starts with a string: the name in a request, the value in a response.
Led(n, v) == PackArray(n) \o PackedStr(v)

LEMMA LedType ==
    ASSUME NEW n \in 1..15, NEW v \in Strings
    PROVE  /\ Led(n, v) \in Seq(Byte) /\ Len(Led(n, v)) = 1 + Len(PackedStr(v))
           /\ Len(PackedStr(v)) \in Nat /\ Led(n, v)[1] = 144 + n
           /\ \A i \in 1..Len(PackedStr(v)) : Led(n, v)[1 + i] = PackedStr(v)[i]
<1> DEFINE h == <<144 + n>>
           s == PackedStr(v)
<1>1. h \in Seq(Byte) /\ Len(h) = 1 /\ h[1] = 144 + n
  BY DEF Byte
<1>2. s \in Seq(Byte) /\ Len(s) \in Nat
  BY PackedStrType
<1>3. Led(n, v) = h \o s
  <2>1. n < 16
    OBVIOUS
  <2> QED BY <2>1 DEF Led, PackArray
<1> HIDE DEF h, s
<1>4. /\ h \o s \in Seq(Byte) /\ Len(h \o s) = Len(h) + Len(s)
      /\ \A i \in 1..Len(h) + Len(s) : (h \o s)[i] = IF i <= Len(h) THEN h[i] ELSE s[i - Len(h)]
  BY <1>1, <1>2, ConcatProperties
<1>5. Led(n, v)[1] = 144 + n
  BY <1>1, <1>2, <1>3, <1>4
<1>6. \A i \in 1..Len(s) : Led(n, v)[1 + i] = s[i]
  BY <1>1, <1>2, <1>3, <1>4
<1> QED BY <1>1, <1>2, <1>3, <1>4, <1>5, <1>6 DEF s

LEMMA LedBytes ==
    ASSUME NEW n \in 1..15, NEW v \in Strings, data \in Seq(Byte), Carries(Led(n, v))
    PROVE  data[1] = 144 + n /\ Len(data) > 0 /\ Holds(1, PackedStr(v))
<1> DEFINE s == PackedStr(v)
<1>1. /\ Led(n, v) \in Seq(Byte) /\ Len(Led(n, v)) = 1 + Len(s) /\ Len(s) \in Nat
      /\ Led(n, v)[1] = 144 + n /\ \A i \in 1..Len(s) : Led(n, v)[1 + i] = s[i]
  BY LedType
<1>2. Len(Led(n, v)) <= Len(data) /\ Len(data) \in Nat
  BY DEF Carries
<1>3. \A i \in 1..Len(Led(n, v)) : data[i] = Led(n, v)[i]
  BY <1>1, CarriesBytes
<1> HIDE DEF s
<1>4. data[1] = 144 + n /\ Len(data) > 0 /\ 1 + Len(s) <= Len(data)
  BY <1>1, <1>2, <1>3
<1>5. \A i \in 1..Len(s) : data[1 + i] = s[i]
  BY <1>1, <1>3
<1> QED BY <1>4, <1>5 DEF Holds, s

\* The array is open, and the string is read as its first item, ...
Opened(n, v) ==
    /\ levels = <<[type |-> "item", rest |-> n]>>
    /\ memory[Root].type = "ARRAY" /\ memory[Root].size = n
    /\ StrBegun(1, v)

\* ... it is in its place, ...
InPlace(n, v) ==
    /\ memory[Root].type = "ARRAY" /\ memory[Root].size = n
    /\ memory[Root].ptr \in DOMAIN memory
    /\ memory[memory[Root].ptr] = StrObject(v)

\* ... and the parser is past it: the visitor does not come back.
Past(n) ==
    /\ levels = <<>> => consuming
    /\ levels # <<>> => levels[1].rest < n \/ (Len(levels) = 1 /\ consuming)

Kept(n, v) ==
    /\ InPlace(n, v)
    /\ result = "none" => Past(n)
    /\ n = 1 => result \in {"none", "success"}

LEMMA OneOrMore == \A k \in Nat : k >= 1 => k = 1 \/ 1 < k
OBVIOUS

\* The first item of the outermost array is not written again.
LEMMA BehindFirst ==
    ASSUME StacksOK, levels # <<>>, Container(1).type = "ARRAY",
           levels[1].rest < Container(1).size
    PROVE  Top(cursors) # Container(1).ptr
<1> DEFINE n == Len(levels)
           o == Container(1)
           c == Container(n)
<1>1. n \in Nat /\ n >= 1 /\ 1 \in Open /\ n \in Open /\ Top(cursors) = cursors[n + 1]
  <2>1. levels \in Seq(Level)
    BY DEF StacksOK
  <2>2. n \in Nat /\ n >= 1
    BY <2>1
  <2> QED BY <2>2, StacksLength DEF Open
<1>2. /\ Houses(o, levels[1], cursors[2]) /\ Houses(c, levels[n], cursors[n + 1])
      /\ levels[1] \in Level /\ levels[n] \in Level
  <2>1. 1 + 1 = 2
    OBVIOUS
  <2>2. levels[1] \in Level /\ levels[n] \in Level
    BY <1>1 DEF StacksOK, Open
  <2> QED BY <1>1, <2>1, <2>2 DEF StacksOK
<1>3. 1 < n => Before(o, c)
  BY <1>1 DEF StacksOK
<1>4. /\ o.ptr \in Nat \X Nat /\ o.ptr[1] \in Nat /\ o.ptr[2] \in Nat
      /\ o.size \in Nat /\ levels[1].rest \in Nat /\ levels[1].type = "item"
      /\ cursors[2] = <<o.ptr[1], o.ptr[2] + ObjectSize * (o.size - levels[1].rest)>>
      /\ End(o) = o.ptr[2] + ObjectSize * o.size
  <2>1. o.type = "ARRAY"
    OBVIOUS
  <2>2. levels[1].type = "item"
    BY <1>2, <2>1 DEF Houses
  <2>3. End(o) = o.ptr[2] + ObjectSize * o.size
    BY <2>1 DEF End, Items
  <2> QED BY <1>2, <2>2, <2>3 DEF Houses, Counted, Level
<1>5. /\ cursors[n + 1][1] = c.ptr[1] /\ c.ptr[1] \in Nat /\ c.ptr[2] \in Nat
      /\ cursors[n + 1][2] \in Nat /\ c.ptr[2] <= cursors[n + 1][2]
  BY <1>2, Inside
<1>6. levels[1].rest < o.size
  OBVIOUS
<1> HIDE DEF o, c
<1>7. CASE n = 1
  <2>1. cursors[2][2] > o.ptr[2]
    BY <1>4, <1>6 DEF ObjectSize
  <2>2. cursors[n + 1] = cursors[2]
    BY <1>7
  <2> QED BY <1>1, <1>4, <2>1, <2>2 DEF o
<1>8. CASE 1 < n
  <2>1. End(o) > o.ptr[2] /\ End(o) \in Nat
    BY <1>4, <1>6 DEF ObjectSize
  <2>2. o.ptr[1] < c.ptr[1] \/ (o.ptr[1] = c.ptr[1] /\ End(o) <= c.ptr[2])
    BY <1>3, <1>8 DEF Before
  <2>3. cursors[n + 1][1] # o.ptr[1] \/ cursors[n + 1][2] # o.ptr[2]
    BY <1>4, <1>5, <2>1, <2>2
  <2> QED BY <1>1, <2>3 DEF o
<1>9. n = 1 \/ 1 < n
  BY <1>1, OneOrMore
<1> QED BY <1>7, <1>8, <1>9

LEMMA BeginsOpened ==
    ASSUME NEW n \in 1..15, NEW v \in Strings, data \in Seq(Byte), Len(data) > 0,
           data[1] = 144 + n, Begins, Next
    PROVE  Opened(n, v)'
<1>1. Selector = 144 + n /\ Len(data) \in Nat /\ Selector \in 145..159
  <2>1. Selector = 144 + n
    BY DEF Begins, Selector, At
  <2>2. 144 + n \in 145..159
    OBVIOUS
  <2> QED BY <2>1, <2>2
<1>2. FixAggregate
  <2>1. Single \/ FixAggregate \/ Announces \/ Unknown
    BY <1>1, HeaderSteps DEF Begins
  <2>2. ~Announces /\ ~Unknown
    BY <1>1 DEF Announces, Unknown
  <2>3. ~Single
    BY <1>1 DEF Single
  <2> QED BY <2>1, <2>2, <2>3
<1>3. Aggregate("ARRAY", n, 0)
  <2>1. Selector - 144 = n /\ ~(Selector \in 128..143)
    BY <1>1
  <2> QED BY <1>2, <2>1 DEF FixAggregate, Begins
<1> DEFINE ptr == <<Block(n * ObjectSize, 8).chunk, Block(n * ObjectSize, 8).from>>
           o   == [type |-> "ARRAY", ptr |-> ptr, size |-> n]
<1>4. /\ Write(o) /\ levels' = Append(levels, [type |-> "item", rest |-> n])
      /\ pos' = 0 + 1 /\ cs' = Header /\ UNCHANGED <<consuming, result>>
  <2>1. n # 0 /\ n * ObjectSize * 1 = n * ObjectSize
    BY DEF ObjectSize
  <2> HIDE DEF ObjectSize
  <2> QED BY <1>3, <2>1 DEF Aggregate
<1>5. memory'[Root] = o
  BY <1>4, VisitRoot DEF Begins
<1>6. levels' = <<[type |-> "item", rest |-> n]>>
  BY <1>4 DEF Begins, Alone
<1>7. StrStarts(1)'
  BY <1>4 DEF Begins, StrStarts
<1> QED BY <1>5, <1>6, <1>7 DEF Opened, StrBegun

LEMMA OpenedNext ==
    ASSUME NEW n \in 1..15, NEW v \in Strings, data \in Seq(Byte), Holds(1, PackedStr(v)),
           StacksOK, Opened(n, v), Next
    PROVE  Opened(n, v)' \/ Kept(n, v)'
<1>1. StrEnds(1, v) \/ (StrBegun(1, v)' /\ UNCHANGED <<stacks, heap>>)
  BY StrNext DEF Opened
<1>2. CASE StrBegun(1, v)' /\ UNCHANGED <<stacks, heap>>
  BY <1>2 DEF Opened, stacks, heap
<1>3. CASE StrEnds(1, v)
  <2>1. Len(levels) = 1 /\ levels # <<>> /\ levels[1] = [type |-> "item", rest |-> n]
    BY DEF Opened
  <2>2. cursors[1] = Root /\ 1 \in Open /\ Top(cursors) = cursors[2]
    BY <2>1, StacksLength DEF StacksOK, Open
  <2>3. cursors[2] = memory[Root].ptr
    <3> DEFINE o == memory[Root]
    <3>1. Houses(o, levels[1], cursors[1 + 1])
      BY <2>2 DEF StacksOK, Container
    <3>2. o.size = n
      BY DEF Opened
    <3> HIDE DEF o
    <3>3. o.ptr \in Nat \X Nat /\ cursors[2] = <<o.ptr[1], o.ptr[2] + ObjectSize * (n - n)>>
      BY <2>1, <3>1, <3>2 DEF Houses, Counted
    <3>4. o.ptr[2] \in Nat /\ o.ptr = <<o.ptr[1], o.ptr[2]>>
      BY <3>3
    <3>5. o.ptr[2] + ObjectSize * (n - n) = o.ptr[2]
      BY <3>4 DEF ObjectSize
    <3> QED BY <3>3, <3>4, <3>5 DEF o
  <2>4. memory'[Root] = memory[Root] /\ Top(cursors) \in DOMAIN memory'
        /\ memory'[Top(cursors)] = StrObject(v)
    BY <1>3, <2>2, WriteKeeps DEF StrEnds, Container
  <2>5. InPlace(n, v)'
    BY <2>2, <2>3, <2>4 DEF InPlace, Opened
  <2>6. Past(n)' /\ result' = "none"
    BY <1>3, <2>1 DEF StrEnds, Past, stacks
  <2> QED BY <2>5, <2>6 DEF Kept
<1> QED BY <1>1, <1>2, <1>3

\* While no object is complete, one may be written and a level be opened.
LEMMA Builds ==
    ASSUME ScanOK, Next, result = "none", ~consuming
    PROVE  \/ memory' = memory /\ levels' = levels
           \/ \E o : Write(o) /\ (levels' = levels \/ \E l : levels' = Append(levels, l))
<1>1. ASSUME NEW o, Visit(o) PROVE Write(o) /\ levels' = levels
  BY <1>1 DEF Visit, stacks
<1>2. ASSUME NEW type, NEW bytes, VisitBytes(type, bytes)
      PROVE  \E o : Write(o) /\ levels' = levels
  BY <1>2 DEF VisitBytes, stacks
<1>3. ASSUME NEW type, NEW size, NEW last, Aggregate(type, size, last)
      PROVE  \E o : Write(o) /\ (levels' = levels \/ \E l : levels' = Append(levels, l))
  <2>1. CASE size = 0
    BY <1>1, <1>3, <2>1 DEF Aggregate
  <2>2. CASE size # 0
    BY <1>3, <2>2 DEF Aggregate
  <2> QED BY <2>1, <2>2
<1>4. CASE Single
  BY <1>1, <1>2, <1>4 DEF Single
<1>5. CASE FixAggregate
  BY <1>3, <1>5 DEF FixAggregate
<1>6. CASE Scalar
  BY <1>1, <1>2, <1>6 DEF Scalar
<1>7. CASE Length
  <2>1. (\E type : VisitBytes(type, <<>>)) \/ UNCHANGED <<stacks, heap>>
    BY <1>7 DEF Length
  <2> QED BY <1>2, <2>1 DEF stacks, heap
<1>8. CASE LongAggregate
  BY <1>3, <1>8 DEF LongAggregate
<1>9. CASE Announces \/ Unknown \/ Insufficient
  BY <1>9 DEF Announces, Unknown, Insufficient, stacks, heap
<1> QED BY <1>4, <1>5, <1>6, <1>7, <1>8, <1>9
        DEF Next, ItemEnds, KeyEnds, ValueEnds, Consuming, Succeeds, Terminated

LEMMA KeptBuilds ==
    ASSUME NEW n \in 1..15, NEW v \in Strings, ScanOK, StacksOK, Kept(n, v), Next,
           result = "none", ~consuming
    PROVE  Kept(n, v)'
<1>1. levels # <<>> /\ levels[1].rest < n /\ InPlace(n, v)
  BY DEF Kept, Past
<1>2. levels \in Seq(Level) /\ Len(levels) \in Nat /\ Len(levels) >= 1 /\ 1 \in Open
      /\ cursors[1] = Root
  <2>1. levels \in Seq(Level) /\ cursors[1] = Root
    BY DEF StacksOK
  <2> QED BY <1>1, <2>1 DEF Open
<1>3. levels[1].rest \in Nat /\ levels[1].rest >= 1
  <2>1. Houses(Container(1), levels[1], cursors[1 + 1])
    BY <1>2 DEF StacksOK
  <2> QED BY <2>1 DEF Houses
<1>4. n > 1
  BY <1>1, <1>3
<1>5. Container(1) = memory[Root]
  BY <1>2 DEF Container
<1>6. Top(cursors) # memory[Root].ptr
  <2>1. Container(1).type = "ARRAY" /\ levels[1].rest < Container(1).size
    BY <1>1, <1>5 DEF InPlace
  <2>2. Top(cursors) # Container(1).ptr
    BY <1>1, <2>1, BehindFirst
  <2> QED BY <1>5, <2>2
<1>7. ASSUME NEW o, Write(o) PROVE InPlace(n, v)'
  <2>1. memory'[Root] = memory[Root]
    BY <1>2, <1>5, <1>7, WriteKeeps
  <2>2. /\ memory[Root].ptr \in DOMAIN memory'
        /\ memory'[memory[Root].ptr] = memory[memory[Root].ptr]
    BY <1>1, <1>6, <1>7 DEF Write, InPlace
  <2> QED BY <1>1, <2>1, <2>2 DEF InPlace
<1>8. ASSUME memory' = memory PROVE InPlace(n, v)'
  BY <1>1, <1>8 DEF InPlace
<1>9. InPlace(n, v)'
  BY <1>7, <1>8, Builds
<1>10. levels' # <<>> /\ levels'[1] = levels[1]
  <2>1. levels' = levels \/ \E l : levels' = Append(levels, l)
    BY Builds
  <2>2. ASSUME NEW l, levels' = Append(levels, l)
        PROVE  levels' # <<>> /\ levels'[1] = levels[1]
    BY <1>2, <2>2
  <2> QED BY <1>1, <2>1, <2>2
<1> QED BY <1>1, <1>4, <1>9, <1>10 DEF Kept, Past

LEMMA KeptConsumes ==
    ASSUME NEW n \in 1..15, NEW v \in Strings, StacksOK, Kept(n, v), Next,
           result = "none", consuming
    PROVE  Kept(n, v)'
<1>1. InPlace(n, v) /\ Past(n)
  BY DEF Kept
<1>2. ItemEnds \/ KeyEnds \/ ValueEnds \/ Succeeds
  BY DEF Next, Terminated, Single, FixAggregate, Announces, Unknown, HeaderNext, Scalar, Length,
     LongAggregate, TrailNext, Parsing, Insufficient
<1>3. memory' = memory /\ (result' = "none" \/ result' = "success")
  BY <1>2 DEF ItemEnds, KeyEnds, ValueEnds, Succeeds, heap
<1>4. InPlace(n, v)'
  BY <1>1, <1>3 DEF InPlace
<1>5. CASE Succeeds
  BY <1>4, <1>5 DEF Succeeds, Kept
<1>6. CASE ItemEnds \/ KeyEnds \/ ValueEnds
  <2> DEFINE m == Len(levels)
  <2>1. levels # <<>> /\ levels \in Seq(Level) /\ m \in Nat /\ m >= 1 /\ 1 \in Open
    <3>1. levels # <<>> /\ levels \in Seq(Level)
      BY <1>6 DEF ItemEnds, KeyEnds, ValueEnds, Consuming, StacksOK
    <3> QED BY <3>1 DEF Open
  <2>2. levels[1].type = "item" /\ levels[1].rest \in 1..n
    <3>1. Houses(memory[Root], levels[1], cursors[1 + 1]) /\ cursors[1] = Root
      BY <2>1 DEF StacksOK, Container
    <3> QED BY <1>1, <3>1 DEF Houses, InPlace
  <2>3. CASE m = 1
    <3>1. Close("item")
      <4>1. Top(levels).type = "item"
        BY <2>2, <2>3 DEF Top
      <4> QED BY <1>6, <4>1 DEF ItemEnds, KeyEnds, ValueEnds, Consuming
    <3>2. Top(levels) = levels[1]
      BY <2>3 DEF Top
    <3>3. CASE levels[1].rest = 1
      <4>1. levels' = Popped(levels) /\ consuming' = consuming
        BY <3>1, <3>2, <3>3 DEF Close
      <4>2. levels' = <<>>
        BY <2>1, <2>3, <4>1 DEF Popped
      <4>3. Past(n)'
        BY <4>1, <4>2 DEF Past
      <4> QED BY <1>3, <1>4, <4>3 DEF Kept
    <3>4. CASE levels[1].rest # 1
      <4> DEFINE l == [type |-> "item", rest |-> levels[1].rest - 1]
      <4>1. levels' = [levels EXCEPT ![1] = l]
        BY <2>3, <3>1, <3>2, <3>4 DEF Close
      <4>2. levels'[1] = l /\ levels' # <<>>
        BY <2>1, <4>1
      <4>3. levels'[1].rest < n
        BY <2>2, <4>2
      <4>4. Past(n)'
        BY <4>2, <4>3 DEF Past
      <4> QED BY <1>3, <1>4, <4>4 DEF Kept
    <3> QED BY <3>3, <3>4
  <2>4. CASE 1 < m
    <3>1. levels[1].rest < n
      <4>1. m # 1
        BY <2>4
      <4> QED BY <1>1, <2>1, <4>1 DEF Past
    <3>2. levels' = Popped(levels) \/ \E l : levels' = [levels EXCEPT ![m] = l]
      BY <1>6 DEF ItemEnds, KeyEnds, ValueEnds, Close
    <3>3. levels'[1] = levels[1] /\ levels' # <<>>
      <4>1. CASE levels' = Popped(levels)
        BY <2>1, <2>4, <4>1, PoppedFacts
      <4>2. ASSUME NEW l, levels' = [levels EXCEPT ![m] = l]
            PROVE  levels'[1] = levels[1] /\ levels' # <<>>
        BY <2>1, <2>4, <4>2
      <4> QED BY <3>2, <4>1, <4>2
    <3>4. Past(n)'
      BY <3>1, <3>3 DEF Past
    <3> QED BY <1>3, <1>4, <3>4 DEF Kept
  <2> QED BY <2>1, <2>3, <2>4, OneOrMore
<1> QED BY <1>2, <1>5, <1>6

Leading(n, v) == Begins \/ (result = "none" /\ Opened(n, v)) \/ Kept(n, v)

LeadingAll ==
    data \in Seq(Byte) /\ \A n \in 1..15, v \in Strings : Carries(Led(n, v)) => Leading(n, v)

LEMMA LeadingNext == IInv /\ LeadingAll /\ [Next]_vars => LeadingAll'
<1> SUFFICES ASSUME IInv, LeadingAll, [Next]_vars PROVE LeadingAll'
  OBVIOUS
<1>1. data' = data /\ data \in Seq(Byte)
  BY DataStays DEF LeadingAll
<1>2. ASSUME NEW n \in 1..15, NEW v \in Strings, Carries(Led(n, v)), Leading(n, v), Next
      PROVE  Leading(n, v)'
  <2>1. data[1] = 144 + n /\ Len(data) > 0 /\ Holds(1, PackedStr(v))
    BY <1>1, <1>2, LedBytes
  <2>2. ScanOK /\ (result = "none" => StacksOK)
    BY DEF IInv
  <2>3. CASE Begins
    <3>1. Opened(n, v)'
      BY <1>1, <1>2, <2>1, <2>3, BeginsOpened
    <3>2. result' = "none"
      BY <3>1 DEF Opened, StrBegun, StrStarts, LengthDue, BodyDue
    <3> QED BY <3>1, <3>2 DEF Leading
  <2>4. CASE result = "none" /\ Opened(n, v)
    <3>1. Opened(n, v)' \/ Kept(n, v)'
      BY <1>1, <1>2, <2>1, <2>2, <2>4, OpenedNext
    <3>2. Opened(n, v)' => result' = "none"
      BY DEF Opened, StrBegun, StrStarts, LengthDue, BodyDue
    <3> QED BY <3>1, <3>2 DEF Leading
  <2>5. CASE Kept(n, v)
    <3>1. CASE result # "none"
      <4>1. UNCHANGED vars
        BY <1>2, <3>1, Ended
      <4> QED BY <2>5, <3>1, <4>1 DEF Leading, Kept, InPlace, vars, heap
    <3>2. CASE result = "none"
      BY <1>2, <2>2, <2>5, <3>2, KeptBuilds, KeptConsumes DEF Leading
    <3> QED BY <3>1, <3>2
  <2> QED BY <1>2, <2>3, <2>4, <2>5 DEF Leading
<1>3. ASSUME NEW n \in 1..15, NEW v \in Strings, Leading(n, v), UNCHANGED vars
      PROVE  Leading(n, v)'
  <2>1. CASE Begins
    BY <1>3, <2>1 DEF Leading, Begins, Alone, vars, scan, stacks
  <2>2. CASE result = "none" /\ Opened(n, v)
    <3>1. StrBegun(1, v)'
      BY <1>3, <2>2, StrStutters DEF Opened
    <3> QED BY <1>3, <2>2, <3>1 DEF Leading, Opened, vars, stacks, heap
  <2>3. CASE Kept(n, v)
    BY <1>3, <2>3 DEF Leading, Kept, InPlace, Past, vars, scan, stacks, heap
  <2> QED BY <1>3, <2>1, <2>2, <2>3 DEF Leading
<1> QED BY <1>1, <1>2, <1>3 DEF LeadingAll, Carries

\* A string that leads an array of up to 15 items, as the name leads a request,
\* is its first item when the payload was read, whatever the other items are
\* and whatever follows; and if it is the only one, as the value is of a
\* response, the payload is read.
THEOREM NameArrives ==
    Spec => [](\A n \in 1..15, v \in Strings : Carries(Led(n, v)) =>
                  /\ result = "success" =>
                        /\ memory[Root].type = "ARRAY" /\ memory[Root].size = n
                        /\ memory[memory[Root].ptr] = StrObject(v)
                  /\ n = 1 /\ result # "none" => result = "success")
<1>1. Init => LeadingAll
  BY UnpackAssumption DEF Init, LeadingAll, Leading, Begins, Alone
<1>2. LeadingAll => \A n \in 1..15, v \in Strings : Carries(Led(n, v)) =>
                       /\ result = "success" =>
                             /\ memory[Root].type = "ARRAY" /\ memory[Root].size = n
                             /\ memory[memory[Root].ptr] = StrObject(v)
                       /\ n = 1 /\ result # "none" => result = "success"
  BY DEF LeadingAll, Leading, Begins, Kept, InPlace
<1> QED BY <1>1, <1>2, LeadingNext, Invariance, PTL DEF Spec
=============================================================================
