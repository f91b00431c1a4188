------------------------------- MODULE Unpack -------------------------------
(***************************************************************************)
(* How stub::unpack reads a payload: the state machine of the vendored     *)
(* msgpack (context::execute), the visitor that builds the objects, and    *)
(* the zone the objects live in.                                           *)
(*                                                                         *)
(* Two stacks have to agree without ever being compared: the parser counts *)
(* the items that an array or a map still lacks, the visitor holds a       *)
(* pointer to the object that comes next.  A step is a pass of the loop of *)
(* execute, or of the loop of consume inside it.                           *)
(***************************************************************************)
EXTENDS Integers, Sequences

CONSTANTS
    Inputs,    \* bound of the model: the payloads, sequences of bytes
    ChunkSize, \* MSGPACK_ZONE_CHUNK_SIZE
    Doublings  \* how often a size_t that is ChunkSize can be doubled

Byte == 0..255

ASSUME UnpackAssumption ==
    /\ Inputs \subseteq Seq(Byte)
    /\ ChunkSize \in Nat \ {0}
    /\ Doublings \in Nat

VARIABLES
    data,      \* the payload
    pos,       \* m_current - m_start
    cs,        \* m_cs
    trail,     \* m_trail
    again,     \* fixed_trail_again
    consuming, \* an object is complete, its containers are to be told
    levels,    \* m_stack of the parser: what each container lacks
    cursors,   \* m_stack of the visitor: where the next object of each goes
    memory,    \* the objects written, by address: a chunk and an offset
    zone,      \* m_chunk_list: m_ptr, m_free
    chunks,    \* the sizes of the chunks
    blocks,    \* what was allocated (history)
    result     \* how it ended

scan   == <<data, pos, cs, trail, again, consuming>>
stacks == <<levels, cursors>>
heap   == <<memory, zone, chunks, blocks>>
vars   == <<scan, stacks, heap, result>>

\* msgpack_unpack_state: nil's place is the header's, 4..31 are the formats
\* 0xc4 to 0xdf, the last three are bytes whose number is known.
Header   == 0
StrValue == 32
BinValue == 33
ExtValue == 34

BodyOf == [c \in StrValue..ExtValue |->
              IF c = StrValue THEN "STR" ELSE IF c = BinValue THEN "BIN" ELSE "EXT"]

Top(s) == s[Len(s)]
Popped(s) == SubSeq(s, 1, Len(s) - 1)

Root    == <<0, 0>>      \* m_obj
NullPtr == <<0, -1>>

Init == /\ data \in Inputs
        /\ pos = 0 /\ cs = Header /\ trail = 0 /\ again = FALSE /\ consuming = FALSE
        /\ levels = <<>>
        /\ cursors = <<Root>>
        /\ memory = <<>>
        /\ zone = [chunk |-> 1, at |-> 0, free |-> ChunkSize]
        /\ chunks = <<ChunkSize>>
        /\ blocks = <<>>
        /\ result = "none"

-----------------------------------------------------------------------------
(* The zone.                                                               *)

\* zone::get_aligned
Aligned(at, align) == ((at + align - 1) \div align) * align

\* Mutant: room for the alignment is forgotten.
NeededUnaligned(size, align) == size

\* adjusted_size
Needed(size, align) == size + Aligned(zone.at, align) - zone.at

\* What doubling ends with, if it is enough before it overflows.
Doubled(size) == {s \in {ChunkSize * 2^k : k \in 0..Doublings} :
                     s >= size /\ (s > ChunkSize => s < 2 * size)}

\* zone::allocate_expand: the size of the next chunk.
ChunkFor(size) ==
    IF Doubled(size) = {} THEN size ELSE CHOOSE s \in Doubled(size) : TRUE

\* zone::allocate_align: the zone afterwards, and the block.
Block(size, align) ==
    IF zone.free < Needed(size, align)
    THEN [chunk |-> Len(chunks) + 1, from |-> 0, size |-> size]
    ELSE [chunk |-> zone.chunk, from |-> Aligned(zone.at, align), size |-> size]

Allocate(size, align) ==
    /\ blocks' = Append(blocks, Block(size, align))
    /\ IF zone.free < Needed(size, align)
       THEN LET s == ChunkFor(size + align - 1)
            IN  /\ chunks' = Append(chunks, s)
                /\ zone' = [chunk |-> Len(chunks) + 1, at |-> size, free |-> s - size]
       ELSE /\ zone' = [zone EXCEPT !.at = @ + Needed(size, align),
                                    !.free = @ - Needed(size, align)]
            /\ UNCHANGED chunks

-----------------------------------------------------------------------------
(* The visitor.                                                            *)

ObjectSize == 24 \* sizeof(msgpack::object); an object_kv is two of them

\* The next object of a container.
NextObject(ptr) == <<ptr[1], ptr[2] + ObjectSize>>

\* Write an object where the visitor points.
Write(o) == memory' = [a \in DOMAIN memory \cup {Top(cursors)} |->
                          IF a = Top(cursors) THEN o ELSE memory[a]]

\* visit_positive_integer and the others, then after_visit_proc.
Visit(o) == /\ Write(o)
            /\ consuming' = TRUE
            /\ UNCHANGED <<zone, chunks, blocks, stacks, result>>

\* visit_str, visit_bin, visit_ext copy the bytes into the zone.
VisitBytes(type, bytes) ==
    /\ Write([type |-> type, bytes |-> bytes])
    /\ Allocate(Len(bytes), 1)
    /\ consuming' = TRUE
    /\ UNCHANGED <<stacks, result>>

\* start_aggregate, m_current being on the last byte of the size: an empty
\* container is complete at once, another gets its memory and a level on both
\* stacks.
Aggregate(type, size, last) ==
    IF size = 0
    THEN /\ Visit([type |-> type, ptr |-> NullPtr, size |-> 0])
         /\ pos' = last
         /\ UNCHANGED cs
    ELSE LET bytes == size * ObjectSize * (IF type = "MAP" THEN 2 ELSE 1)
             block == Block(bytes, 8)
             ptr   == <<block.chunk, block.from>>
         IN  /\ Write([type |-> type, ptr |-> ptr, size |-> size])
             /\ Allocate(bytes, 8)
             /\ cursors' = Append(cursors, ptr)
             /\ levels' = Append(levels, [type |-> IF type = "MAP" THEN "key" ELSE "item",
                                          rest |-> size])
             /\ pos' = last + 1
             /\ cs' = Header
             /\ UNCHANGED <<consuming, result>>

-----------------------------------------------------------------------------
(* The parser.                                                             *)

Parsing == result = "none" /\ ~consuming

\* A byte of the payload, by its offset.
At(i) == data[i + 1]

Selector == At(pos)

\* How many bytes follow each of the selectors 0xc4 to 0xdf.
Trails == <<1, 2, 4, 1, 2, 4, 4, 8, 1, 2, 4, 8, 1, 2, 4, 8,
            2, 3, 5, 9, 17, 1, 2, 4, 2, 4, 2, 4>>

HeaderNext == Parsing /\ cs = Header /\ pos < Len(data)

\* 64 bits from a few bytes, extended with a sign or with zeros.
Extended(bytes, signed) ==
    [i \in 1..(8 - Len(bytes)) |-> IF signed /\ bytes[1] >= 128 THEN 255 ELSE 0] \o bytes

Positive(bytes) == [type |-> "POSITIVE_INTEGER", bytes |-> Extended(bytes, FALSE)]

\* Mutant: what is in a signed format is negative.
SignedNegative(bytes) == [type |-> "NEGATIVE_INTEGER", bytes |-> Extended(bytes, TRUE)]

\* visit_negative_integer: a signed format may hold a positive number.
Signed(bytes) == [type |-> IF bytes[1] >= 128 THEN "NEGATIVE_INTEGER" ELSE "POSITIVE_INTEGER",
                  bytes |-> Extended(bytes, TRUE)]

\* A byte that is an object by itself.
Single ==
    /\ HeaderNext
    /\ \/ Selector <= 127 /\ Visit(Positive(<<Selector>>))
       \/ Selector >= 224 /\ Visit(Signed(<<Selector>>))
       \/ Selector = 192 /\ Visit([type |-> "NIL"])
       \/ Selector \in {194, 195} /\ Visit([type |-> "BOOLEAN", value |-> Selector = 195])
       \/ Selector = 160 /\ VisitBytes("STR", <<>>)
    /\ UNCHANGED <<data, pos, cs, trail, again>>

\* fixarray and fixmap
FixAggregate ==
    /\ HeaderNext
    /\ \/ Selector \in 144..159 /\ Aggregate("ARRAY", Selector - 144, pos)
       \/ Selector \in 128..143 /\ Aggregate("MAP", Selector - 128, pos)
    /\ UNCHANGED <<data, trail, again>>

\* A byte that announces more: the number of bytes is known.
Announces ==
    /\ HeaderNext
    /\ \/ /\ Selector \in 196..223
          /\ cs' = Selector % 32
          /\ trail' = Trails[Selector - 195]
       \/ /\ Selector \in 161..191
          /\ cs' = StrValue
          /\ trail' = Selector - 160
    /\ again' = TRUE
    /\ UNCHANGED <<data, pos, consuming, stacks, heap, result>>

\* 0xc1: parse_error is thrown.
Unknown ==
    /\ HeaderNext
    /\ Selector = 193
    /\ result' = "parse_error"
    /\ UNCHANGED <<scan, stacks, heap>>

\* ++m_current for a format just announced.
From == IF again THEN pos + 1 ELSE pos

\* pe - m_current >= m_trail
Arrived == Len(data) - From >= trail

TrailNext == Parsing /\ cs # Header /\ Arrived

\* The bytes of the trail; m_current is then on the last of them.
TrailBytes == SubSeq(data, From + 1, From + trail)

Loaded(bytes) == LET f[i \in 0..Len(bytes)] == IF i = 0 THEN 0 ELSE 256 * f[i - 1] + bytes[i]
                 IN  f[Len(bytes)]

\* Numbers, floats and fixext: the trail is the value.
Scalar ==
    /\ TrailNext
    /\ \/ cs \in 10..11 /\ Visit([type |-> IF cs = 10 THEN "FLOAT32" ELSE "FLOAT64",
                                      bytes |-> TrailBytes])
       \/ cs \in 12..15 /\ Visit(Positive(TrailBytes))
       \/ cs \in 16..19 /\ Visit(Signed(TrailBytes))
       \/ cs \in 20..24 /\ VisitBytes("EXT", TrailBytes)
       \/ cs \in DOMAIN BodyOf /\ VisitBytes(BodyOf[cs], TrailBytes)
    /\ pos' = From + trail - 1
    /\ again' = FALSE
    /\ UNCHANGED <<data, cs, trail>>

\* str, bin and ext: the trail is a length, for ext without the type's byte.
Length ==
    /\ TrailNext
    /\ cs \in 4..9 \cup 25..27
    /\ LET type == IF cs \in 4..6 THEN "BIN" ELSE IF cs \in 7..9 THEN "EXT" ELSE "STR"
           n    == Loaded(TrailBytes) + IF type = "EXT" THEN 1 ELSE 0
       IN  /\ trail' = n
           /\ IF n = 0
              THEN VisitBytes(type, <<>>) /\ cs' = cs /\ again' = FALSE
              ELSE /\ cs' = CHOOSE c \in DOMAIN BodyOf : BodyOf[c] = type
                   /\ again' = TRUE
                   /\ UNCHANGED <<consuming, stacks, heap, result>>
    /\ pos' = From + trail - 1
    /\ UNCHANGED data

\* array and map: the trail is the number of items.
LongAggregate ==
    /\ TrailNext
    /\ cs \in 28..31
    /\ Aggregate(IF cs \in {28, 29} THEN "ARRAY" ELSE "MAP", Loaded(TrailBytes),
                 From + trail - 1)
    /\ again' = FALSE
    /\ UNCHANGED <<data, trail>>

\* The payload ends before the object does: insufficient_bytes is thrown.
Insufficient ==
    /\ Parsing
    /\ IF cs = Header THEN pos = Len(data) ELSE ~Arrived
    /\ result' = "insufficient_bytes"
    /\ UNCHANGED <<scan, stacks, heap>>

-----------------------------------------------------------------------------
(* unpack_stack::consume, a pass of its loop per step.                     *)

Consuming(type) ==
    /\ result = "none"
    /\ consuming
    /\ levels # <<>>
    /\ Top(levels).type = type

\* ++m_current, and on to the next header.
Proceed == /\ consuming' = FALSE
           /\ pos' = pos + 1
           /\ cs' = Header

\* ++m_stack.back() of the visitor
Advanced(c) == [c EXCEPT ![Len(c)] = NextObject(@)]

\* Mutant: the visitor's pointer stays.
CloseWithoutPop(next) ==
    IF Top(levels).rest = 1
    THEN /\ levels' = Popped(levels)
         /\ cursors' = Advanced(cursors)
         /\ UNCHANGED <<consuming, pos, cs>>
    ELSE /\ levels' = [levels EXCEPT ![Len(levels)] = [type |-> next, rest |-> @.rest - 1]]
         /\ cursors' = Advanced(cursors)
         /\ Proceed

\* An item, or a key with its value, is complete: the last one completes its
\* container, which is then an item of the one below.
Close(next) ==
    IF Top(levels).rest = 1
    THEN /\ levels' = Popped(levels)
         /\ cursors' = Popped(cursors)
         /\ UNCHANGED <<consuming, pos, cs>>
    ELSE /\ levels' = [levels EXCEPT ![Len(levels)] = [type |-> next, rest |-> @.rest - 1]]
         /\ cursors' = Advanced(cursors)
         /\ Proceed

ItemEnds ==
    /\ Consuming("item")
    /\ Close("item")
    /\ UNCHANGED <<data, trail, again, heap, result>>

KeyEnds ==
    /\ Consuming("key")
    /\ levels' = [levels EXCEPT ![Len(levels)].type = "value"]
    /\ cursors' = Advanced(cursors)
    /\ Proceed
    /\ UNCHANGED <<data, trail, again, heap, result>>

ValueEnds ==
    /\ Consuming("value")
    /\ Close("key")
    /\ UNCHANGED <<data, trail, again, heap, result>>

\* No container is open: the object is complete.  Bytes that follow it are
\* not looked at (PARSE_EXTRA_BYTES).
Succeeds ==
    /\ result = "none"
    /\ consuming
    /\ levels = <<>>
    /\ Proceed
    /\ result' = "success"
    /\ UNCHANGED <<data, trail, again, stacks, heap>>

\* The outcome is given to the caller, who raises it or uses the object.
Terminated == result # "none" /\ UNCHANGED vars

-----------------------------------------------------------------------------
Next == \/ Single \/ FixAggregate \/ Announces \/ Unknown
        \/ Scalar \/ Length \/ LongAggregate \/ Insufficient
        \/ ItemEnds \/ KeyEnds \/ ValueEnds \/ Succeeds
        \/ Terminated

Spec == Init /\ [][Next]_vars

-----------------------------------------------------------------------------
(* Properties.                                                             *)

Done(level) ==
    LET size == memory[cursors[level]].size
        rest == levels[level].rest
    IN  CASE levels[level].type = "item"  -> size - rest
          [] levels[level].type = "key"   -> 2 * (size - rest)
          [] levels[level].type = "value" -> 2 * (size - rest) + 1

\* The two stacks agree: for every container that is open the visitor's
\* pointer is where the objects the parser has counted end, so no object is
\* written before or behind the memory of its container.
StacksAgree ==
    result = "none" =>
        /\ Len(cursors) = Len(levels) + 1
        /\ cursors[1] = Root
        /\ \A i \in 1..Len(levels) :
              LET o == memory[cursors[i]]
              IN  /\ levels[i].rest \in 1..o.size
                  /\ cursors[i + 1] = <<o.ptr[1], o.ptr[2] + ObjectSize * Done(i)>>

\* What the zone hands out is inside a chunk and never handed out again, and
\* the payload is never read past its end.
MemoryInBounds ==
    /\ \A i \in 1..Len(blocks) : blocks[i].from + blocks[i].size <= chunks[blocks[i].chunk]
    /\ \A i, j \in 1..Len(blocks) :
          i < j /\ blocks[i].chunk = blocks[j].chunk =>
              \/ blocks[i].from + blocks[i].size <= blocks[j].from
              \/ blocks[j].from + blocks[j].size <= blocks[i].from
    /\ pos <= Len(data)
=============================================================================
