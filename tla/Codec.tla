------------------------------- MODULE Codec -------------------------------
(***************************************************************************)
(* What operator<< puts into a Message and operator>> takes out of it: the *)
(* body carries no types, so the reader must ask for what the writer put.  *)
(*                                                                         *)
(* A value of fixed size is a number below 256 in Width bytes, the low one *)
(* first (the others are zero); a string is a sequence of characters, a    *)
(* list (or vector) a sequence of values of one type.                      *)
(***************************************************************************)
EXTENDS Integers, Sequences

Width == 2          \* sizeof(size_t), and of every other fixed type

(* The byte that ends a string, the same one as a zero byte of a number. *)
Nul == <<"byte", 0>>

(* What a reader gets from bytes that are not of the type it asked for. *)
Garbage(type) == IF type = "number" THEN -1 ELSE << <<"garbage", 0>> >>

NumberBytes(n) == << <<"byte", n>> >> \o [i \in 1..Width - 1 |-> Nul]

(* Mutant: the characters without the byte that ends them. *)
StringBytes_Open(s) == s

(* put(x.c_str(), x.size() + 1) *)
StringBytes(s) == Append(s, Nul)

ValueBytes(type, x) == IF type = "number" THEN NumberBytes(x) ELSE StringBytes(x)

(* What is there after each of the parts is appended. *)
Appended(parts) ==
    LET upTo[n \in 0..Len(parts)] ==
            IF n = 0 THEN <<>> ELSE upTo[n - 1] \o parts[n]
    IN  upTo
Concatenated(parts) == Appended(parts)[Len(parts)]

ElementBytes(type, x) == [i \in 1..Len(x) |-> ValueBytes(type, x[i])]

ListBytes(type, x) == NumberBytes(Len(x)) \o Concatenated(ElementBytes(type, x))

(* message << v appends these to what is there. *)
Bytes(v) == IF v.list THEN ListBytes(v.type, v.of) ELSE ValueBytes(v.type, v.of)

Parts(values) == [i \in 1..Len(values) |-> Bytes(values[i])]
Written(values) == Concatenated(Parts(values))
-----------------------------------------------------------------------------
(* A reader: what is left of the body, and what it has read. *)
Reader(bytes) == [rest |-> bytes, read |-> <<>>]

Dropped(s, n) == SubSeq(s, n + 1, Len(s))

Took(r, n, x) == [rest |-> Dropped(r.rest, n), read |-> Append(r.read, x)]

IsNumber(s) == /\ Len(s) >= Width
               /\ s[1][1] = "byte"
               /\ \A i \in 2..Width : s[i] = Nul

ReadNumber(r) == Took(r, Width, IF IsNumber(r.rest) THEN r.rest[1][2] ELSE Garbage("number"))

Zeros(s) == {i \in DOMAIN s : s[i] = Nul}
FirstZero(s) == CHOOSE i \in Zeros(s) : \A j \in Zeros(s) : i <= j

(* The C string at the cursor: as far as the first zero byte, and past it. *)
ReadString(r) ==
    IF Zeros(r.rest) = {} THEN Took(r, Len(r.rest), Garbage("string"))
    ELSE Took(r, FirstZero(r.rest), SubSeq(r.rest, 1, FirstZero(r.rest) - 1))

ReadValue(r, type) == IF type = "number" THEN ReadNumber(r) ELSE ReadString(r)

(* After each of len elements of one type. *)
ReadElements(bytes, type, len) ==
    LET after[n \in 0..len] ==
            IF n = 0 THEN Reader(bytes) ELSE ReadValue(after[n - 1], type)
    IN  after

(* The length, then as many elements; a length that is none is the end. *)
ReadList(r, type) ==
    LET number == ReadNumber(Reader(r.rest))
        len == number.read[1]
        all == ReadElements(number.rest, type, len)[len]
    IN  IF len = Garbage("number")
        THEN [rest |-> <<>>, read |-> Append(r.read, <<Garbage(type)>>)]
        ELSE [rest |-> all.rest, read |-> Append(r.read, all.read)]

Read(r, v) == IF v.list THEN ReadList(r, v.type) ELSE ReadValue(r, v.type)

(* The reader asks for the types of the values that were written; what it  *)
(* has after each of them.                                                 *)
ReadEach(values) ==
    LET after[n \in 0..Len(values)] ==
            IF n = 0 THEN Reader(Written(values)) ELSE Read(after[n - 1], values[n])
    IN  after
ReadBack(values) == ReadEach(values)[Len(values)]
-----------------------------------------------------------------------------
(* The values this module is about: a length is a number, too. *)
Byte == {"byte"} \X (0..255)
IsValue(v) ==
    LET Simple == IF v.type = "number" THEN 0..255 ELSE Seq(Byte)
    IN  /\ v.type \in {"number", "string"} /\ v.list \in BOOLEAN
        /\ v.of \in IF v.list THEN Seq(Simple) ELSE Simple
        /\ v.list => Len(v.of) < 256
IsBody(values) == /\ values \in Seq({values[i] : i \in DOMAIN values})
                  /\ \A i \in DOMAIN values : IsValue(values[i])

HasNul(s) == Zeros(s) # {}

(* A string with a zero byte in it, alone or in a list. *)
Holed(v) == /\ v.type = "string"
            /\ IF v.list THEN \E i \in DOMAIN v.of : HasNul(v.of[i]) ELSE HasNul(v.of)

(* A message reads back exactly as it was written, to the last byte, if no *)
(* string in it holds a zero byte; otherwise what was written before the   *)
(* first such string still does, and that string does not.                 *)
ReadsBack(values) ==
    LET r == ReadBack(values)
        holed == {i \in DOMAIN values : Holed(values[i])}
    IN  /\ holed = {} => r.rest = <<>>
        /\ \A i \in DOMAIN values :
              (\A j \in holed : i < j) => r.read[i] = values[i].of
        /\ \A i \in holed : (\A j \in holed : i <= j) => r.read[i] # values[i].of
=============================================================================
