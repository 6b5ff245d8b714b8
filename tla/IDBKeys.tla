-------------------------------- MODULE IDBKeys --------------------------------
(***************************************************************************)
(* EncodeKey and DecodeKey of frame/mb_indexeddb.cc.  Records and indexes  *)
(* are maps sorted by the bytes that a key is encoded to, and those bytes  *)
(* are what is saved; so they must sort as keys do and lead back to them.  *)
(*                                                                         *)
(* A number or date is the bit pattern of a double: a sign bit, and bits   *)
(* that count upwards; 16 bits here instead of 64.  A string is its UTF-8. *)
(***************************************************************************)
EXTENDS Integers, SequencesExt

CONSTANTS
  Doubles,   \* bit patterns, 0 .. 2^16 - 1, of numbers and dates
  Strings,   \* byte sequences: strings and binary keys
  MaxArray   \* bound: elements of an array

Sign == 32768
Byte == 0 .. 255

Scalar(type, V) == {[type |-> type, value |-> v] : v \in V}
Array(S) == {[type |-> "array", value |-> a] : a \in UNION {[1 .. n -> S] : n \in 0 .. MaxArray}}

Scalars ==
  Scalar("number", Doubles) \cup Scalar("date", Doubles)
    \cup Scalar("string", Strings) \cup Scalar("binary", Strings)

(* Arrays hold numbers and strings, from which dates and binary keys       *)
(* differ in their type byte, or arrays of one of those or none.           *)
Elements == Scalar("number", Doubles) \cup Scalar("string", Strings)
Nested   == {k \in Array(Elements) : Len(k.value) < 2}
Keys     == Scalars \cup Array(Elements) \cup Array(Nested \cup Scalar("string", Strings))

None == [type |-> "none", value |-> <<>>]

------------------------------------------------------------------------------
(* -0 is 0; then all bits of a negative number are flipped, and the sign   *)
(* bit of a positive one.  The first byte is the most significant.         *)
EncodeDouble(d) ==
  LET u == IF d \in {0, Sign} THEN Sign ELSE IF d > Sign THEN 2 * Sign - 1 - d ELSE d + Sign
  IN  <<u \div 256, u % 256>>

DecodeDouble(s) ==
  LET u == 256 * s[1] + s[2] IN IF u >= Sign THEN u - Sign ELSE 2 * Sign - 1 - u

(* Zeros are escaped, and two of them end a component.                     *)
EscapeComponent(s) ==
  FlattenSeq([i \in DOMAIN s |-> IF s[i] = 0 THEN <<0, 1>> ELSE <<s[i]>>]) \o <<0, 0>>

TypeByte == [number |-> 16, date |-> 32, string |-> 48, binary |-> 64, array |-> 80]

EncodeKey[k \in Keys \cup Nested] ==
  <<TypeByte[k.type]>> \o
    IF k.type \in {"number", "date"} THEN EncodeDouble(k.value)
    ELSE IF k.type # "array" THEN k.value
    ELSE FlattenSeq([i \in DOMAIN k.value |-> EscapeComponent(EncodeKey[k.value[i]])]) \o <<0>>

(* The first component of s, and what is behind it.                        *)
Component[s \in Seq(Byte)] ==
  IF Len(s) < 2 THEN [first |-> <<>>, rest |-> s]
  ELSE IF s[1] = 0 /\ s[2] = 0 THEN [first |-> <<>>, rest |-> SubSeq(s, 3, Len(s))]
  ELSE LET escaped == s[1] = 0 /\ s[2] = 1
           next == Component[SubSeq(s, IF escaped THEN 3 ELSE 2, Len(s))]
       IN  [next EXCEPT !.first = <<s[1]>> \o @]

Components[s \in Seq(Byte)] ==
  IF s = <<>> \/ s[1] = 0 THEN <<>>
  ELSE <<Component[s].first>> \o Components[Component[s].rest]

DecodeKey[e \in Seq(Byte)] ==
  IF e = <<>> \/ e[1] \notin Range(TypeByte) THEN None
  ELSE LET type == CHOOSE t \in DOMAIN TypeByte : TypeByte[t] = e[1]
           rest == Tail(e)
       IN  [type |-> type,
            value |-> IF type \in {"number", "date"} THEN DecodeDouble(rest)
                      ELSE IF type # "array" THEN rest
                      ELSE LET parts == Components[rest]
                           IN [i \in DOMAIN parts |-> DecodeKey[parts[i]]]]

------------------------------------------------------------------------------
(* The order of keys: by type, then numbers and dates by their values,     *)
(* strings by their bytes, arrays by their elements.                       *)
Value(d) == IF d >= Sign THEN Sign - d ELSE d

SeqLess(a, b, Less(_, _), Same(_, _)) ==
  \E n \in 1 .. Len(b) :
    /\ n <= Len(a) + 1
    /\ \A i \in 1 .. n - 1 : Same(a[i], b[i])
    /\ n <= Len(a) => Less(a[n], b[n])

Equal(a, b) == a = b
BytesLess(a, b) == SeqLess(a, b, <, Equal)

KeyLess[k, l \in Keys \cup Nested] ==
  LET Less(a, b) == KeyLess[a, b]
      Same(a, b) == ~KeyLess[a, b] /\ ~KeyLess[b, a]
  IN  \/ TypeByte[k.type] < TypeByte[l.type]
      \/ /\ k.type = l.type
         /\ \/ k.type \in {"number", "date"} /\ Value(k.value) < Value(l.value)
            \/ k.type \in {"string", "binary"} /\ BytesLess(k.value, l.value)
            \/ k.type = "array" /\ SeqLess(k.value, l.value, Less, Same)

(* Encodings sort as keys do: equal keys, -0 and 0, are one, others not;   *)
(* and a key that is decoded is the one that was encoded.                  *)
KeysAreExact ==
  \A k \in Keys :
    /\ \A l \in Keys : BytesLess(EncodeKey[k], EncodeKey[l]) <=> KeyLess[k, l]
    /\ LET d == DecodeKey[EncodeKey[k]]
       IN  d \in Keys /\ EncodeKey[d] = EncodeKey[k]
=============================================================================
