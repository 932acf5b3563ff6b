------------------------------ MODULE Catalog ------------------------------
(***************************************************************************)
(* catalog/src/did_catalog.cpp: what loading a DID catalog accepts, and    *)
(* how a data item's bytes become a value and a value its bytes.           *)
(*                                                                         *)
(* Numbers are whole, in units in which every scale is a whole number.  A  *)
(* byte has ByteBase values and a machine word WordBytes bytes (256 and 8  *)
(* in the code), a hex digit HexBase.  A text is the sequence of its       *)
(* characters, a hex text of its digits; a digit's character is the digit. *)
(***************************************************************************)
EXTENDS Integers, Sequences, SequencesExt

CONSTANTS HexBase, WordBytes, MaxDid,
          Missing                \* an absent YAML node

ByteBase == HexBase * HexBase
Bytes == 0 .. ByteBase - 1
Texts == Seq(Bytes)
EnumValue == [raw : Int, label : Texts]

ASSUME CatalogAssumption ==
  /\ HexBase \in Nat /\ HexBase > 1
  /\ WordBytes \in Nat \ {0}
  /\ MaxDid \in Nat
  /\ Missing \notin EnumValue

\* What a byte k places from the end of a word counts: a shift by 8k bits.
Place[k \in 0 .. WordBytes] == IF k = 0 THEN 1 ELSE Place[k - 1] * ByteBase
Word == Place[WordBytes]

\* A YAML data item, its nodes converted: a key of values by std::stoi, a
\* scale to a double.  WellFormed says what else it must be.
YamlItem(y) ==
  /\ DOMAIN y = {"id", "did", "type", "access", "io_control", "session", "security",
                 "length", "encoding", "values"}
  /\ y = [field \in DOMAIN y |-> y[field]]
  /\ y.type = "float" /\ y.encoding # Missing => y.encoding.scale \in Int
  /\ y.type = "enum" /\ y.values # Missing => y.values \in Seq(EnumValue)

(***************************************************************************)
(* Loading.  A catalog file is a sequence of YAML data items; one that is  *)
(* not well formed refuses the whole file.                                 *)
(***************************************************************************)

ValidEncoding(enc) ==
  /\ enc # Missing
  /\ enc.bytes \in 1 .. WordBytes
  /\ enc.endian \in {"big", "little"}

WellFormed(y) ==
  /\ Missing \notin {y.id, y.did, y.type, y.access}
  /\ y.did \in 0 .. MaxDid
  /\ y.access \in {"read", "write", "read_write"}
  /\ y.type = "float" => ValidEncoding(y.encoding)
  /\ y.type = "enum" => y.values # Missing

\* parse_data_type: an unrecognized type is opaque bytes.
ParseDataItem(y) ==
  [y EXCEPT !.type = IF @ \in {"string", "float", "enum"} THEN @ ELSE "raw"]

\* Catalog::load_from_file: the items, or CatalogError.
Loads(file) == \A i \in DOMAIN file : WellFormed(file[i])
Items(file) == [i \in DOMAIN file |-> ParseDataItem(file[i])]

\* find_by_id and find_by_did: the first match, or Missing.
FindFirst(items, Match(_)) ==
  LET i == SelectInSeq(items, Match) IN IF i = 0 THEN Missing ELSE items[i]

FindById(items, id) == FindFirst(items, LAMBDA d : d.id = id)
FindByDid(items, did) == FindFirst(items, LAMBDA d : d.did = did)

(***************************************************************************)
(* Bytes, integers and hex digits.                                         *)
(***************************************************************************)

\* bytes_to_uint; a word keeps the last WordBytes of them.
BytesToUint(bytes, big) ==
  LET n == Len(bytes)
      word[i \in 0 .. n] ==
        IF i = 0 THEN 0
        ELSE (word[i - 1] * ByteBase + bytes[IF big THEN i ELSE n + 1 - i]) % Word
  IN word[n]

\* Mutation: the digits are not cut to a byte.
UintToBytesUnmasked(v, n, big) ==
  [i \in 1 .. n |-> v \div Place[IF big THEN n - i ELSE i - 1]]

UintToBytes(v, n, big) ==
  [i \in 1 .. n |-> (v \div Place[IF big THEN n - i ELSE i - 1]) % ByteBase]

\* from_hex of the catalog and of routes_util: whole bytes, at least one,
\* of digits only; the outcome is one sequence, or none.
FromHex(digits) ==
  IF digits = <<>> \/ Len(digits) % 2 # 0 \/ \E i \in DOMAIN digits : digits[i] \notin 0 .. HexBase - 1
  THEN {}
  ELSE {[i \in 1 .. Len(digits) \div 2 |-> digits[2 * i - 1] * HexBase + digits[2 * i]]}

ToHex(bytes) ==
  [i \in 1 .. 2 * Len(bytes) |->
     IF i % 2 = 1 THEN bytes[(i + 1) \div 2] \div HexBase ELSE bytes[i \div 2] % HexBase]

(***************************************************************************)
(* encode: the byte sequences it may return for a JSON value, none of them *)
(* when it throws CatalogError.                                            *)
(***************************************************************************)

\* Mutation: the value is truncated, not rounded.
Truncated(v, scale) == IF scale = 0 THEN v ELSE v \div scale

\* std::round(value / scale), halves away from zero; scale 0 divides nothing.
Abs(n) == IF n < 0 THEN -n ELSE n
Rounded(v, scale) ==
  IF scale = 0 THEN v
  ELSE LET magnitude == (2 * Abs(v) + Abs(scale)) \div (2 * Abs(scale))
       IN IF (v < 0) = (scale < 0) THEN magnitude ELSE -magnitude

\* max_raw as a double: that of a whole word rounds up to the word's size.
MaxRaw(n) == IF n >= WordBytes THEN Word ELSE Place[n] - 1

\* static_cast<uint64_t> of a double: undefined when it does not fit.
ToUint(raw) == IF raw < Word THEN {raw} ELSE 0 .. Word - 1

EncodeFloat(item, v) ==
  LET raw == Rounded(v, item.encoding.scale)
  IN IF raw < 0 \/ raw > MaxRaw(item.encoding.bytes) THEN {}
     ELSE {UintToBytes(u, item.encoding.bytes, item.encoding.endian = "big") : u \in ToUint(raw)}

\* The first value with the label; its key is cut to one byte.
EncodeEnum(item, label) ==
  LET match == FindFirst(item.values, LAMBDA ev : ev.label = label)
  IN IF match = Missing THEN {} ELSE {<<match.raw % ByteBase>>}

EncodeText(item, text) ==
  CASE item.type = "string" -> IF item.length > 0 /\ Len(text) > item.length THEN {} ELSE {text}
    [] item.type = "enum"   -> EncodeEnum(item, text)
    [] item.type = "raw"    -> FromHex(text)

Encode(item, json) ==
  IF item.type = "float" THEN IF json.is = "number" THEN EncodeFloat(item, json.value) ELSE {}
  ELSE IF json.is = "string" THEN EncodeText(item, json.value) ELSE {}

(***************************************************************************)
(* decode: the one value of some bytes, or none when it throws.            *)
(***************************************************************************)

\* A key is compared as a machine word; a value without one stays a number.
DecodeEnum(item, raw) ==
  LET match == FindFirst(item.values, LAMBDA ev : ev.raw % Word = raw)
  IN IF match = Missing THEN raw ELSE match.label

Decode(item, bytes) ==
  CASE item.type = "float"  -> IF Len(bytes) # item.encoding.bytes THEN {}
                               ELSE {BytesToUint(bytes, item.encoding.endian = "big") * item.encoding.scale}
    [] item.type = "string" -> {bytes}
    [] item.type = "enum"   -> {DecodeEnum(item, BytesToUint(bytes, TRUE))}
    [] item.type = "raw"    -> {ToHex(bytes)}

\* The items whose decode undoes encode, up to the resolution of a float.
\* load_from_file accepts others: a scale of zero, a float as wide as a word,
\* enum keys that are the same once they are cut to a byte.
Faithful(item) ==
  /\ item.type = "float" => item.encoding.scale # 0 /\ item.encoding.bytes < WordBytes
  /\ item.type = "enum" =>
       \A j, k \in DOMAIN item.values :
         /\ item.values[j].raw \in Bytes
         /\ item.values[j].raw = item.values[k].raw => j = k

=============================================================================
