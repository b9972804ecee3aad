------------------------------- MODULE Documents -------------------------------
(* What the documents of a device are made of: packed values, which are a text,*)
(* a number, a flag, nothing or an array; objects by name; and enumerations.   *)
(* Decoding has no result, or one: it is the set of what comes of it.          *)
EXTENDS Naturals, Sequences, SequencesExt

Text(s) == [text |-> s]
Number(n) == [number |-> n]
Flag(b) == [flag |-> b]
Null == [null |-> TRUE]
Items(s) == [items |-> s]

IsText(v) == DOMAIN v = {"text"}
IsFlag(v) == DOMAIN v = {"flag"}
IsNull(v) == DOMAIN v = {"null"}
IsItems(v) == DOMAIN v = {"items"}
IsByte(v) == DOMAIN v = {"number"} /\ v.number < 256     \* is<uint8_t>()
IsNumber(v) == DOMAIN v = {"number"}                     \* is<uint32_t>()

\* The numbers of an enumeration, from 0, and their names.
Numbers(names) == 0 .. Len(names) - 1
NameOf(names, n, otherwise) == IF n \in Numbers(names) THEN names[n + 1] ELSE otherwise

AddOptional(s) == IF s = "" THEN Null ELSE Text(s)

\* An array of what Pack makes of each.
Each(Pack(_), s) == Items([i \in DOMAIN s |-> Pack(s[i])])

\* Fields of an object that are there only when they say something.
Nothing == <<>>
Optional(key, s) == IF s = "" THEN Nothing ELSE key :> s
NameEach(Name(_), s) == [i \in DOMAIN s |-> Name(s[i])]

\* An array of that many fields at least, of which Fits holds.
Fields(v, least, Fits(_)) == IsItems(v) /\ Len(v.items) >= least /\ Fits(v.items)

CopyOptional(key, v) == IF IsNull(v) THEN {Nothing} ELSE IF IsText(v) THEN {key :> v.text} ELSE {}

\* What all of an array decode to, if each of them does.
DecodeEach(Decode(_), v) ==
    LET decoded == [i \in DOMAIN v.items |-> Decode(v.items[i])]
    IN  IF \E i \in DOMAIN decoded : decoded[i] = {} THEN {}
        ELSE {[i \in DOMAIN decoded |-> CHOOSE d \in decoded[i] : TRUE]}

\* A packed value with one part of it changed, missing or too much.
RECURSIVE Damaged(_)
Damaged(v) ==
    {Null, Number(0), Number(9), Number(300), Text(""), Items(<<>>)} \cup
    (IF ~IsItems(v) THEN {}
     ELSE LET s == v.items
          IN  {Items(Append(s, Null))}
              \cup (IF s = <<>> THEN {} ELSE {Items(Front(s))})
              \cup UNION {{Items([s EXCEPT ![i] = d]) : d \in Damaged(s[i])} : i \in DOMAIN s})
===============================================================================
