------------------------------- MODULE Json -------------------------------
(***************************************************************************)
(* Values of the bundled jsoncpp 0.5.0 (Json::Value), their conversions    *)
(* and the tokens of their texts.                                          *)
(*                                                                         *)
(* A value is a record with one field, named for its type.  Integers have  *)
(* the width IntBits; a real number is represented by its integer part.    *)
(* Texts are atomic: the characters of strings, and the escapes they are   *)
(* written with, are left out, except that the text of a token may have a  *)
(* bad escape.  The structures built on Value's maps (comparison, paths,   *)
(* the internal map and array, which are compiled out) have no caller.     *)
(***************************************************************************)
EXTENDS Integers, Sequences, FiniteSets, SequencesExt

CONSTANT IntBits

ASSUME IntBitsAssumption == IntBits \in Nat \ {0}

maxInt == 2^(IntBits - 1) - 1
minInt == -(2^(IntBits - 1))
maxUInt == 2^IntBits - 1

Null == [null |-> TRUE]
IntValue(n) == [int |-> n]
UIntValue(n) == [uint |-> n]
RealValue(n) == [real |-> n]
BoolValue(b) == [bool |-> b]
StrValue(s) == [str |-> s]
ArrValue(s) == [arr |-> s]
ObjValue(f) == [obj |-> f]

Type(v) == CHOOSE t \in DOMAIN v : TRUE
Content(v) == v[Type(v)]

\* value_.map_->size() of an array or an object, and 0 of everything else.
Size(v) == CASE Type(v) = "arr" -> Len(v.arr)
             [] Type(v) = "obj" -> Cardinality(DOMAIN v.obj)
             [] OTHER -> 0

-----------------------------------------------------------------------------
(* Conversions: what can be converted, and to what.  What cannot throws.   *)

IsText(v) == Type(v) \in {"null", "str", "bool"}
asString(v) == CASE Type(v) = "null" -> ""
                 [] Type(v) = "bool" -> IF v.bool THEN "true" ELSE "false"
                 [] OTHER -> v.str

IsInt(v) ==
    CASE Type(v) \in {"null", "bool", "int"} -> TRUE
      [] Type(v) = "uint" -> v.uint < maxInt
      [] Type(v) = "real" -> v.real \in minInt .. maxInt
      [] OTHER -> FALSE

IsUInt(v) ==
    CASE Type(v) \in {"null", "bool", "uint"} -> TRUE
      [] Type(v) = "int" -> v.int >= 0
      [] Type(v) = "real" -> v.real \in 0 .. maxUInt
      [] OTHER -> FALSE

asNumber(v) == CASE Type(v) = "null" -> 0
                 [] Type(v) = "bool" -> IF v.bool THEN 1 ELSE 0
                 [] OTHER -> Content(v)

asBool(v) == CASE Type(v) = "null" -> FALSE
               [] Type(v) = "bool" -> v.bool
               [] Type(v) = "str" -> v.str # ""
               [] Type(v) \in {"arr", "obj"} -> Size(v) # 0
               [] OTHER -> Content(v) # 0

\* The types whose members and elements may be asked for; of any other an
\* assertion fails.
HasMembers(v) == Type(v) \in {"null", "obj"}
HasElements(v) == Type(v) \in {"null", "arr"}

\* A member that is not there is the static value null, for which get returns
\* its default; a member that is there and is null is not that value.
Has(v, key) == Type(v) = "obj" /\ key \in DOMAIN v.obj
Member(v, key) == IF Has(v, key) THEN v.obj[key] ELSE Null
get(v, key, default) == IF Has(v, key) THEN v.obj[key] ELSE default
Element(v, i) == IF Type(v) = "arr" /\ i \in DOMAIN v.arr THEN v.arr[i] ELSE Null

-----------------------------------------------------------------------------
(* Places in a value: paths of keys and of indices.                        *)

Key(k) == [key |-> k]
Index(i) == [index |-> i]

HasChild(v, step) ==
    \/ "key" \in DOMAIN step /\ Has(v, step.key)
    \/ "index" \in DOMAIN step /\ Type(v) = "arr" /\ step.index \in DOMAIN v.arr

Child(v, step) == IF "key" \in DOMAIN step THEN v.obj[step.key] ELSE v.arr[step.index]

\* The values along a path: the n-th is the one behind n steps.
Along(v, path) ==
    LET at[n \in 0 .. Len(path)] == IF n = 0 THEN v ELSE Child(at[n - 1], path[n]) IN at

Exists(v, path) == \A n \in 1 .. Len(path) : HasChild(Along(v, path)[n - 1], path[n])

\* operator[] inserts what is not there; a null becomes the container first.
WithChild(v, step, x) ==
    IF "key" \in DOMAIN step
    THEN LET f == IF Type(v) = "obj" THEN v.obj ELSE <<>> IN
         ObjValue([k \in DOMAIN f \cup {step.key} |-> IF k = step.key THEN x ELSE f[k]])
    ELSE LET s == IF Type(v) = "arr" THEN v.arr ELSE <<>> IN
         ArrValue(IF step.index \in DOMAIN s THEN [s EXCEPT ![step.index] = x] ELSE Append(s, x))

\* The value at path becomes x, and so each value around it, from the inside out, a new one.
Assigned(v, path, x) ==
    LET last == Len(path)
        new[n \in 0 .. last] ==
            IF n = 0 THEN x
            ELSE WithChild(Along(v, path)[last - n], path[last - n + 1], new[n - 1])
    IN new[last]

-----------------------------------------------------------------------------
(* Tokens.  Strings and numbers carry a value: Null when the string has a  *)
(* bad escape or the number is not one.                                    *)

Token(type, value) == [type |-> type, value |-> value]
Mark(type) == Token(type, Null)

ObjectBegin == Mark("{")
ObjectEnd == Mark("}")
ArrayBegin == Mark("[")
ArrayEnd == Mark("]")
ArraySeparator == Mark(",")
MemberSeparator == Mark(":")
EndOfStream == Mark("end of stream")
Comment == Mark("comment")
LineComment == Mark("line comment")
Error == Mark("error")
EndOfLine == Mark("end of line")

Literal(v) ==
    CASE Type(v) = "null" -> Mark("null")
      [] Type(v) = "bool" -> Mark(IF v.bool THEN "true" ELSE "false")
      [] Type(v) = "str" -> Token("string", v)
      [] Type(v) = "real" -> Token("number", v)
      [] OTHER -> Token("number", IntValue(Content(v)))   \* digits: no sign of the type
=============================================================================
