----------------------------- MODULE JsonWriter -----------------------------
(***************************************************************************)
(* Json::FastWriter: the tokens it writes of a value, and when a value     *)
(* that was read is the one that was written.                              *)
(***************************************************************************)
EXTENDS Json

RECURSIVE Separated(_)
Separated(parts) ==
    IF Len(parts) = 0 THEN <<>>
    ELSE IF Len(parts) = 1 THEN parts[1]
    ELSE parts[1] \o <<ArraySeparator>> \o Separated(Tail(parts))

\* The names of an object in one order: the order of its map.
MemberNames(v) == FoldSet(LAMBDA name, names : Append(names, name), <<>>, DOMAIN v.obj)

\* FastWriter::writeValue
RECURSIVE Written(_)
Written(v) ==
    CASE Type(v) = "arr" ->
           <<ArrayBegin>> \o Separated([i \in DOMAIN v.arr |-> Written(v.arr[i])]) \o <<ArrayEnd>>
      [] Type(v) = "obj" ->
           LET names == MemberNames(v) IN
           <<ObjectBegin>>
             \o Separated([i \in DOMAIN names |->
                   <<Literal(StrValue(names[i])), MemberSeparator>> \o Written(v.obj[names[i]])])
             \o <<ObjectEnd>>
      [] OTHER -> <<Literal(v)>>

\* Two values a reader of the text cannot tell apart: the kind of a number may differ.
RECURSIVE SameValue(_, _)
SameValue(v, w) ==
    CASE Type(v) \in {"int", "uint", "real"} ->
           Type(w) \in {"int", "uint", "real"} /\ Content(v) = Content(w)
      [] Type(v) # Type(w) -> FALSE
      [] Type(v) = "arr" -> /\ Len(v.arr) = Len(w.arr)
                            /\ \A i \in DOMAIN v.arr : SameValue(v.arr[i], w.arr[i])
      [] Type(v) = "obj" -> /\ DOMAIN v.obj = DOMAIN w.obj
                            /\ \A k \in DOMAIN v.obj : SameValue(v.obj[k], w.obj[k])
      [] OTHER -> v = w
=============================================================================
