-------------------------- MODULE MCConfiguration --------------------------
(* Instances of Configuration: files that hold configurations of every     *)
(* shape the code tells apart, files damaged at any place, and every text  *)
(* of a few tokens.                                                        *)
EXTENDS ConfigurationJson

Service(name, port) ==
    ObjValue([k \in TextKeys |-> StrValue(name)] @@ ("control_port" :> port))

Services(list) == ObjValue("services" :> ArrValue(list))
Section(name, v) == ObjValue(name :> v)

A == Service("a", IntValue(5000))
B == Service("b", IntValue(PortWord + 5000))    \* narrowed to 5000

\* Values of lsd_config.
Plain == {
    Services(<<A>>),
    Services(<<A, B>>),
    Services(<<A, A>>),
    Services(<<A, Service("a", IntValue(5001))>>),
    Services(<<A, Service("", IntValue(5000))>>),
    Services(<<A, Service("b", IntValue(PortWord))>>),
    Services(<<Service("a", IntValue(-1))>>),
    Services(<<Service("a", RealValue(5000))>>),
    Services(<<Section("name", IntValue(1))>>),
    Services(<<Null>>),
    Services(<<IntValue(1)>>),
    ObjValue("services" :> A),
    ObjValue("services" :> StrValue("a")) }

Odd == {
    Null, ObjValue(<<>>), ArrValue(<<>>), IntValue(1),
    Section("config_version", UIntValue(maxUInt)),
    Section("config_version", IntValue(-1)),
    Section("message_timeout", UIntValue(maxInt + 1)),
    Section("message_timeout", IntValue(-1)),
    Section("logger", IntValue(1)),
    Section("logger", Section("type", StrValue("NO_LOGGER"))),
    Section("logger", Section("flags", StrValue("PLOG_INFO | PLOG_MSG_TIME"))),
    Section("logger", Section("flags", StrValue("PLOG_ALL"))),
    Section("message_cache", Section("max_ram_limit", IntValue(-1))),
    Section("message_cache", Section("max_ram_limit", IntValue(2000))),
    Section("message_cache", Section("type", StrValue("DISK"))),
    Section("statistics", ObjValue("enabled" :> StrValue("no") @@ "remote_access" :> Null)),
    Section("statistics", Section("remote_port", IntValue(PortWord + 1))),
    Section("autodiscovery", Section("type", BoolValue(TRUE))) }

Configurations == {Section("lsd_config", v) : v \in Plain \cup Odd} \cup Odd

File(tokens, values) == [tokens |-> tokens, values |-> values]

Whole(v) == File(Written(v), {v})

\* A comment, a line comment and the end of its line, or the end of a line
\* before any token; a token that is missing; a string with a bad escape.
Commented(v) ==
    LET t == Written(v) IN
    UNION {{File(InsertAt(t, i, Comment), {v}),
            File(InsertAt(InsertAt(t, i, EndOfLine), i, LineComment), {v}),
            File(InsertAt(t, i, EndOfLine), {v})} : i \in 1 .. Len(t)}

Damaged(v) ==
    LET t == Written(v) IN
    UNION {{File(RemoveAt(t, i), {}), File([t EXCEPT ![i] = Token("string", Null)], {}),
            File(InsertAt(InsertAt(t, i, ArraySeparator), i, Comment), {})} : i \in 1 .. Len(t)}

One == Section("lsd_config", Services(<<Section("name", StrValue("a"))>>))
Two == Section("lsd_config", Services(<<A, B>>))
Numbers == ArrValue(<<IntValue(1), ArrValue(<<RealValue(1), Null>>), ObjValue("" :> BoolValue(TRUE))>>)

\* { "a" : [[1]] , "a" : [ /**/ 1 ] }: the second member replaces the first.
TwiceNamed ==
    LET a == Literal(StrValue("a")) one == Literal(IntValue(1)) IN
    <<ObjectBegin, a, MemberSeparator, ArrayBegin, ArrayBegin, one, ArrayEnd, ArrayEnd,
      ArraySeparator, a, MemberSeparator, ArrayBegin, Comment, one, ArrayEnd, ObjectEnd>>

Alphabet == {ObjectBegin, ObjectEnd, ArrayBegin, ArrayEnd, ArraySeparator, MemberSeparator,
             Literal(StrValue("a")), Literal(IntValue(1)), Comment}

Short == UNION {[1 .. n -> Alphabet] : n \in 0 .. 5}

MCFiles ==
    {Whole(v) : v \in Configurations} \cup Commented(Two) \cup Damaged(One)
      \cup Commented(Numbers) \cup Damaged(Numbers)
      \cup {File(TwiceNamed, {})} \cup {File(t, {}) : t \in Short}
=============================================================================
