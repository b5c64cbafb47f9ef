---------------------------- MODULE JsonReader ----------------------------
(***************************************************************************)
(* Json::Reader: the parser every text of the library goes through (the    *)
(* configuration, the answers of hosts, the headers of responses, the      *)
(* requests for statistics).                                               *)
(*                                                                         *)
(* A document is a sequence of tokens; white space is left out, but for    *)
(* the ends of lines, which end a line comment.  The recursion of          *)
(* readValue, readObject and readArray is a stack with a frame for each    *)
(* value being read, which stands for nodes_ and for where its reader is:  *)
(* at the value itself, at a member's name, after a member or element, or  *)
(* skipping to the end of a container after an error.                      *)
(***************************************************************************)
EXTENDS Json

VARIABLES
    document,   \* the tokens between begin_ and end_
    current,    \* current_
    nodes,      \* the values being read, outermost first
    root,       \* the value the text is read into
    errors,     \* the number of errors_
    lastValue,  \* the paths lastValue_ points to: none, or the one of the last value read
    parsed      \* what parse has returned: "yes" or "no"; "not yet", or "idle" before any parse

readerVars == <<document, current, nodes, root, errors, lastValue, parsed>>

Top == Last(nodes)

ReaderTypeOK ==
    /\ current \in 1 .. Len(document) + 1
    /\ \A i \in DOMAIN nodes : /\ nodes[i].at \in {"value", "member", "separator", "recovery"}
                               /\ nodes[i].kind \in {"value", "object", "array"}
                               /\ nodes[i].at # "value" <=> nodes[i].kind # "value"
                               /\ Len(nodes[i].path) = i - 1
                               /\ Exists(root, nodes[i].path)
    /\ errors \in Nat
    /\ Cardinality(lastValue) <= 1
    /\ parsed \in {"idle", "not yet", "yes", "no"}
    /\ parsed = "not yet" <=> nodes # <<>>
    /\ nodes = <<>> => (parsed = "no" <=> errors > 0)

ReaderInit ==
    /\ document = <<>>
    /\ current = 1
    /\ nodes = <<>>
    /\ root = Null
    /\ errors = 0
    /\ lastValue = {}
    /\ parsed = "idle"

\* parse(document, root) up to its call of readValue.
ValueAt(path) == [at |-> "value", kind |-> "value", path |-> path, named |-> FALSE, index |-> 0]

Parse(text) ==
    /\ document' = text
    /\ current' = 1
    /\ nodes' = <<ValueAt(<<>>)>>
    /\ root' = Null
    /\ errors' = 0
    /\ lastValue' = {}
    /\ parsed' = "not yet"

-----------------------------------------------------------------------------
(* Reading tokens                                                          *)

Places == 1 .. Len(document) + 1

\* skipSpaces: where the next token starts.
SkipSpaces(i) == Min({j \in Places : j >= i /\ (j \in DOMAIN document => document[j] # EndOfLine)})

\* readCppStyleComment: behind the end of the line, or of the document.
SkipLine(i) ==
    Min({j + 1 : j \in {k \in DOMAIN document : k >= i /\ document[k] = EndOfLine}}
          \cup {Len(document) + 1})

\* readToken: the next token and where it ends.
ReadToken(i) ==
    LET j == SkipSpaces(i) IN
    IF j > Len(document) THEN [token |-> EndOfStream, end |-> j]
    ELSE IF document[j] = LineComment THEN [token |-> Comment, end |-> SkipLine(j + 1)]
    ELSE [token |-> document[j], end |-> j + 1]

\* The first token from place i on that is not in skipped.
ReadBut(i, skipped) ==
    LET from[j \in Places] ==
            LET read == ReadToken(j)
            IN IF read.token \in skipped THEN from[read.end] ELSE read
    IN from[i]

\* skipCommentTokens
SkipComments(i) == ReadBut(i, {Comment})

\* recoverFromError: behind the next token of that kind, or at the end.
SkipUntil(i, token) ==
    ReadBut(i, (Range(document) \cup {Comment}) \ {token, EndOfStream}).end

-----------------------------------------------------------------------------
(* Returning from readValue                                                *)

\* A value that was read, or that broke inside, is the last one.
Ended == lastValue' = {Top.path}

\* The reader of the container goes on, or recovers; parse skips the comments
\* that follow the root, whatever comes after them.
Return(ok) ==
    IF Len(nodes) = 1
    THEN nodes' = <<>> /\ parsed' = (IF ok THEN "yes" ELSE "no")
    ELSE /\ nodes' = [Front(nodes) EXCEPT ![Len(nodes) - 1].at =
                          IF ok THEN "separator" ELSE "recovery"]
         /\ UNCHANGED parsed

\* The frame of a container becomes f, with a frame for its child at step.
Enter(f, step) ==
    nodes' = Append(Front(nodes), f) \o <<ValueAt(Append(f.path, step))>>

\* The frame of the value being read becomes f.
GoOn(f) == nodes' = Append(Front(nodes), f)

Recovering == [Top EXCEPT !.at = "recovery"]

-----------------------------------------------------------------------------
(* readValue                                                               *)

\* decodeNumber: digits whose value stays under a tenth of the limit before
\* the last one are an integer, others are read as a real number.
DecodedNumber(v) ==
    IF Type(v) = "real" THEN v
    ELSE LET n == v.int
             size == IF n < 0 THEN -n ELSE n
             threshold == (IF n < 0 THEN -minInt ELSE maxUInt) \div 10
         IN IF size \div 10 >= threshold THEN RealValue(n)
            ELSE IF n <= maxInt THEN IntValue(n) ELSE UIntValue(n)

Scalars == {"number", "string", "true", "false", "null"}

Decoded(token) ==
    CASE token.type = "number" -> DecodedNumber(token.value)
      [] token.type = "string" -> token.value
      [] token.type = "null" -> Null
      [] OTHER -> BoolValue(token.type = "true")

Broken(token) == token.type \in {"number", "string"} /\ token.value = Null

ReadScalar ==
    LET read == SkipComments(current) IN
    /\ Top.at = "value"
    /\ read.token.type \in Scalars
    /\ ~Broken(read.token)
    /\ current' = read.end
    /\ root' = Assigned(root, Top.path, Decoded(read.token))
    /\ Return(TRUE)
    /\ Ended
    /\ UNCHANGED <<document, errors>>

\* A number that is none, a string with a bad escape.
ReadBrokenScalar ==
    LET read == SkipComments(current) IN
    /\ Top.at = "value"
    /\ Broken(read.token)
    /\ current' = read.end
    /\ errors' = errors + 1
    /\ Return(FALSE)
    /\ Ended
    /\ UNCHANGED <<document, root>>

\* A bug that could be made in the next one: the end of the text is taken for
\* a value, which the array that is read goes on from.
ReadNothingAsNull ==
    LET read == SkipComments(current) IN
    /\ Top.at = "value"
    /\ read.token.type \notin Scalars
    /\ read.token \notin {ObjectBegin, ArrayBegin}
    /\ current' = read.end
    /\ errors' = errors + (IF read.token = EndOfStream THEN 0 ELSE 1)
    /\ Return(read.token = EndOfStream)
    /\ UNCHANGED <<document, root, lastValue>>

\* "Syntax error: value, object or array expected."
ReadNoValue ==
    LET read == SkipComments(current) IN
    /\ Top.at = "value"
    /\ read.token.type \notin Scalars
    /\ read.token \notin {ObjectBegin, ArrayBegin}
    /\ current' = read.end
    /\ errors' = errors + 1
    /\ Return(FALSE)
    /\ UNCHANGED <<document, root, lastValue>>

BeginObject ==
    LET read == SkipComments(current) IN
    /\ Top.at = "value"
    /\ read.token = ObjectBegin
    /\ current' = read.end
    /\ root' = Assigned(root, Top.path, ObjValue(<<>>))
    /\ GoOn([Top EXCEPT !.at = "member", !.kind = "object"])
    /\ UNCHANGED <<document, errors, lastValue, parsed>>

\* A bug that could be made in the next one: no test for an empty array.
BeginArrayOfOne ==
    LET read == SkipComments(current) IN
    /\ Top.at = "value"
    /\ read.token = ArrayBegin
    /\ current' = SkipSpaces(read.end)
    /\ root' = Assigned(root, Top.path, ArrValue(<<Null>>))
    /\ Enter([Top EXCEPT !.at = "separator", !.kind = "array", !.index = 1], Index(1))
    /\ UNCHANGED <<document, errors, lastValue, parsed>>

\* Only a ']' that follows at once makes an empty array: a comment between
\* the brackets is taken for the start of an element.
BeginArray ==
    LET read == SkipComments(current)
        next == ReadToken(read.end)
    IN
    /\ Top.at = "value"
    /\ read.token = ArrayBegin
    /\ IF next.token = ArrayEnd
       THEN /\ current' = next.end
            /\ root' = Assigned(root, Top.path, ArrValue(<<>>))
            /\ Return(TRUE)
            /\ Ended
       ELSE /\ current' = SkipSpaces(read.end)
            /\ root' = Assigned(root, Top.path, ArrValue(<<Null>>))
            /\ Enter([Top EXCEPT !.at = "separator", !.kind = "array", !.index = 1], Index(1))
            /\ UNCHANGED <<lastValue, parsed>>
    /\ UNCHANGED <<document, errors>>

-----------------------------------------------------------------------------
(* readObject                                                              *)

\* '}' ends an object that has no member yet, or whose last member has the empty name.
EndEmptyObject ==
    LET read == SkipComments(current) IN
    /\ Top.at = "member"
    /\ read.token = ObjectEnd
    /\ ~Top.named
    /\ current' = read.end
    /\ Return(TRUE)
    /\ Ended
    /\ UNCHANGED <<document, root, errors>>

\* A name and, at once, a ':'; a name that was used is used again.
ReadMember ==
    LET read == SkipComments(current)
        colon == ReadToken(read.end)
        name == read.token.value.str
        path == Append(Top.path, Key(name))
    IN
    /\ Top.at = "member"
    /\ read.token.type = "string"
    /\ ~Broken(read.token)
    /\ colon.token = MemberSeparator
    /\ current' = colon.end
    /\ root' = IF Exists(root, path) THEN root ELSE Assigned(root, path, Null)
    /\ Enter([Top EXCEPT !.named = name # ""], Key(name))
    /\ UNCHANGED <<document, errors, lastValue, parsed>>

ReadNoMember ==
    LET read == SkipComments(current)
        colon == ReadToken(read.end)
    IN
    /\ Top.at = "member"
    /\ read.token = ObjectEnd => Top.named
    /\ \/ read.token.type # "string" /\ current' = read.end
       \/ Broken(read.token) /\ current' = read.end
       \/ /\ read.token.type = "string"
          /\ ~Broken(read.token)
          /\ colon.token # MemberSeparator
          /\ current' = colon.end
    /\ errors' = errors + 1
    /\ GoOn(Recovering)
    /\ UNCHANGED <<document, root, lastValue, parsed>>

\* After a comment, any token stands for the ','.
ReadSeparator ==
    LET read == ReadToken(current)
        comma == IF read.token = Comment THEN SkipComments(read.end) ELSE read
    IN
    /\ Top.at = "separator" /\ Top.kind = "object"
    /\ read.token \in {ObjectEnd, ArraySeparator, Comment}
    /\ current' = comma.end
    /\ IF comma.token = ObjectEnd
       THEN Return(TRUE) /\ Ended
       ELSE GoOn([Top EXCEPT !.at = "member"]) /\ UNCHANGED <<lastValue, parsed>>
    /\ UNCHANGED <<document, root, errors>>

ReadNoSeparator ==
    LET read == ReadToken(current) IN
    /\ Top.at = "separator" /\ Top.kind = "object"
    /\ read.token \notin {ObjectEnd, ArraySeparator, Comment}
    /\ current' = read.end
    /\ errors' = errors + 1
    /\ GoOn(Recovering)
    /\ UNCHANGED <<document, root, lastValue, parsed>>

-----------------------------------------------------------------------------
(* readArray                                                               *)

\* A bug that could be made in the next one: an array that ends does not become
\* the last value.
EndElementOnly ==
    LET read == SkipComments(current) IN
    /\ Top.at = "separator" /\ Top.kind = "array"
    /\ current' = read.end
    /\ IF read.token = ArrayEnd
       THEN Return(TRUE) /\ UNCHANGED root
       ELSE /\ root' = Assigned(root, Append(Top.path, Index(Top.index + 1)), Null)
            /\ Enter([Top EXCEPT !.index = @ + 1], Index(Top.index + 1))
            /\ UNCHANGED parsed
    /\ UNCHANGED <<document, errors, lastValue>>

\* badTokenType is never true: whatever follows an element and is not ']'
\* stands for the ','.
EndElement ==
    LET read == SkipComments(current) IN
    /\ Top.at = "separator" /\ Top.kind = "array"
    /\ current' = read.end
    /\ IF read.token = ArrayEnd
       THEN Return(TRUE) /\ Ended /\ UNCHANGED root
       ELSE /\ root' = Assigned(root, Append(Top.path, Index(Top.index + 1)), Null)
            /\ Enter([Top EXCEPT !.index = @ + 1], Index(Top.index + 1))
            /\ UNCHANGED <<lastValue, parsed>>
    /\ UNCHANGED <<document, errors>>

-----------------------------------------------------------------------------
\* recoverFromError: skip to the end of the container, and let it fail.
Recover ==
    /\ Top.at = "recovery"
    /\ current' = SkipUntil(current, IF Top.kind = "object" THEN ObjectEnd ELSE ArrayEnd)
    /\ Return(FALSE)
    /\ Ended
    /\ UNCHANGED <<document, root, errors>>

ReaderStep ==
    /\ nodes # <<>>
    /\ \/ ReadScalar \/ ReadBrokenScalar \/ ReadNoValue \/ BeginObject \/ BeginArray
       \/ EndEmptyObject \/ ReadMember \/ ReadNoMember
       \/ ReadSeparator \/ ReadNoSeparator \/ EndElement \/ Recover

\* Any texts of these tokens, one after the other.
ReadNext(Tokens) == nodes = <<>> /\ \E text \in Seq(Tokens) : Parse(text)

ReaderSpec(Tokens) == ReaderInit /\ [][ReadNext(Tokens) \/ ReaderStep]_readerVars

-----------------------------------------------------------------------------
(* Properties                                                              *)

\* A comment that follows a value on its line is given to the value
\* lastValue_ points to: that value must be alive, also when the container it
\* was in has been replaced by a member of the same name.
CommentsMeetAValue == \A path \in lastValue : Exists(root, path)

\* The reader does no work that the text does not pay for: the values that are
\* open and the elements of their arrays are never more than the tokens read,
\* so that parse returns, at the end of the text at the latest, whatever is
\* left open there (readValue at the end of the stream, recoverFromError).
WorkIsBounded ==
    \A i \in DOMAIN nodes : i + nodes[i].index <= current + 1
=============================================================================
