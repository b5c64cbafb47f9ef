------------------------ MODULE ConfigurationProofs -------------------------
(***************************************************************************)
(* The reader of Json::Reader, for every text of any tokens: its work is   *)
(* bounded by the text (WorkBounded) and a comment is never given to a     *)
(* value that is gone (CommentsSafe); and the load of a configuration, for *)
(* every file: it is a user of the reader (LoadUsesReader), has every      *)
(* service of the file when it succeeds (EveryServiceIsLoaded), and keeps  *)
(* nothing that does not fit its field (LoadingTyped).                     *)
(*                                                                         *)
(* The reader's recursion is the stack nodes.  A frame stands for a place  *)
(* in root: its path goes one step on from the path of the frame below     *)
(* it, and root has a value there of the kind the frame reads (StandsFor). *)
(* The value of the frame on top is assigned, a value below it is changed  *)
(* by what is assigned inside it, but keeps its kind and its other         *)
(* children (Keeps, AssignedOnPath), so that the frames below the top      *)
(* stand (TopAssigned, ChildAssigned).                                     *)
(*                                                                         *)
(* A frame is opened, or its index grows, only with a token that was read  *)
(* (PaidFor), which is WorkIsBounded.  That a failure passes a frame on    *)
(* its way down only after an error was counted (FailsByErrors) keeps the  *)
(* answer of parse in step with errors.                                    *)
(*                                                                         *)
(* lastValue is the path of a value that was read to its end or broke, so  *)
(* it is not inside any value that is still being read to be replaced:     *)
(* either it is a place in root, and stays one as long as no frame that    *)
(* is assigned is above it (LastIsThere, LastsUpTo), or there is none.     *)
(*                                                                         *)
(* For the services and the settings the value that was read has to be one *)
(* whose size and whose numbers are numbers (Proper), at every place, and  *)
(* through all assignments (AssignedProper, StepStaysProper).  MadeOf then *)
(* follows the list of the services, SettingsSoFar the settings.           *)
(*                                                                         *)
(* The model's loops are recursive functions.  That they have the values   *)
(* their equations say is shown by induction over the numbers up to which  *)
(* they do (FromZeroOn).                                                   *)
(***************************************************************************)
EXTENDS Configuration, SequenceTheorems, FiniteSetTheorems, TLAPS

-----------------------------------------------------------------------------
(* Numbers and loops                                                       *)

\* Induction.
LEMMA FromZeroOn ==
    ASSUME NEW P \in SUBSET Nat, 0 \in P, \A n \in P : n + 1 \in P
    PROVE  P = Nat
<1>1. SUFFICES ASSUME NEW n \in Nat, n \notin P
               PROVE  FALSE
    OBVIOUS
<1> DEFINE A == P \cap (0..n)
           next1 == [m \in A |-> m + 1]
<1>2. IsFiniteSet(0..n)
    BY FS_Interval
<1>3. IsFiniteSet(A) /\ 0 \in A
    BY <1>2, FS_Subset
<1>4. IsFiniteSet(A \ {0}) /\ Cardinality(A \ {0}) < Cardinality(A)
    <2> HIDE DEF A
    <2>1. Cardinality(A) \in Nat
        BY <1>3, FS_CardinalityType
    <2>2. IsFiniteSet(A \ {0}) /\ Cardinality(A \ {0}) = Cardinality(A) - 1
        BY <1>3, FS_RemoveElement
    <2> QED
        BY <2>1, <2>2
<1>5. \A i \in A : i \in Nat /\ i + 1 \in A \ {0}
    BY <1>1
<1>6. next1 \in [A -> A \ {0}]
    BY <1>5
<1>7. \A m \in A : next1[m] = m + 1
    OBVIOUS
<1> HIDE DEF A, next1
<1>8. PICK i, j \in A : i # j /\ next1[i] = next1[j]
    BY <1>3, <1>4, <1>6, FS_PigeonHole
<1> QED
    BY <1>5, <1>7, <1>8

\* A set of numbers has a least one.
LEMMA LeastIs ==
    ASSUME NEW S \in SUBSET Nat, S # {}
    PROVE  Min(S) \in S
<1> DEFINE P == {n \in Nat : \A m \in S : n <= m}
<1>1. PICK least \in S : \A m \in S : least <= m
    <2>1. SUFFICES ASSUME \A least \in S : \E m \in S : m < least
                   PROVE  FALSE
        OBVIOUS
    <2>2. \A n \in P : n + 1 \in P
        <3>1. SUFFICES ASSUME NEW n \in P, NEW m \in S
                       PROVE  n + 1 <= m
            OBVIOUS
        <3>2. PICK k \in S : k < m
            BY <2>1
        <3> QED
            BY <3>2
    <2>3. P \in SUBSET Nat /\ 0 \in P
        OBVIOUS
    <2>4. PICK m \in S : TRUE
        OBVIOUS
    <2>5. m + 1 \in P
        <3> HIDE DEF P
        <3> QED
            BY <2>2, <2>3, FromZeroOn
    <2> QED
        BY <2>5
<1> QED
    BY <1>1 DEF Min

-----------------------------------------------------------------------------
(* Tokens                                                                  *)

\* What is read of a text of these tokens.
TokensRead(Tokens) == Tokens \cup {EndOfStream, Comment}

\* Reading from place i came to the place read.end: behind i, but at the end of the text.
Reads(Tokens, i, read) ==
    /\ read.token \in TokensRead(Tokens)
    /\ read.end \in Places /\ i <= read.end
    /\ read.token # EndOfStream => i < read.end

LEMMA PlacesAre ==
    ASSUME NEW Tokens, document \in Seq(Tokens)
    PROVE  /\ Len(document) \in Nat /\ DOMAIN document = 1 .. Len(document)
           /\ Places = 1 .. Len(document) + 1 /\ Places \in SUBSET Nat
           /\ \A i \in DOMAIN document : document[i] \in Tokens
BY LenProperties DEF Places

LEMMA SkipSpacesIs ==
    ASSUME NEW Tokens, document \in Seq(Tokens), NEW i \in Places
    PROVE  SkipSpaces(i) \in Places /\ i <= SkipSpaces(i)
<1> DEFINE S == {j \in Places : j >= i /\ (j \in DOMAIN document => document[j] # EndOfLine)}
<1>1. Len(document) + 1 \in S /\ S \in SUBSET Nat
    BY PlacesAre
<1>2. Min(S) \in S
    BY <1>1, LeastIs
<1> QED
    BY <1>2 DEF SkipSpaces

LEMMA SkipLineIs ==
    ASSUME NEW Tokens, document \in Seq(Tokens), NEW i \in Places
    PROVE  SkipLine(i) \in Places /\ i <= SkipLine(i)
<1> DEFINE S == {j + 1 : j \in {k \in DOMAIN document : k >= i /\ document[k] = EndOfLine}}
                  \cup {Len(document) + 1}
<1>1. S # {} /\ \A j \in S : j \in Places /\ i <= j
    BY PlacesAre
<1>2. S \in SUBSET Nat
    BY <1>1, PlacesAre
<1>3. Min(S) \in S
    BY <1>1, <1>2, LeastIs
<1> QED
    BY <1>1, <1>3 DEF SkipLine

LEMMA ReadTokenIs ==
    ASSUME NEW Tokens, document \in Seq(Tokens), NEW i \in Places
    PROVE  Reads(Tokens, i, ReadToken(i))
<1> DEFINE j == SkipSpaces(i)
<1>1. j \in Places /\ i <= j
    BY SkipSpacesIs
<1>2. CASE j > Len(document)
    <2>1. ReadToken(i) = [token |-> EndOfStream, end |-> j]
        BY <1>2 DEF ReadToken
    <2> QED
        BY <1>1, <2>1 DEF Reads, TokensRead
<1>3. CASE j <= Len(document) /\ document[j] = LineComment
    <2>1. j + 1 \in Places
        BY <1>1, <1>3, PlacesAre
    <2>2. ReadToken(i) = [token |-> Comment, end |-> SkipLine(j + 1)]
        BY <1>1, <1>3, PlacesAre DEF ReadToken
    <2>3. SkipLine(j + 1) \in Places /\ j + 1 <= SkipLine(j + 1)
        BY <2>1, SkipLineIs
    <2> QED
        BY <1>1, <2>2, <2>3, PlacesAre DEF Reads, TokensRead
<1>4. CASE j <= Len(document) /\ document[j] # LineComment
    <2>1. ReadToken(i) = [token |-> document[j], end |-> j + 1]
        BY <1>1, <1>4, PlacesAre DEF ReadToken
    <2> QED
        BY <1>1, <1>4, <2>1, PlacesAre DEF Reads, TokensRead
<1> QED
    BY <1>1, <1>2, <1>3, <1>4, PlacesAre

\* The last places, and u[j] is what ReadBut reads from each of them.
Away(k) == {j \in Places : Len(document) + 1 - j <= k}
Reading(skipped, u, j) ==
    IF ReadToken(j).token \in skipped THEN u[ReadToken(j).end] ELSE ReadToken(j)
ReadsBut(skipped, u, k) == u = [j \in Away(k) |-> Reading(skipped, u, j)]

LEMMA ReadButExists ==
    ASSUME NEW Tokens, document \in Seq(Tokens), NEW skipped, EndOfStream \notin skipped,
           NEW k \in Nat
    PROVE  \E u : ReadsBut(skipped, u, k)
<1> DEFINE P == {n \in Nat : \E u : ReadsBut(skipped, u, n)}
<1>1. ASSUME NEW j \in Places
      PROVE  Reads(Tokens, j, ReadToken(j))
    BY ReadTokenIs
<1>2. 0 \in P
    <2>1. \A j \in Away(0) : j = Len(document) + 1
        BY PlacesAre DEF Away
    <2>2. \A j \in Away(0) : ReadToken(j).token \notin skipped
        <3>1. SUFFICES ASSUME NEW j \in Away(0), ReadToken(j).token # EndOfStream
                       PROVE  FALSE
            OBVIOUS
        <3> QED
            BY <1>1, <2>1, <3>1, PlacesAre DEF Reads
    <2>3. ReadsBut(skipped, [j \in Away(0) |-> ReadToken(j)], 0)
        BY <2>2 DEF ReadsBut, Reading
    <2> QED
        BY <2>3
<1>3. ASSUME NEW n \in P
      PROVE  n + 1 \in P
    <2>1. PICK u : ReadsBut(skipped, u, n)
        OBVIOUS
    <2>2. \A j \in Away(n) : u[j] = Reading(skipped, u, j)
        BY <2>1 DEF ReadsBut
    <2> DEFINE w == [j \in Away(n + 1) |-> Reading(skipped, u, j)]
    <2>3. ASSUME NEW j \in Away(n + 1), ReadToken(j).token \in skipped
          PROVE  ReadToken(j).end \in Away(n)
        <3>1. j \in Places /\ Len(document) + 1 - j <= n + 1
            BY <2>3 DEF Away
        <3>2. ReadToken(j).end \in Places /\ j < ReadToken(j).end
            BY <1>1, <2>3, <3>1 DEF Reads
        <3> DEFINE e == ReadToken(j).end
                   l == Len(document)
        <3>3. j \in Nat /\ e \in Nat /\ l \in Nat /\ n \in Nat
            BY <3>1, <3>2, PlacesAre
        <3> HIDE DEF e, l
        <3>4. j < e /\ l + 1 - j <= n + 1
            BY <3>1, <3>2 DEF e, l
        <3>5. l + 1 - e <= n
            BY <3>3, <3>4
        <3> QED
            BY <3>2, <3>5 DEF Away, e, l
    <2>4. Away(n) \subseteq Away(n + 1)
        BY PlacesAre DEF Away
    <2>5. \A j \in Away(n) : w[j] = u[j]
        BY <2>2, <2>4
    <2>6. \A j \in Away(n + 1) : w[j] = Reading(skipped, w, j)
        BY <2>3, <2>5 DEF Reading
    <2>7. w = [j \in Away(n + 1) |-> Reading(skipped, w, j)]
        BY <2>6
    <2>8. ReadsBut(skipped, w, n + 1)
        <3> HIDE DEF w
        <3> QED
            BY <2>7 DEF ReadsBut
    <2> QED
        BY <2>8
<1>4. k \in P
    <2> HIDE DEF P
    <2>1. P \in SUBSET Nat
        BY DEF P
    <2> QED
        BY <1>2, <1>3, <2>1, FromZeroOn
<1> QED
    BY <1>4

\* Reading on, some tokens skipped, is like reading one.
LEMMA ReadButIs ==
    ASSUME NEW Tokens, document \in Seq(Tokens), NEW skipped, EndOfStream \notin skipped,
           NEW i \in Places
    PROVE  Reads(Tokens, i, ReadBut(i, skipped))
<1> DEFINE last == Len(document) + 1
           from == CHOOSE w : w = [j \in Places |-> Reading(skipped, w, j)]
           P == {n \in Nat : \A j \in Places : last - j <= n => Reads(Tokens, j, from[j])}
<1>1. PICK u : ReadsBut(skipped, u, last)
    BY ReadButExists, PlacesAre
<1>2. Away(last) = Places
    BY PlacesAre DEF Away
<1>3. u = [j \in Places |-> Reading(skipped, u, j)]
    BY <1>1, <1>2 DEF ReadsBut
<1>4. from = [j \in Places |-> Reading(skipped, from, j)]
    BY <1>3
<1>5. ReadBut(i, skipped) = from[i]
    BY DEF ReadBut, Reading
<1> HIDE DEF from
<1>6. \A j \in Places : from[j] = Reading(skipped, from, j)
    BY <1>4
<1>7. ASSUME NEW j \in Places
      PROVE  Reads(Tokens, j, ReadToken(j))
    BY ReadTokenIs
<1>8. 0 \in P
    <2>1. SUFFICES ASSUME NEW j \in Places, last - j <= 0
                   PROVE  Reads(Tokens, j, from[j])
        OBVIOUS
    <2>2. ReadToken(j).token = EndOfStream
        BY <1>7, <2>1, PlacesAre DEF Reads
    <2> QED
        BY <1>6, <1>7, <2>2 DEF Reading
<1>9. ASSUME NEW n \in P
      PROVE  n + 1 \in P
    <2>1. SUFFICES ASSUME NEW j \in Places, last - j <= n + 1
                   PROVE  Reads(Tokens, j, from[j])
        OBVIOUS
    <2>2. CASE ReadToken(j).token \notin skipped
        BY <1>6, <1>7, <2>2 DEF Reading
    <2>3. CASE ReadToken(j).token \in skipped
        <3> DEFINE e == ReadToken(j).end
        <3>1. e \in Places /\ j < e
            BY <1>7, <2>3 DEF Reads
        <3>2. last - e <= n
            BY <2>1, <3>1, PlacesAre
        <3>3. Reads(Tokens, e, from[e])
            BY <3>1, <3>2
        <3>4. from[j] = from[e]
            BY <1>6, <2>3 DEF Reading
        <3> QED
            BY <3>1, <3>3, <3>4, PlacesAre DEF Reads
    <2> QED
        BY <2>2, <2>3
<1>10. P = Nat
    <2> HIDE DEF P
    <2>1. P \in SUBSET Nat
        BY DEF P
    <2> QED
        BY <1>8, <1>9, <2>1, FromZeroOn
<1>11. last - i \in Nat /\ last - i <= last - i
    BY PlacesAre
<1> QED
    BY <1>5, <1>10, <1>11

LEMMA SkipCommentsIs ==
    ASSUME NEW Tokens, document \in Seq(Tokens), NEW i \in Places
    PROVE  Reads(Tokens, i, SkipComments(i))
<1>1. EndOfStream \notin {Comment}
    BY DEF EndOfStream, Comment, Mark, Token
<1> QED
    BY <1>1, ReadButIs DEF SkipComments

LEMMA SkipUntilIs ==
    ASSUME NEW Tokens, document \in Seq(Tokens), NEW i \in Places, NEW token
    PROVE  SkipUntil(i, token) \in Places /\ i <= SkipUntil(i, token)
<1>1. EndOfStream \notin (Range(document) \cup {Comment}) \ {token, EndOfStream}
    OBVIOUS
<1>2. Reads(Tokens, i, ReadBut(i, (Range(document) \cup {Comment}) \ {token, EndOfStream}))
    BY <1>1, ReadButIs
<1> QED
    BY <1>2 DEF SkipUntil, Reads

-----------------------------------------------------------------------------
(* Values and places in them                                               *)

AStep(s) == s = Key(s.key) \/ s = Index(s.index)
IsArray(v) == Type(v) = "arr" /\ v.arr \in Seq(Range(v.arr))

\* operator[] finds or makes a child of v at step s.
Takes(v, s) ==
    IF "key" \in DOMAIN s THEN Type(v) = "obj"
    ELSE IsArray(v) /\ s.index \in 1 .. Len(v.arr) + 1

\* An array is a sequence, an object has finitely many members, a number is one.
Proper(v) ==
    /\ Type(v) = "arr" => IsArray(v)
    /\ Type(v) = "obj" => IsFiniteSet(DOMAIN v.obj)
    /\ Type(v) \in {"int", "uint", "real"} => Content(v) \in Int

\* A container with another child is of its kind, and no shorter.
Keeps(v, w) ==
    /\ Type(w) = Type(v)
    /\ IsArray(v) => IsArray(w) /\ Len(v.arr) <= Len(w.arr)
    /\ Proper(v) => Proper(w)

LEMMA TypesAre ==
    /\ \A x : Type(ObjValue(x)) = "obj" /\ Type(ArrValue(x)) = "arr" /\ Type(StrValue(x)) = "str"
    /\ \A x : ObjValue(x).obj = x /\ ArrValue(x).arr = x
    /\ Type(Null) = "null"
<1>1. \A x : /\ DOMAIN ObjValue(x) = {"obj"} /\ DOMAIN ArrValue(x) = {"arr"}
             /\ DOMAIN StrValue(x) = {"str"}
    BY DEF ObjValue, ArrValue, StrValue
<1>2. DOMAIN Null = {"null"}
    BY DEF Null
<1>3. \A v, t : DOMAIN v = {t} => Type(v) = t
    BY DEF Type
<1>4. \A x : ObjValue(x).obj = x /\ ArrValue(x).arr = x
    BY DEF ObjValue, ArrValue
<1> QED
    BY <1>1, <1>2, <1>3, <1>4

LEMMA StepsAre ==
    /\ \A k : AStep(Key(k)) /\ Key(k).key = k /\ DOMAIN Key(k) = {"key"}
    /\ \A i : AStep(Index(i)) /\ Index(i).index = i /\ DOMAIN Index(i) = {"index"}
BY DEF AStep, Key, Index

LEMMA StepIs ==
    ASSUME NEW s, AStep(s)
    PROVE  \/ /\ s = Key(s.key) /\ DOMAIN s = {"key"}
           \/ /\ s = Index(s.index) /\ DOMAIN s = {"index"}
BY StepsAre DEF AStep

\* The sequence of an array with x in one place.
Put(q, i, x) == IF i \in DOMAIN q THEN [q EXCEPT ![i] = x] ELSE Append(q, x)

LEMMA PutIs ==
    ASSUME NEW q, q \in Seq(Range(q)), NEW i \in 1 .. Len(q) + 1, NEW x
    PROVE  /\ Put(q, i, x) \in Seq(Range(Put(q, i, x)))
           /\ Len(q) <= Len(Put(q, i, x)) /\ i \in DOMAIN Put(q, i, x)
           /\ Put(q, i, x)[i] = x
           /\ \A j : j # i => /\ j \in DOMAIN Put(q, i, x) <=> j \in DOMAIN q
                              /\ j \in DOMAIN q => Put(q, i, x)[j] = q[j]
<1> DEFINE S == Range(q) \cup {x}
           r == Put(q, i, x)
<1>1. q \in Seq(S) /\ x \in S
    BY SeqMonotonic
<1>2. Len(q) \in Nat /\ DOMAIN q = 1 .. Len(q)
    BY <1>1, LenProperties
<1>3. CASE i \in DOMAIN q
    <2>1. r = [q EXCEPT ![i] = x]
        BY <1>3 DEF Put
    <2>2. r \in Seq(S) /\ Len(r) = Len(q) /\ \A j \in 1 .. Len(q) : r[j] = IF j = i THEN x ELSE q[j]
        <3> HIDE DEF S, r
        <3> QED
            BY <1>1, <1>2, <1>3, <2>1, ExceptSeq
    <2>3. DOMAIN r = 1 .. Len(r)
        BY <2>2, LenProperties
    <2>4. r \in Seq(Range(r))
        <3> HIDE DEF r
        <3>1. r \in [1 .. Len(r) -> Range(r)] /\ Len(r) \in Nat
            BY <1>2, <2>2, <2>3 DEF Range
        <3> QED
            BY <3>1
    <2> QED
        <3> HIDE DEF r
        <3> QED
            BY <1>2, <1>3, <2>2, <2>3, <2>4 DEF r
<1>4. CASE i \notin DOMAIN q
    <2>1. i = Len(q) + 1
        BY <1>2, <1>4
    <2>0. r = Append(q, x)
        BY <1>4, Zenon DEF Put
    <2>2. /\ r \in Seq(S) /\ Len(r) = Len(q) + 1
          /\ \A j \in 1 .. Len(q) : r[j] = q[j]
          /\ r[Len(q) + 1] = x
        <3> HIDE DEF S, r
        <3> QED
            BY <1>1, <1>2, <2>0, <2>1, AppendProperties
    <2>3. DOMAIN r = 1 .. Len(r)
        BY <2>2, LenProperties
    <2>4. r \in Seq(Range(r))
        <3> HIDE DEF r
        <3>1. r \in [1 .. Len(r) -> Range(r)] /\ Len(r) \in Nat
            BY <1>2, <2>2, <2>3 DEF Range
        <3> QED
            BY <3>1
    <2> QED
        <3> HIDE DEF r
        <3> QED
            BY <1>2, <1>4, <2>1, <2>2, <2>3, <2>4 DEF r
<1> QED
    BY <1>3, <1>4

\* operator[] changes the one child, and leaves the others.
LEMMA WithChildIs ==
    ASSUME NEW v, NEW s, AStep(s), Takes(v, s), NEW x
    PROVE  /\ HasChild(WithChild(v, s, x), s) /\ Child(WithChild(v, s, x), s) = x
           /\ Keeps(v, WithChild(v, s, x))
           /\ \A t : AStep(t) /\ t # s =>
                 /\ HasChild(WithChild(v, s, x), t) <=> HasChild(v, t)
                 /\ HasChild(v, t) => Child(WithChild(v, s, x), t) = Child(v, t)
<1> DEFINE w == WithChild(v, s, x)
<1>1. CASE s = Key(s.key) /\ DOMAIN s = {"key"}
    <2>1. Type(v) = "obj" /\ ~IsArray(v)
        BY <1>1 DEF Takes, IsArray
    <2> DEFINE f == [k \in DOMAIN v.obj \cup {s.key} |-> IF k = s.key THEN x ELSE v.obj[k]]
    <2>2. w = ObjValue(f)
        BY <1>1, <2>1 DEF WithChild
    <2>3. Type(w) = "obj" /\ w.obj = f
        BY <2>2, TypesAre
    <2> HIDE DEF w
    <2>4. HasChild(w, s) /\ Child(w, s) = x
        BY <1>1, <2>3 DEF HasChild, Has, Child
    <2>5. ASSUME NEW t, AStep(t), t # s
          PROVE  /\ HasChild(w, t) <=> HasChild(v, t)
                 /\ HasChild(v, t) => Child(w, t) = Child(v, t)
        <3>1. CASE t = Key(t.key) /\ DOMAIN t = {"key"}
            <4>1. t.key # s.key
                BY <1>1, <2>5, <3>1
            <4> QED
                BY <2>1, <2>3, <3>1, <4>1 DEF HasChild, Has, Child
        <3>2. CASE DOMAIN t = {"index"}
            BY <2>1, <2>3, <3>2 DEF HasChild, Has, Child
        <3> QED
            BY <2>5, <3>1, <3>2, StepIs
    <2>6. Proper(v) => Proper(w)
        <3>1. DOMAIN f = DOMAIN v.obj \cup {s.key}
            OBVIOUS
        <3>2. Proper(v) => IsFiniteSet(DOMAIN f)
            BY <2>1, <3>1, FS_AddElement DEF Proper
        <3> QED
            BY <2>3, <3>2 DEF Proper
    <2>7. Keeps(v, w)
        BY <2>1, <2>3, <2>6 DEF Keeps
    <2> QED
        BY <2>4, <2>5, <2>7 DEF w
<1>2. CASE s = Index(s.index) /\ DOMAIN s = {"index"}
    <2>1. IsArray(v) /\ s.index \in 1 .. Len(v.arr) + 1 /\ Type(v) = "arr"
        BY <1>2 DEF Takes, IsArray
    <2> DEFINE q == Put(v.arr, s.index, x)
    <2>2. w = ArrValue(q)
        BY <1>2, <2>1 DEF WithChild, Put
    <2>3. Type(w) = "arr" /\ w.arr = q
        BY <2>2, TypesAre
    <2>4. /\ q \in Seq(Range(q)) /\ Len(v.arr) <= Len(q) /\ s.index \in DOMAIN q
          /\ q[s.index] = x
          /\ \A j : j # s.index => /\ j \in DOMAIN q <=> j \in DOMAIN v.arr
                                   /\ j \in DOMAIN v.arr => q[j] = v.arr[j]
        BY <2>1, PutIs DEF IsArray
    <2> HIDE DEF w, q
    <2>5. HasChild(w, s) /\ Child(w, s) = x
        BY <1>2, <2>3, <2>4 DEF HasChild, Has, Child
    <2>6. Keeps(v, w)
        BY <2>1, <2>3, <2>4 DEF Keeps, IsArray, Proper
    <2>7. ASSUME NEW t, AStep(t), t # s
          PROVE  /\ HasChild(w, t) <=> HasChild(v, t)
                 /\ HasChild(v, t) => Child(w, t) = Child(v, t)
        <3>1. CASE t = Index(t.index) /\ DOMAIN t = {"index"}
            <4>1. t.index # s.index
                BY <1>2, <2>7, <3>1
            <4> QED
                BY <2>1, <2>3, <2>4, <3>1, <4>1 DEF HasChild, Has, Child
        <3>2. CASE DOMAIN t = {"key"}
            BY <2>1, <2>3, <3>2 DEF HasChild, Has, Child
        <3> QED
            BY <2>7, <3>1, <3>2, StepIs
    <2> QED
        BY <2>5, <2>6, <2>7 DEF w
<1> QED
    BY <1>1, <1>2, StepIs

\* at[n] is what is behind the first n steps of a path.
IsAlong(at, v, path, n) ==
    at = [i \in 0 .. n |-> IF i = 0 THEN v ELSE Child(at[i - 1], path[i])]

LEMMA AlongExists ==
    ASSUME NEW v, NEW path, NEW n \in Nat
    PROVE  \E at : IsAlong(at, v, path, n)
<1> DEFINE P == {k \in Nat : \E at : IsAlong(at, v, path, k)}
<1>1. 0 \in P
    <2>1. IsAlong([i \in 0 .. 0 |-> v], v, path, 0)
        BY DEF IsAlong
    <2> QED
        BY <2>1
<1>2. ASSUME NEW k \in P
      PROVE  k + 1 \in P
    <2>1. PICK at : IsAlong(at, v, path, k)
        OBVIOUS
    <2> DEFINE more == [i \in 0 .. k + 1 |-> IF i = 0 THEN v ELSE Child(at[i - 1], path[i])]
    <2>2. \A i \in 0 .. k : at[i] = IF i = 0 THEN v ELSE Child(at[i - 1], path[i])
        BY <2>1 DEF IsAlong
    <2>3. \A i \in 0 .. k : more[i] = at[i]
        BY <2>2
    <2>4. ASSUME NEW i \in 0 .. k + 1, i # 0
          PROVE  more[i] = Child(more[i - 1], path[i])
        <3>1. i - 1 \in 0 .. k
            BY <2>4
        <3> QED
            BY <2>3, <2>4, <3>1
    <2>5. IsAlong(more, v, path, k + 1)
        <3>1. more = [i \in 0 .. k + 1 |-> IF i = 0 THEN v ELSE Child(more[i - 1], path[i])]
            BY <2>4
        <3> QED
            BY <3>1 DEF IsAlong
    <2> QED
        BY <2>5
<1>3. n \in P
    <2> HIDE DEF P
    <2>1. P \in SUBSET Nat
        BY DEF P
    <2> QED
        BY <1>1, <1>2, <2>1, FromZeroOn
<1> QED
    BY <1>3

LEMMA AlongIs ==
    ASSUME NEW v, NEW path, Len(path) \in Nat
    PROVE  /\ Along(v, path)[0] = v
           /\ \A n \in 1 .. Len(path) : Along(v, path)[n] = Child(Along(v, path)[n - 1], path[n])
<1> DEFINE Step(at) == [n \in 0 .. Len(path) |-> IF n = 0 THEN v ELSE Child(at[n - 1], path[n])]
           at == CHOOSE at : at = Step(at)
<1>1. PICK a : IsAlong(a, v, path, Len(path))
    BY AlongExists
<1>2. a = Step(a)
    BY <1>1 DEF IsAlong
<1>3. at = Step(at)
    BY <1>2
<1>4. Along(v, path) = at
    BY DEF Along
<1> HIDE DEF at
<1> QED
    BY <1>3, <1>4

\* Behind the same steps is the same value.
LEMMA AlongAgrees ==
    ASSUME NEW v, NEW p, NEW q, Len(p) \in Nat, Len(q) \in Nat,
           NEW m \in Nat, m <= Len(p), m <= Len(q), \A i \in 1 .. m : p[i] = q[i]
    PROVE  Along(v, p)[m] = Along(v, q)[m]
<1> DEFINE P == {n \in Nat : n <= m => Along(v, p)[n] = Along(v, q)[n]}
<1>1. 0 \in P
    BY AlongIs
<1>2. ASSUME NEW n \in P
      PROVE  n + 1 \in P
    <2>1. SUFFICES ASSUME n + 1 <= m
                   PROVE  Along(v, p)[n + 1] = Along(v, q)[n + 1]
        OBVIOUS
    <2>2. n + 1 \in 1 .. Len(p) /\ n + 1 \in 1 .. Len(q) /\ p[n + 1] = q[n + 1] /\ n <= m
        BY <2>1
    <2>3. /\ Along(v, p)[n + 1] = Child(Along(v, p)[(n + 1) - 1], p[n + 1])
          /\ Along(v, q)[n + 1] = Child(Along(v, q)[(n + 1) - 1], q[n + 1])
        BY <2>2, AlongIs
    <2> QED
        BY <2>2, <2>3
<1>3. m \in P
    <2> HIDE DEF P
    <2>1. P \in SUBSET Nat
        BY DEF P
    <2> QED
        BY <1>1, <1>2, <2>1, FromZeroOn
<1> QED
    BY <1>3

\* new[n] is the new value n steps above the end of a path.
IsAround(new, at, path, x, n) ==
    new = [i \in 0 .. n |->
              IF i = 0 THEN x
              ELSE WithChild(at[Len(path) - i], path[Len(path) - i + 1], new[i - 1])]

LEMMA AroundExists ==
    ASSUME NEW at, NEW path, NEW x, NEW n \in Nat
    PROVE  \E new : IsAround(new, at, path, x, n)
<1> DEFINE P == {k \in Nat : \E new : IsAround(new, at, path, x, k)}
           Around(new, i) == WithChild(at[Len(path) - i], path[Len(path) - i + 1], new[i - 1])
<1>1. 0 \in P
    <2>1. IsAround([i \in 0 .. 0 |-> x], at, path, x, 0)
        BY DEF IsAround
    <2> QED
        BY <2>1
<1>2. ASSUME NEW k \in P
      PROVE  k + 1 \in P
    <2>1. PICK new : IsAround(new, at, path, x, k)
        OBVIOUS
    <2> DEFINE more == [i \in 0 .. k + 1 |-> IF i = 0 THEN x ELSE Around(new, i)]
    <2>2. \A i \in 0 .. k : new[i] = IF i = 0 THEN x ELSE Around(new, i)
        BY <2>1 DEF IsAround
    <2>3. \A i \in 0 .. k : more[i] = new[i]
        BY <2>2
    <2>4. ASSUME NEW i \in 0 .. k + 1, i # 0
          PROVE  more[i] = Around(more, i)
        <3>1. i - 1 \in 0 .. k
            BY <2>4
        <3> QED
            BY <2>3, <2>4, <3>1
    <2>5. IsAround(more, at, path, x, k + 1)
        <3>1. more = [i \in 0 .. k + 1 |-> IF i = 0 THEN x ELSE Around(more, i)]
            BY <2>4
        <3> QED
            BY <3>1 DEF IsAround
    <2> QED
        BY <2>5
<1>3. n \in P
    <2> HIDE DEF P
    <2>1. P \in SUBSET Nat
        BY DEF P
    <2> QED
        BY <1>1, <1>2, <2>1, FromZeroOn
<1> QED
    BY <1>3

\* b[n] is the new value behind n steps.
Changed(b, v, path, x) ==
    /\ b[0] = Assigned(v, path, x) /\ b[Len(path)] = x
    /\ \A n \in 1 .. Len(path) : b[n - 1] = WithChild(Along(v, path)[n - 1], path[n], b[n])

LEMMA AssignedIs ==
    ASSUME NEW v, NEW path, Len(path) \in Nat, NEW x
    PROVE  \E b : Changed(b, v, path, x)
<1> DEFINE last == Len(path)
           at == Along(v, path)
           Step(new) == [n \in 0 .. last |->
               IF n = 0 THEN x
               ELSE WithChild(Along(v, path)[last - n], path[last - n + 1], new[n - 1])]
           new == CHOOSE new : new = Step(new)
<1>1. PICK a : IsAround(a, at, path, x, last)
    BY AroundExists
<1>2. a = Step(a)
    BY <1>1 DEF IsAround
<1>3. new = Step(new)
    BY <1>2
<1>4. Assigned(v, path, x) = new[last]
    BY DEF Assigned
<1> DEFINE b == [n \in 0 .. last |-> new[last - n]]
<1>5. b[0] = new[last] /\ b[last] = x
    <2>1. new[0] = x
        <3> HIDE DEF new
        <3> QED
            BY <1>3
    <2> HIDE DEF new
    <2> QED
        BY <2>1
<1>6. ASSUME NEW n \in 1 .. last
      PROVE  b[n - 1] = WithChild(at[n - 1], path[n], b[n])
    <2> HIDE DEF new, at
    <2>1. /\ n - 1 \in 0 .. last /\ n \in 0 .. last /\ last - (n - 1) \in 1 .. last
          /\ last - (last - (n - 1)) = n - 1 /\ (last - (n - 1)) - 1 = last - n
        BY <1>6
    <2> DEFINE i == last - (n - 1)
    <2>2. i \in 1 .. last /\ last - i = n - 1 /\ last - i + 1 = n /\ i - 1 = last - n
        BY <1>6
    <2>3. new[i] = WithChild(Along(v, path)[last - i], path[last - i + 1], new[i - 1])
        <3> HIDE DEF i
        <3>1. i \in 0 .. last /\ i # 0
            BY <2>2
        <3> QED
            BY <1>3, <3>1
    <2>4. new[i] = WithChild(Along(v, path)[n - 1], path[n], new[last - n])
        BY <2>2, <2>3
    <2>5. b[n - 1] = new[i] /\ b[n] = new[last - n]
        BY <2>1
    <2> QED
        BY <2>4, <2>5 DEF at
<1> HIDE DEF b, new, at
<1> QED
    BY <1>4, <1>5, <1>6 DEF at, Changed

\* Each value on the way has the step of a path, or would take it.
TakesPath(v, path) == \A n \in 1 .. Len(path) : Takes(Along(v, path)[n - 1], path[n])

\* The value at the place is the new one, and those on the way keep what they are.
LEMMA AssignedOnPath ==
    ASSUME NEW S, \A s \in S : AStep(s), NEW v, NEW p \in Seq(S), TakesPath(v, p), NEW x
    PROVE  LET w == Assigned(v, p, x)
               a == Along(v, p)
               c == Along(w, p)
           IN /\ c[Len(p)] = x
              /\ \A n \in 1 .. Len(p) :
                    /\ HasChild(c[n - 1], p[n])
                    /\ Keeps(a[n - 1], c[n - 1])
                    /\ \A t : AStep(t) /\ t # p[n] =>
                          /\ HasChild(c[n - 1], t) <=> HasChild(a[n - 1], t)
                          /\ HasChild(a[n - 1], t) => Child(c[n - 1], t) = Child(a[n - 1], t)
<1> DEFINE w == Assigned(v, p, x)
           a == Along(v, p)
           c == Along(w, p)
<1>1. Len(p) \in Nat /\ \A n \in 1 .. Len(p) : AStep(p[n])
    BY LenProperties
<1>2. PICK b : /\ b[0] = w /\ b[Len(p)] = x
               /\ \A n \in 1 .. Len(p) : b[n - 1] = WithChild(a[n - 1], p[n], b[n])
    <2>1. \E b : Changed(b, v, p, x)
        BY <1>1, AssignedIs
    <2> QED
        BY <2>1 DEF Changed
<1>3. /\ c[0] = w
      /\ \A n \in 1 .. Len(p) : c[n] = Child(c[n - 1], p[n])
    BY <1>1, AlongIs
<1>4. \A n \in 1 .. Len(p) : Takes(a[n - 1], p[n])
    BY DEF TakesPath
<1> DEFINE P == {n \in Nat : n <= Len(p) => c[n] = b[n]}
<1> HIDE DEF w, a, c
<1>5. 0 \in P
    BY <1>2, <1>3
<1>6. ASSUME NEW n \in P
      PROVE  n + 1 \in P
    <2>1. SUFFICES ASSUME n + 1 <= Len(p)
                   PROVE  c[n + 1] = b[n + 1]
        OBVIOUS
    <2>2. n + 1 \in 1 .. Len(p) /\ (n + 1) - 1 = n /\ n <= Len(p)
        BY <1>1, <2>1
    <2>3. c[n + 1] = Child(b[n], p[n + 1]) /\ b[n] = WithChild(a[n], p[n + 1], b[n + 1])
        BY <1>2, <1>3, <2>2
    <2>4. AStep(p[n + 1]) /\ Takes(a[n], p[n + 1])
        BY <1>1, <1>4, <2>2
    <2> QED
        BY <2>3, <2>4, WithChildIs
<1>7. P = Nat
    <2> HIDE DEF P
    <2>1. P \in SUBSET Nat
        BY DEF P
    <2> QED
        BY <1>5, <1>6, <2>1, FromZeroOn
<1>8. \A n \in 0 .. Len(p) : c[n] = b[n]
    BY <1>7
<1>9. \A n \in 1 .. Len(p) : c[n - 1] = WithChild(a[n - 1], p[n], b[n])
    BY <1>1, <1>2, <1>8
<1>10. ASSUME NEW n \in 1 .. Len(p)
       PROVE  /\ HasChild(c[n - 1], p[n])
              /\ Keeps(a[n - 1], c[n - 1])
              /\ \A t : AStep(t) /\ t # p[n] =>
                    /\ HasChild(c[n - 1], t) <=> HasChild(a[n - 1], t)
                    /\ HasChild(a[n - 1], t) => Child(c[n - 1], t) = Child(a[n - 1], t)
    <2>1. AStep(p[n]) /\ Takes(a[n - 1], p[n])
        BY <1>1, <1>4
    <2> QED
        BY <1>9, <2>1, WithChildIs
<1>11. c[Len(p)] = x
    BY <1>1, <1>2, <1>8
<1> QED
    BY <1>10, <1>11 DEF w, a, c

\* A place that is no deeper than the new value is still there.
LEMMA AssignedLeaves ==
    ASSUME NEW S, \A s \in S : AStep(s), NEW v, NEW p \in Seq(S), TakesPath(v, p), NEW x,
           NEW q \in Seq(S), Exists(v, q), Len(q) <= Len(p)
    PROVE  Exists(Assigned(v, p, x), q)
<1> DEFINE w == Assigned(v, p, x)
           a == Along(v, p)
           c == Along(w, p)
           aq == Along(v, q)
           cq == Along(w, q)
           Agree(n) == \A i \in 1 .. n : q[i] = p[i]
           P == {n \in Nat : n <= Len(q) => /\ Agree(n) \/ cq[n] = aq[n]
                                            /\ \A i \in 1 .. n : HasChild(cq[i - 1], q[i])}
<1>1. /\ Len(p) \in Nat /\ \A n \in 1 .. Len(p) : AStep(p[n])
      /\ Len(q) \in Nat /\ \A n \in 1 .. Len(q) : AStep(q[n])
    BY LenProperties
<1>2. /\ \A n \in 1 .. Len(p) :
            /\ HasChild(c[n - 1], p[n])
            /\ \A t : AStep(t) /\ t # p[n] =>
                  /\ HasChild(c[n - 1], t) <=> HasChild(a[n - 1], t)
                  /\ HasChild(a[n - 1], t) => Child(c[n - 1], t) = Child(a[n - 1], t)
    BY AssignedOnPath
<1>3. /\ \A n \in 1 .. Len(q) : aq[n] = Child(aq[n - 1], q[n])
      /\ \A n \in 1 .. Len(q) : cq[n] = Child(cq[n - 1], q[n])
    BY <1>1, AlongIs
<1>4. \A n \in 1 .. Len(q) : HasChild(aq[n - 1], q[n])
    BY DEF Exists
<1>5. ASSUME NEW n \in Nat, n <= Len(q), Agree(n)
      PROVE  aq[n] = a[n] /\ cq[n] = c[n]
    <2>1. n <= Len(p)
        BY <1>1, <1>5
    <2> QED
        BY <1>1, <1>5, <2>1, AlongAgrees
<1> HIDE DEF w, a, c, aq, cq
<1>6. 0 \in P
    OBVIOUS
<1>7. ASSUME NEW n \in P
      PROVE  n + 1 \in P
    <2>1. SUFFICES ASSUME n + 1 <= Len(q)
                   PROVE  /\ Agree(n + 1) \/ cq[n + 1] = aq[n + 1]
                          /\ \A i \in 1 .. n + 1 : HasChild(cq[i - 1], q[i])
        OBVIOUS
    <2>2. n + 1 \in 1 .. Len(q) /\ n + 1 \in 1 .. Len(p) /\ (n + 1) - 1 = n /\ n <= Len(q)
        BY <1>1, <2>1
    <2>3. /\ aq[n + 1] = Child(aq[n], q[n + 1]) /\ cq[n + 1] = Child(cq[n], q[n + 1])
          /\ HasChild(aq[n], q[n + 1]) /\ AStep(q[n + 1])
        BY <1>1, <1>3, <1>4, <2>2
    <2>4. /\ HasChild(cq[n], q[n + 1])
          /\ Agree(n + 1) \/ cq[n + 1] = aq[n + 1]
        <3>1. CASE cq[n] = aq[n]
            BY <2>3, <3>1
        <3>2. CASE Agree(n) /\ q[n + 1] = p[n + 1]
            <4>1. Agree(n + 1)
                BY <3>2
            <4> QED
                BY <1>2, <1>5, <2>2, <3>2, <4>1
        <3>3. CASE Agree(n) /\ q[n + 1] # p[n + 1]
            <4>1. aq[n] = a[n] /\ cq[n] = c[n]
                BY <1>5, <2>2, <3>3
            <4>2. HasChild(c[n], q[n + 1]) /\ Child(c[n], q[n + 1]) = Child(a[n], q[n + 1])
                BY <1>2, <2>2, <2>3, <3>3, <4>1
            <4> QED
                BY <2>3, <4>1, <4>2
        <3> QED
            BY <2>2, <3>1, <3>2, <3>3
    <2>5. \A i \in 1 .. n : HasChild(cq[i - 1], q[i])
        BY <2>2
    <2>6. ASSUME NEW i \in 1 .. n + 1
          PROVE  HasChild(cq[i - 1], q[i])
        <3>1. i \in 1 .. n \/ i = n + 1
            BY <2>6
        <3> QED
            BY <2>2, <2>4, <2>5, <3>1
    <2> QED
        BY <2>4, <2>6
<1>8. Len(q) \in P
    <2> HIDE DEF P
    <2>1. P \in SUBSET Nat
        BY DEF P
    <2> QED
        BY <1>1, <1>6, <1>7, <2>1, FromZeroOn
<1> QED
    BY <1>1, <1>8 DEF Exists, w, cq

-----------------------------------------------------------------------------
(* The values being read                                                   *)

Frames(S) ==
    [at : {"value", "member", "separator", "recovery"}, kind : {"value", "object", "array"},
     path : Seq(S), named : BOOLEAN, index : Nat]

\* A frame that is not at a value is at a container a.
Holds(f, a) ==
    /\ f.at = "value" <=> f.kind = "value"
    /\ f.at = "member" => f.kind = "object"
    /\ f.kind = "object" => Type(a) = "obj"
    /\ f.kind = "array" => IsArray(a) /\ f.index <= Len(a.arr)

\* The frames ns stand for values of v, each a child of the one before, in a
\* container that is not at a value.
PathOf(ns) == ns[Len(ns)].path
Within(ns) ==
    \A i \in 1 .. Len(ns) :
        /\ Len(ns[i].path) = i - 1
        /\ \A n \in 1 .. i - 1 : ns[i].path[n] = PathOf(ns)[n]
        /\ i # Len(ns) => ns[i].at # "value"
StandsFor(ns, v) ==
    /\ Within(ns)
    /\ \A i \in 1 .. Len(ns) : Holds(ns[i], Along(v, PathOf(ns))[i - 1])
    /\ Len(ns) > 0 => Exists(v, PathOf(ns))

\* The value of the last frame.
Current(ns, v) == Along(v, PathOf(ns))[Len(ns) - 1]

LEMMA FramesAre ==
    ASSUME NEW S, NEW ns \in Seq(Frames(S))
    PROVE  /\ Len(ns) \in Nat /\ DOMAIN ns = 1 .. Len(ns)
           /\ \A i \in 1 .. Len(ns) : ns[i] \in Frames(S) /\ ns[i].path \in Seq(S)
           /\ ns # <<>> <=> Len(ns) > 0
           /\ Last(ns) = ns[Len(ns)]
<1>1. Len(ns) \in Nat /\ DOMAIN ns = 1 .. Len(ns) /\ \A i \in 1 .. Len(ns) : ns[i] \in Frames(S)
    BY LenProperties
<1>2. ns # <<>> <=> Len(ns) > 0
    BY <1>1, EmptySeq
<1> QED
    BY <1>1, <1>2 DEF Frames, Last

\* The frames but the last, with another one behind them, or two.
LEMMA FrontIs ==
    ASSUME NEW S, NEW ns \in Seq(Frames(S)), ns # <<>>
    PROVE  /\ Front(ns) \in Seq(Frames(S)) /\ Len(Front(ns)) = Len(ns) - 1
           /\ \A i \in 1 .. Len(ns) - 1 : Front(ns)[i] = ns[i]
<1>1. Len(ns) \in Nat /\ Len(ns) > 0 /\ \A i \in 1 .. Len(ns) - 1 : ns[i] \in Frames(S)
    BY FramesAre
<1> DEFINE F == Frames(S)
           m == Len(ns) - 1
<1>2. m \in Nat /\ \A i \in 1 .. m : ns[i] \in F
    BY <1>1
<1>3. Front(ns) = SubSeq(ns, 1, m)
    BY DEF Front
<1> HIDE DEF F, m
<1>4. /\ SubSeq(ns, 1, m) \in Seq(F)
      /\ Len(SubSeq(ns, 1, m)) = IF 1 <= m THEN m - 1 + 1 ELSE 0
      /\ \A i \in 1 .. m - 1 + 1 : SubSeq(ns, 1, m)[i] = ns[1 + i - 1]
    BY <1>2, SubSeqProperties
<1>5. Len(SubSeq(ns, 1, m)) = m /\ \A i \in 1 .. m : SubSeq(ns, 1, m)[i] = ns[i]
    <2>1. \A i \in 1 .. m : 1 + i - 1 = i /\ i \in 1 .. m - 1 + 1
        BY <1>2
    <2> QED
        BY <1>2, <1>4, <2>1
<1> QED
    BY <1>3, <1>4, <1>5 DEF F, m

LEMMA ReplacedIs ==
    ASSUME NEW S, NEW ns \in Seq(Frames(S)), ns # <<>>, NEW f \in Frames(S)
    PROVE  /\ Append(Front(ns), f) \in Seq(Frames(S)) /\ Len(Append(Front(ns), f)) = Len(ns)
           /\ \A i \in 1 .. Len(ns) - 1 : Append(Front(ns), f)[i] = ns[i]
           /\ Append(Front(ns), f)[Len(ns)] = f
<1>1. /\ Len(ns) \in Nat /\ Len(ns) > 0
      /\ Front(ns) \in Seq(Frames(S)) /\ Len(Front(ns)) = Len(ns) - 1
      /\ \A i \in 1 .. Len(ns) - 1 : Front(ns)[i] = ns[i]
    BY FramesAre, FrontIs
<1> QED
    BY <1>1, AppendProperties

LEMMA FollowedIs ==
    ASSUME NEW S, NEW ns \in Seq(Frames(S)), ns # <<>>, NEW f \in Frames(S), NEW g \in Frames(S)
    PROVE  /\ Append(Front(ns), f) \o <<g>> \in Seq(Frames(S))
           /\ Len(Append(Front(ns), f) \o <<g>>) = Len(ns) + 1
           /\ \A i \in 1 .. Len(ns) - 1 : (Append(Front(ns), f) \o <<g>>)[i] = ns[i]
           /\ (Append(Front(ns), f) \o <<g>>)[Len(ns)] = f
           /\ (Append(Front(ns), f) \o <<g>>)[Len(ns) + 1] = g
<1> DEFINE r == Append(Front(ns), f)
<1>1. Len(ns) \in Nat /\ Len(ns) > 0
    BY FramesAre
<1>2. /\ r \in Seq(Frames(S)) /\ Len(r) = Len(ns)
      /\ \A i \in 1 .. Len(ns) - 1 : r[i] = ns[i]
      /\ r[Len(ns)] = f
    BY ReplacedIs
<1>3. <<g>> \in Seq(Frames(S)) /\ Len(<<g>>) = 1 /\ <<g>>[1] = g
    OBVIOUS
<1> HIDE DEF r
<1>4. /\ r \o <<g>> \in Seq(Frames(S)) /\ Len(r \o <<g>>) = Len(ns) + 1
      /\ \A i \in 1 .. Len(ns) : (r \o <<g>>)[i] = r[i]
      /\ (r \o <<g>>)[Len(ns) + 1] = g
    BY <1>1, <1>2, <1>3, ConcatProperties
<1> QED
    BY <1>1, <1>2, <1>4 DEF r

\* The last value was read, or given up.
Popped(ns, at) == [Front(ns) EXCEPT ![Len(ns) - 1].at = at]

LEMMA PoppedStands ==
    ASSUME NEW S, NEW ns \in Seq(Frames(S)), NEW v, StandsFor(ns, v), Len(ns) > 1,
           NEW at \in {"separator", "recovery"}
    PROVE  /\ Popped(ns, at) \in Seq(Frames(S)) /\ Len(Popped(ns, at)) = Len(ns) - 1
           /\ \A i \in 1 .. Len(ns) - 1 : Popped(ns, at)[i].index = ns[i].index
           /\ Popped(ns, at)[Len(ns) - 1].at = at
           /\ StandsFor(Popped(ns, at), v)
<1> DEFINE q == Front(ns)
           k == Len(ns) - 1
           f == [ns[k] EXCEPT !.at = at]
           rest == Popped(ns, at)
           p == PathOf(ns)
<1>1. /\ Len(ns) \in Nat /\ ns # <<>> /\ k \in 1 .. Len(ns)
      /\ q \in Seq(Frames(S)) /\ Len(q) = k
      /\ \A i \in 1 .. k : q[i] = ns[i]
    BY FramesAre, FrontIs
<1>2. /\ f \in Frames(S) /\ f.at = at /\ f.path = ns[k].path /\ f.index = ns[k].index
      /\ f.kind = ns[k].kind
    <2>1. ns[k] \in Frames(S)
        BY <1>1, FramesAre
    <2> QED
        BY <2>1 DEF Frames
<1>3. rest = [q EXCEPT ![k] = f]
    <2>1. rest = [q EXCEPT ![k].at = at]
        BY DEF Popped
    <2> HIDE DEF q, k, rest
    <2>2. q[k] = ns[k]
        BY <1>1 DEF k
    <2> QED
        BY <2>1, <2>2
<1>4. /\ rest \in Seq(Frames(S)) /\ Len(rest) = k
      /\ \A i \in 1 .. k : rest[i] = IF i = k THEN f ELSE ns[i]
    <2> HIDE DEF q, k, f, rest
    <2> QED
        BY <1>1, <1>2, <1>3, ExceptSeq
<1> HIDE DEF q, f, rest
<1>5. /\ Within(ns) /\ Exists(v, p)
      /\ \A i \in 1 .. Len(ns) : Holds(ns[i], Along(v, p)[i - 1])
    BY DEF StandsFor
<1>6. PathOf(rest) = ns[k].path /\ Len(ns[k].path) = k - 1 /\ Len(p) = k
    <2>1. rest[k] = f /\ Len(rest) = k
        BY <1>1, <1>4
    <2>2. PathOf(rest) = ns[k].path
        BY <1>2, <2>1 DEF PathOf
    <2>3. \A i \in 1 .. Len(ns) : Len(ns[i].path) = i - 1
        BY <1>5 DEF Within
    <2>4. Len(ns) \in 1 .. Len(ns) /\ k \in 1 .. Len(ns) /\ Len(ns) - 1 = k
        BY <1>1
    <2>5. Len(ns[k].path) = k - 1
        BY <2>3, <2>4
    <2>6. Len(ns[Len(ns)].path) = Len(ns) - 1
        BY <2>3, <2>4
    <2> QED
        BY <2>2, <2>4, <2>5, <2>6 DEF PathOf
<1>7. \A n \in 1 .. k - 1 : ns[k].path[n] = p[n]
    BY <1>1, <1>5 DEF Within
<1>8. Within(rest)
    <2>1. SUFFICES ASSUME NEW i \in 1 .. k
                   PROVE  /\ Len(rest[i].path) = i - 1
                          /\ \A n \in 1 .. i - 1 : rest[i].path[n] = PathOf(rest)[n]
                          /\ i # k => rest[i].at # "value"
        BY <1>4 DEF Within
    <2>2. rest[i].path = ns[i].path /\ (i # k => rest[i] = ns[i])
        BY <1>2, <1>4
    <2>3. /\ Len(ns[i].path) = i - 1 /\ ns[i].at # "value"
          /\ \A n \in 1 .. i - 1 : ns[i].path[n] = p[n]
        <3>1. i \in 1 .. Len(ns) /\ i # Len(ns)
            BY <1>1, <2>1
        <3> QED
            BY <1>5, <3>1 DEF Within
    <2>4. \A n \in 1 .. i - 1 : n \in 1 .. k - 1
        BY <1>1, <2>1
    <2>5. \A n \in 1 .. i - 1 : rest[i].path[n] = PathOf(rest)[n]
        BY <1>6, <1>7, <2>2, <2>3, <2>4
    <2> QED
        BY <2>2, <2>3, <2>5
<1>9. \A n \in 0 .. k - 1 : Along(v, PathOf(rest))[n] = Along(v, p)[n]
    <2> DEFINE own == ns[k].path
    <2>1. SUFFICES ASSUME NEW n \in 0 .. k - 1
                   PROVE  Along(v, own)[n] = Along(v, p)[n]
        BY <1>6
    <2>2. /\ Len(own) \in Nat /\ Len(p) \in Nat /\ n \in Nat
          /\ n <= Len(own) /\ n <= Len(p)
          /\ \A i \in 1 .. n : own[i] = p[i]
        BY <1>1, <1>6, <1>7
    <2> HIDE DEF own, p, k
    <2> QED
        BY <2>2, AlongAgrees
<1>10. ASSUME NEW i \in 1 .. k
       PROVE  Holds(rest[i], Along(v, PathOf(rest))[i - 1])
    <2>1. Along(v, PathOf(rest))[i - 1] = Along(v, p)[i - 1] /\ Holds(ns[i], Along(v, p)[i - 1])
        BY <1>1, <1>5, <1>9
    <2>2. CASE i # k
        BY <1>4, <2>1, <2>2
    <2>3. CASE i = k
        <3>1. ns[k].at # "value"
            BY <1>1, <1>5 DEF Within
        <3> QED
            BY <1>2, <1>4, <2>1, <2>3, <3>1 DEF Holds
    <2> QED
        BY <2>2, <2>3
<1>11. Exists(v, PathOf(rest))
    <2>1. SUFFICES ASSUME NEW n \in 1 .. k - 1
                   PROVE  HasChild(Along(v, PathOf(rest))[n - 1], PathOf(rest)[n])
        BY <1>6 DEF Exists
    <2>2. HasChild(Along(v, p)[n - 1], p[n])
        BY <1>1, <1>5, <1>6 DEF Exists
    <2> QED
        BY <1>1, <1>6, <1>7, <1>9, <2>2
<1>12. StandsFor(rest, v)
    BY <1>4, <1>8, <1>10, <1>11 DEF StandsFor
<1>13. \A i \in 1 .. k : rest[i].path = ns[i].path /\ rest[i].index = ns[i].index
    BY <1>2, <1>4
<1>14. rest[k].at = at
    BY <1>1, <1>2, <1>4
<1> QED
    BY <1>4, <1>12, <1>13, <1>14 DEF rest

LEMMA StandingIs ==
    ASSUME NEW S, NEW ns \in Seq(Frames(S)), ns # <<>>, NEW v, StandsFor(ns, v)
    PROVE  /\ Len(ns) \in 1 .. Len(ns) /\ Len(ns) \in Nat
           /\ PathOf(ns) \in Seq(S) /\ Len(PathOf(ns)) = Len(ns) - 1
           /\ Exists(v, PathOf(ns))
           /\ \A i \in 1 .. Len(ns) : Holds(ns[i], Along(v, PathOf(ns))[i - 1])
           /\ Holds(ns[Len(ns)], Current(ns, v))
<1>1. Len(ns) \in 1 .. Len(ns) /\ Len(ns) \in Nat /\ Len(ns) > 0
    BY FramesAre
<1>2. \A i \in 1 .. Len(ns) : Len(ns[i].path) = i - 1
    BY DEF StandsFor, Within
<1>3. PathOf(ns) \in Seq(S) /\ Len(PathOf(ns)) = Len(ns) - 1
    BY <1>1, <1>2, FramesAre DEF PathOf
<1> QED
    BY <1>1, <1>3 DEF StandsFor, Current

\* The last frame gives way to another one at its value.
Replaced(ns, f) == Append(Front(ns), f)

LEMMA ReplacedStands ==
    ASSUME NEW S, NEW ns \in Seq(Frames(S)), ns # <<>>, NEW v, StandsFor(ns, v),
           NEW f \in Frames(S), f.path = PathOf(ns), Holds(f, Current(ns, v))
    PROVE  /\ Replaced(ns, f) \in Seq(Frames(S)) /\ Len(Replaced(ns, f)) = Len(ns)
           /\ \A i \in 1 .. Len(ns) - 1 : Replaced(ns, f)[i] = ns[i]
           /\ Replaced(ns, f)[Len(ns)] = f
           /\ StandsFor(Replaced(ns, f), v)
<1> DEFINE r == Replaced(ns, f)
           p == PathOf(ns)
<1>1. /\ r \in Seq(Frames(S)) /\ Len(r) = Len(ns)
      /\ \A i \in 1 .. Len(ns) - 1 : r[i] = ns[i]
      /\ r[Len(ns)] = f
    BY ReplacedIs DEF Replaced
<1> HIDE DEF r
<1>2. Len(ns) \in 1 .. Len(ns) /\ Len(ns) \in Nat /\ Len(p) = Len(ns) - 1
    BY StandingIs
<1>3. PathOf(r) = p
    BY <1>1 DEF PathOf
<1>4. \A i \in 1 .. Len(ns) : i = Len(ns) \/ (i \in 1 .. Len(ns) - 1 /\ r[i] = ns[i])
    BY <1>1, <1>2
<1>5. Within(ns)
    BY DEF StandsFor
<1>6. Within(r)
    BY <1>1, <1>2, <1>3, <1>4, <1>5 DEF Within
<1>7. \A i \in 1 .. Len(ns) : Holds(r[i], Along(v, p)[i - 1])
    BY <1>1, <1>4 DEF StandsFor, Current
<1>8. StandsFor(r, v)
    BY <1>1, <1>2, <1>3, <1>6, <1>7 DEF StandsFor
<1> QED
    BY <1>1, <1>8 DEF r

\* The last frame gives way to another one, with a frame for a child of its value.
Entered(ns, f, s) == Append(Front(ns), f) \o <<ValueAt(Append(f.path, s))>>

LEMMA EnteredStands ==
    ASSUME NEW S, NEW ns \in Seq(Frames(S)), ns # <<>>, NEW v, StandsFor(ns, v),
           NEW f \in Frames(S), f.path = PathOf(ns), Holds(f, Current(ns, v)), f.at # "value",
           NEW s \in S, HasChild(Current(ns, v), s)
    PROVE  /\ Entered(ns, f, s) \in Seq(Frames(S)) /\ Len(Entered(ns, f, s)) = Len(ns) + 1
           /\ \A i \in 1 .. Len(ns) - 1 : Entered(ns, f, s)[i] = ns[i]
           /\ Entered(ns, f, s)[Len(ns)] = f
           /\ Entered(ns, f, s)[Len(ns) + 1].at = "value" /\ Entered(ns, f, s)[Len(ns) + 1].index = 0
           /\ StandsFor(Entered(ns, f, s), v)
<1> DEFINE p == PathOf(ns)
           more == Append(p, s)
           g == ValueAt(Append(f.path, s))
           r == Entered(ns, f, s)
           k == Len(ns)
<1>1. /\ k \in 1 .. k /\ k \in Nat /\ p \in Seq(S) /\ Len(p) = k - 1
      /\ Exists(v, p)
      /\ \A i \in 1 .. k : Holds(ns[i], Along(v, p)[i - 1])
    BY StandingIs
<1>2. /\ more \in Seq(S) /\ Len(more) = k
      /\ \A n \in 1 .. k - 1 : more[n] = p[n]
      /\ more[k] = s
    <2> HIDE DEF p, k
    <2> QED
        BY <1>1, AppendProperties
<1>3. g = [at |-> "value", kind |-> "value", path |-> more, named |-> FALSE, index |-> 0]
    BY DEF ValueAt
<1>4. g \in Frames(S) /\ g.path = more /\ g.at = "value" /\ g.kind = "value" /\ g.index = 0
    <2> HIDE DEF more, g
    <2> QED
        BY <1>2, <1>3 DEF Frames
<1>a. r = Append(Front(ns), f) \o <<g>>
    BY DEF Entered
<1> HIDE DEF g
<1>5. /\ r \in Seq(Frames(S)) /\ Len(r) = k + 1
      /\ \A i \in 1 .. k - 1 : r[i] = ns[i]
      /\ r[k] = f /\ r[k + 1] = g
    <2> HIDE DEF r, k
    <2>1. k = Len(ns)
        BY DEF k
    <2> QED
        BY <1>4, <1>a, <2>1, FollowedIs
<1> HIDE DEF r
<1>6. PathOf(r) = more
    BY <1>4, <1>5 DEF PathOf
<1>7. \A n \in 0 .. k - 1 : Along(v, more)[n] = Along(v, p)[n]
    <2>1. SUFFICES ASSUME NEW n \in 0 .. k - 1
                   PROVE  Along(v, more)[n] = Along(v, p)[n]
        OBVIOUS
    <2>2. /\ Len(more) \in Nat /\ Len(p) \in Nat /\ n \in Nat /\ n <= Len(more) /\ n <= Len(p)
          /\ \A i \in 1 .. n : more[i] = p[i]
        BY <1>1, <1>2
    <2> HIDE DEF more, p, k
    <2> QED
        BY <2>2, AlongAgrees
<1> HIDE DEF more
<1>8. \A i \in 1 .. k + 1 : i = k + 1 \/ i = k \/ (i \in 1 .. k - 1 /\ r[i] = ns[i])
    BY <1>1, <1>5
<1>9. Within(r)
    <2>1. SUFFICES ASSUME NEW i \in 1 .. k + 1
                   PROVE  /\ Len(r[i].path) = i - 1
                          /\ \A n \in 1 .. i - 1 : r[i].path[n] = more[n]
                          /\ i # k + 1 => r[i].at # "value"
        BY <1>5, <1>6 DEF Within
    <2>2. CASE i = k + 1
        BY <1>1, <1>2, <1>4, <1>5, <2>2
    <2>3. CASE i = k
        BY <1>1, <1>2, <1>5, <2>3
    <2>4. CASE i \in 1 .. k - 1
        <3>1. /\ Len(ns[i].path) = i - 1 /\ ns[i].at # "value"
              /\ \A n \in 1 .. i - 1 : ns[i].path[n] = p[n]
            BY <1>1, <2>4 DEF StandsFor, Within
        <3>2. r[i] = ns[i] /\ i # k + 1 /\ i \in Nat /\ i <= k - 1
            BY <1>1, <1>5, <2>4
        <3>3. \A n \in 1 .. i - 1 : n \in 1 .. k - 1 /\ more[n] = p[n]
            BY <1>1, <1>2, <3>2
        <3> QED
            BY <3>1, <3>2, <3>3
    <2> QED
        BY <1>8, <2>2, <2>3, <2>4
<1>10. ASSUME NEW i \in 1 .. k + 1
       PROVE  Holds(r[i], Along(v, more)[i - 1])
    <2>1. CASE i = k + 1
        BY <1>4, <1>5, <2>1 DEF Holds
    <2>2. CASE i = k
        BY <1>1, <1>5, <1>7, <2>2 DEF Current
    <2>3. CASE i \in 1 .. k - 1
        <3>1. r[i] = ns[i]
            BY <1>5, <2>3
        <3>2. i \in 1 .. k /\ i - 1 \in 0 .. k - 1
            BY <1>1, <2>3
        <3>3. Holds(ns[i], Along(v, p)[i - 1])
            BY <1>1, <3>2
        <3>4. Along(v, more)[i - 1] = Along(v, p)[i - 1]
            BY <1>7, <3>2
        <3> QED
            BY <3>1, <3>3, <3>4
    <2> QED
        BY <1>8, <2>1, <2>2, <2>3
<1>11. Exists(v, more)
    <2>1. SUFFICES ASSUME NEW n \in 1 .. k
                   PROVE  HasChild(Along(v, more)[n - 1], more[n])
        BY <1>2 DEF Exists
    <2>2. CASE n = k
        BY <1>1, <1>2, <1>7, <2>2 DEF Current
    <2>3. CASE n \in 1 .. k - 1
        BY <1>1, <1>2, <1>7, <2>3 DEF Exists
    <2> QED
        BY <1>1, <2>1, <2>2, <2>3
<1>12. StandsFor(r, v)
    BY <1>5, <1>6, <1>9, <1>10, <1>11 DEF StandsFor
<1> QED
    BY <1>4, <1>5, <1>12 DEF r

LEMMA KeepingHolds ==
    ASSUME NEW S, NEW f \in Frames(S), NEW a, NEW c, Holds(f, a), Keeps(a, c)
    PROVE  Holds(f, c)
<1>1. CASE f.kind = "array"
    <2>1. IsArray(a) /\ IsArray(c) /\ Len(a.arr) <= Len(c.arr) /\ f.index <= Len(a.arr)
        BY <1>1 DEF Holds, Keeps
    <2>2. Len(a.arr) \in Nat /\ Len(c.arr) \in Nat /\ f.index \in Nat
        BY <2>1, LenProperties DEF IsArray, Frames
    <2> QED
        BY <1>1, <2>1, <2>2 DEF Holds
<1>2. CASE f.kind # "array"
    BY <1>2 DEF Holds, Keeps
<1> QED
    BY <1>1, <1>2

\* The containers on the way to the value being read take its steps.
LEMMA PathTaken ==
    ASSUME NEW S, \A s \in S : AStep(s), NEW ns \in Seq(Frames(S)), ns # <<>>, NEW v,
           StandsFor(ns, v)
    PROVE  TakesPath(v, PathOf(ns))
<1> DEFINE p == PathOf(ns)
<1>1. SUFFICES ASSUME NEW n \in 1 .. Len(p)
               PROVE  Takes(Along(v, p)[n - 1], p[n])
    BY DEF TakesPath
<1> DEFINE a == Along(v, p)[n - 1]
<1>2. /\ Len(p) = Len(ns) - 1 /\ Len(ns) \in Nat
      /\ HasChild(a, p[n]) /\ p \in Seq(S)
      /\ \A i \in 1 .. Len(ns) : Holds(ns[i], Along(v, p)[i - 1])
    BY StandingIs DEF Exists
<1>3. AStep(p[n])
    BY <1>2, LenProperties
<1>4. n \in 1 .. Len(ns) /\ n # Len(ns)
    BY <1>2
<1>5. Holds(ns[n], a) /\ ns[n].at # "value" /\ ns[n] \in Frames(S)
    BY <1>2, <1>4, FramesAre DEF StandsFor, Within
<1>6. Type(a) = "obj" \/ IsArray(a)
    BY <1>5 DEF Holds, Frames
<1> HIDE DEF a, p
<1>7. ASSUME p[n] = Key(p[n].key) /\ DOMAIN p[n] = {"key"}
      PROVE  Takes(a, p[n])
    BY <1>2, <1>7 DEF HasChild, Has, Takes
<1>8. ASSUME p[n] = Index(p[n].index) /\ DOMAIN p[n] = {"index"}
      PROVE  Takes(a, p[n])
    <2>1. Type(a) = "arr" /\ p[n].index \in DOMAIN a.arr
        BY <1>2, <1>8 DEF HasChild
    <2>2. IsArray(a)
        BY <1>6, <2>1 DEF IsArray
    <2>3. Len(a.arr) \in Nat /\ DOMAIN a.arr = 1 .. Len(a.arr)
        BY <2>2, LenProperties DEF IsArray
    <2> QED
        BY <1>8, <2>1, <2>2, <2>3 DEF Takes
<1> QED
    BY <1>3, <1>7, <1>8, StepIs DEF p, a

\* The value being read is given, or replaced.
LEMMA TopAssigned ==
    ASSUME NEW S, \A s \in S : AStep(s), NEW ns \in Seq(Frames(S)), ns # <<>>, NEW v,
           StandsFor(ns, v), ns[Len(ns)].at = "value", NEW x
    PROVE  LET w == Assigned(v, PathOf(ns), x)
           IN StandsFor(ns, w) /\ Current(ns, w) = x
<1> DEFINE p == PathOf(ns)
           k == Len(ns)
           w == Assigned(v, p, x)
           a == Along(v, p)
           c == Along(w, p)
<1>1. /\ k \in Nat /\ k \in 1 .. k /\ p \in Seq(S) /\ Len(p) = k - 1
      /\ \A i \in 1 .. k : Holds(ns[i], a[i - 1])
    BY StandingIs
<1>2. /\ c[Len(p)] = x
      /\ \A n \in 1 .. Len(p) : HasChild(c[n - 1], p[n]) /\ Keeps(a[n - 1], c[n - 1])
    BY <1>1, PathTaken, AssignedOnPath
<1>3. \A i \in 1 .. k : ns[i] \in Frames(S)
    BY FramesAre
<1> HIDE DEF w, a, c
<1>4. \A i \in 1 .. k : Holds(ns[i], c[i - 1])
    <2>1. SUFFICES ASSUME NEW i \in 1 .. k
                   PROVE  Holds(ns[i], c[i - 1])
        OBVIOUS
    <2>2. CASE i = k
        <3>1. Holds(ns[k], a[k - 1]) /\ ns[k].at = "value"
            BY <1>1
        <3> QED
            BY <2>2, <3>1 DEF Holds
    <2>3. CASE i # k
        <3>1. i \in 1 .. Len(p)
            BY <1>1, <2>3
        <3> QED
            BY <1>1, <1>2, <1>3, <3>1, KeepingHolds
    <2> QED
        BY <2>2, <2>3
<1>5. Exists(w, p)
    BY <1>2 DEF Exists, c
<1>6. Current(ns, w) = x
    BY <1>1, <1>2 DEF Current, c
<1>7. StandsFor(ns, w)
    BY <1>4, <1>5 DEF StandsFor, c
<1> QED
    BY <1>6, <1>7 DEF w

\* So does the container being read, when its child is at step s.
LEMMA ChildTaken ==
    ASSUME NEW S, \A s \in S : AStep(s), NEW ns \in Seq(Frames(S)), ns # <<>>, NEW v,
           StandsFor(ns, v), NEW s \in S, Takes(Current(ns, v), s)
    PROVE  LET q == Append(PathOf(ns), s)
           IN /\ q \in Seq(S) /\ Len(q) = Len(ns)
              /\ TakesPath(v, q)
<1> DEFINE p == PathOf(ns)
           q == Append(p, s)
           k == Len(ns)
<1>1. /\ k \in Nat /\ k \in 1 .. k /\ p \in Seq(S) /\ Len(p) = k - 1
    BY StandingIs
<1>2. /\ q \in Seq(S) /\ Len(q) = k /\ q[k] = s
      /\ \A n \in 1 .. k - 1 : q[n] = p[n]
    <2> HIDE DEF p, k
    <2> QED
        BY <1>1, AppendProperties
<1>3. TakesPath(v, q)
    <2>1. SUFFICES ASSUME NEW n \in 1 .. k
                   PROVE  Takes(Along(v, q)[n - 1], q[n])
        BY <1>2 DEF TakesPath
    <2>2. Along(v, q)[n - 1] = Along(v, p)[n - 1]
        <3>1. /\ Len(q) \in Nat /\ Len(p) \in Nat
              /\ n - 1 \in Nat /\ n - 1 <= Len(q) /\ n - 1 <= Len(p)
              /\ \A i \in 1 .. n - 1 : q[i] = p[i]
            BY <1>1, <1>2
        <3> HIDE DEF q, p, k
        <3> QED
            BY <3>1, AlongAgrees
    <2>3. CASE n = k
        BY <1>2, <2>2, <2>3 DEF Current
    <2>4. CASE n # k
        <3>1. n \in 1 .. Len(p) /\ q[n] = p[n]
            BY <1>1, <1>2, <2>4
        <3>2. Takes(Along(v, p)[n - 1], p[n])
            BY <3>1, PathTaken DEF TakesPath
        <3> QED
            BY <2>2, <3>1, <3>2
    <2> QED
        BY <2>3, <2>4
<1> QED
    BY <1>2, <1>3

\* The container being read gets a child, or another one in its place.
LEMMA ChildAssigned ==
    ASSUME NEW S, \A s \in S : AStep(s), NEW ns \in Seq(Frames(S)), ns # <<>>, NEW v,
           StandsFor(ns, v), NEW s \in S, Takes(Current(ns, v), s), NEW x
    PROVE  LET w == Assigned(v, Append(PathOf(ns), s), x)
           IN /\ StandsFor(ns, w)
              /\ HasChild(Current(ns, w), s)
              /\ Keeps(Current(ns, v), Current(ns, w))
<1> DEFINE p == PathOf(ns)
           q == Append(p, s)
           k == Len(ns)
           w == Assigned(v, q, x)
           a == Along(v, q)
           c == Along(w, q)
<1>1. /\ k \in Nat /\ k \in 1 .. k /\ p \in Seq(S) /\ Len(p) = k - 1
      /\ \A i \in 1 .. k : Holds(ns[i], Along(v, p)[i - 1])
    BY StandingIs
<1>2. /\ q \in Seq(S) /\ Len(q) = k /\ q[k] = s
      /\ \A n \in 1 .. k - 1 : q[n] = p[n]
    <2> HIDE DEF p, k
    <2> QED
        BY <1>1, AppendProperties
<1>3. ASSUME NEW u
      PROVE  \A n \in 0 .. k - 1 : Along(u, q)[n] = Along(u, p)[n]
    <2>1. SUFFICES ASSUME NEW n \in 0 .. k - 1
                   PROVE  Along(u, q)[n] = Along(u, p)[n]
        OBVIOUS
    <2>2. /\ Len(q) \in Nat /\ Len(p) \in Nat /\ n \in Nat /\ n <= Len(q) /\ n <= Len(p)
          /\ \A i \in 1 .. n : q[i] = p[i]
        BY <1>1, <1>2
    <2> HIDE DEF q, p, k
    <2> QED
        BY <2>2, AlongAgrees
<1>4. TakesPath(v, q)
    BY ChildTaken
<1>5. \A n \in 1 .. k : HasChild(c[n - 1], q[n]) /\ Keeps(a[n - 1], c[n - 1])
    BY <1>2, <1>4, AssignedOnPath
<1>6. /\ \A n \in 0 .. k - 1 : c[n] = Along(w, p)[n]
      /\ \A n \in 0 .. k - 1 : a[n] = Along(v, p)[n]
    BY <1>3
<1>7. \A i \in 1 .. k : ns[i] \in Frames(S)
    BY FramesAre
<1> HIDE DEF w, a, c, q
<1>8. \A n \in 1 .. k : Keeps(Along(v, p)[n - 1], Along(w, p)[n - 1])
    <2>1. SUFFICES ASSUME NEW n \in 1 .. k
                   PROVE  Keeps(Along(v, p)[n - 1], Along(w, p)[n - 1])
        OBVIOUS
    <2>2. n - 1 \in 0 .. k - 1
        BY <1>1
    <2> HIDE DEF p, k
    <2> QED
        BY <1>5, <1>6, <2>2
<1>9. \A i \in 1 .. k : Holds(ns[i], Along(w, p)[i - 1])
    BY <1>1, <1>7, <1>8, KeepingHolds
<1>10. Exists(w, p)
    <2>1. SUFFICES ASSUME NEW n \in 1 .. k - 1
                   PROVE  HasChild(Along(w, p)[n - 1], p[n])
        BY <1>1 DEF Exists
    <2> QED
        BY <1>1, <1>2, <1>5, <1>6
<1>11. HasChild(Current(ns, w), s)
    BY <1>1, <1>2, <1>5, <1>6 DEF Current
<1>12. Keeps(Current(ns, v), Current(ns, w))
    BY <1>1, <1>8 DEF Current
<1>13. StandsFor(ns, w)
    BY <1>9, <1>10 DEF StandsFor
<1> QED
    BY <1>11, <1>12, <1>13 DEF w, q

-----------------------------------------------------------------------------
(* The reader                                                              *)

StepsOf(Tokens) ==
    {Key(t.value.str) : t \in TokensRead(Tokens)} \cup {Index(i) : i \in Nat}

LEMMA StepsOfAre ==
    ASSUME NEW Tokens
    PROVE  /\ \A s \in StepsOf(Tokens) : AStep(s)
           /\ \A t \in TokensRead(Tokens) : Key(t.value.str) \in StepsOf(Tokens)
           /\ \A i \in Nat : Index(i) \in StepsOf(Tokens)
BY StepsAre DEF StepsOf

\* Each open value and each element of its array was paid for by a token, and after
\* a value there is one token more.
PaidFor(ns, place) ==
    /\ \A i \in 1 .. Len(ns) :
          /\ i + ns[i].index <= place + 1
          /\ ns[i].at = "value" => ns[i].index = 0
    /\ Len(ns) > 0 /\ ns[Len(ns)].at = "separator" =>
          Len(ns) + ns[Len(ns)].index <= place

\* A last value is there, and not within one that may yet be replaced.
LastIsThere(S, ns, v, last) ==
    /\ last = {} \/ \E q : last = {q}
    /\ \A q \in last :
          /\ q \in Seq(S) /\ Exists(v, q)
          /\ Len(ns) > 0 => Len(q) <= Len(ns)
          /\ Len(ns) > 0 /\ ns[Len(ns)].at = "value" => Len(q) <= Len(ns) - 1

\* Values fail, from the one with the error out to the root.
FailsByErrors(ns, n, answer) ==
    /\ n \in Nat
    /\ ns = <<>> => answer \in {"idle", "yes", "no"} /\ (answer = "no" <=> n > 0)
    /\ ns # <<>> => answer = "not yet" /\ (ns[Len(ns)].at = "recovery" <=> n > 0)

ReaderInv(Tokens) ==
    /\ document \in Seq(Tokens) /\ current \in Places
    /\ nodes \in Seq(Frames(StepsOf(Tokens)))
    /\ StandsFor(nodes, root)
    /\ PaidFor(nodes, current)
    /\ LastIsThere(StepsOf(Tokens), nodes, root, lastValue)
    /\ FailsByErrors(nodes, errors, parsed)

LEMMA InvImpliesPaid ==
    ASSUME NEW Tokens, ReaderInv(Tokens)
    PROVE  WorkIsBounded /\ CommentsMeetAValue
BY FramesAre DEF ReaderInv, PaidFor, LastIsThere, WorkIsBounded, CommentsMeetAValue

LEMMA TopIs ==
    ASSUME NEW Tokens, ReaderInv(Tokens), nodes # <<>>
    PROVE  /\ Top = nodes[Len(nodes)] /\ Top \in Frames(StepsOf(Tokens))
           /\ Top.path = PathOf(nodes) /\ Top.path \in Seq(StepsOf(Tokens))
           /\ Len(Top.path) = Len(nodes) - 1
           /\ Len(nodes) \in Nat /\ Len(nodes) \in 1 .. Len(nodes)
           /\ Holds(Top, Current(nodes, root))
           /\ Top.index \in Nat
           /\ Len(nodes) + Top.index <= current + 1
           /\ Top.at = "separator" => Len(nodes) + Top.index <= current
           /\ Top.at = "value" => Top.index = 0
           /\ parsed = "not yet" /\ (Top.at = "recovery" <=> errors > 0)
           /\ current \in Nat
<1> DEFINE S == StepsOf(Tokens)
<1>1. nodes \in Seq(Frames(S)) /\ StandsFor(nodes, root)
    BY DEF ReaderInv
<1>2. /\ Len(nodes) \in 1 .. Len(nodes) /\ Len(nodes) \in Nat
      /\ PathOf(nodes) \in Seq(S) /\ Len(PathOf(nodes)) = Len(nodes) - 1
      /\ Holds(nodes[Len(nodes)], Current(nodes, root))
    BY <1>1, StandingIs
<1>3. Top = nodes[Len(nodes)] /\ Top \in Frames(S)
    BY <1>1, <1>2, FramesAre DEF Top
<1>4. current \in Nat
    BY PlacesAre DEF ReaderInv
<1> HIDE DEF S
<1>5. Top.index \in Nat
    BY <1>3 DEF Frames
<1>6. Top.path = PathOf(nodes)
    BY <1>3 DEF PathOf
<1>7. /\ Len(nodes) + Top.index <= current + 1
      /\ Top.at = "separator" => Len(nodes) + Top.index <= current
      /\ Top.at = "value" => Top.index = 0
    BY <1>2, <1>3 DEF ReaderInv, PaidFor
<1>8. parsed = "not yet" /\ (Top.at = "recovery" <=> errors > 0)
    BY <1>3 DEF ReaderInv, FailsByErrors
<1> QED
    BY <1>2, <1>3, <1>4, <1>5, <1>6, <1>7, <1>8 DEF S

\* The text is read on.
OnTheText == UNCHANGED document /\ current' \in Places /\ current <= current'

LEMMA OnTheTextIs ==
    ASSUME NEW Tokens, ReaderInv(Tokens), OnTheText
    PROVE  /\ document' \in Seq(Tokens) /\ current' \in Places'
           /\ current' \in Nat /\ current \in Nat /\ current <= current'
<1>1. document \in Seq(Tokens) /\ document' = document
    BY DEF ReaderInv, OnTheText
<1>2. Places' = Places
    BY <1>1 DEF Places
<1>3. Places \in SUBSET Nat
    BY <1>1, PlacesAre
<1> QED
    BY <1>1, <1>2, <1>3 DEF ReaderInv, OnTheText

\* The last values after a step.
LastsUpTo(Tokens, n) ==
    /\ lastValue' = {} \/ \E q : lastValue' = {q}
    /\ \A q \in lastValue' : q \in Seq(StepsOf(Tokens)) /\ Exists(root', q) /\ Len(q) <= n

LEMMA ReturnKeeps ==
    ASSUME NEW Tokens, ReaderInv(Tokens), nodes # <<>>,
           NEW ok \in BOOLEAN, Return(ok), OnTheText, ok => current < current',
           StandsFor(nodes, root'), LastsUpTo(Tokens, Len(nodes) - 1),
           errors' \in Nat, errors' > 0 <=> ~ok
    PROVE  ReaderInv(Tokens)'
<1> DEFINE S == StepsOf(Tokens)
           k == Len(nodes)
<1>1. nodes \in Seq(Frames(S))
    BY DEF ReaderInv
<1>2. /\ k \in Nat /\ k > 0
      /\ \A i \in 1 .. k : nodes[i] \in Frames(S)
    BY <1>1, FramesAre
<1>3. parsed = "not yet"
    BY TopIs
<1>4. /\ document' \in Seq(Tokens) /\ current' \in Places'
      /\ current' \in Nat /\ current \in Nat /\ current <= current'
    BY OnTheTextIs
<1>5. PaidFor(nodes, current) /\ LastsUpTo(Tokens, k - 1)
    BY DEF ReaderInv
<1>6. /\ k = 1 => nodes' = <<>> /\ parsed' = IF ok THEN "yes" ELSE "no"
      /\ k # 1 =>
            /\ nodes' = [Front(nodes) EXCEPT ![k - 1].at = IF ok THEN "separator" ELSE "recovery"]
            /\ parsed' = parsed
    BY DEF Return
<1>7. k = Len(nodes)
    OBVIOUS
<1> HIDE DEF S, k
<1>8. CASE k = 1
    <2>1. nodes' = <<>> /\ parsed' = IF ok THEN "yes" ELSE "no"
        BY <1>6, <1>8
    <2>2. nodes' \in Seq(Frames(S)) /\ Len(nodes') = 0
        BY <2>1, EmptySeq
    <2>3. StandsFor(nodes', root')
        BY <2>2 DEF StandsFor, Within
    <2>4. PaidFor(nodes', current')
        BY <2>2 DEF PaidFor
    <2>5. LastIsThere(S, nodes', root', lastValue')
        <3>1. lastValue' = {} \/ \E q : lastValue' = {q}
            BY DEF LastsUpTo
        <3>2. \A q \in lastValue' : q \in Seq(S) /\ Exists(root', q)
            BY DEF LastsUpTo, S
        <3>3. ~(Len(nodes') > 0)
            BY <2>2
        <3> QED
            BY <3>1, <3>2, <3>3, Zenon DEF LastIsThere
    <2>6. FailsByErrors(nodes', errors', parsed')
        BY <2>1 DEF FailsByErrors
    <2> QED
        BY <1>4, <2>2, <2>3, <2>4, <2>5, <2>6 DEF ReaderInv, S
<1>9. CASE k # 1
    <2> DEFINE at == IF ok THEN "separator" ELSE "recovery"
               m == k - 1
    <2>1. nodes' = [Front(nodes) EXCEPT ![m].at = at] /\ parsed' = parsed
        BY <1>6, <1>9
    <2>2. at \in {"separator", "recovery"} /\ (at = "recovery" <=> ~ok)
        OBVIOUS
    <2> HIDE DEF at
    <2>3. /\ k > 1 /\ m \in Nat /\ m \in 1 .. m /\ m > 0
          /\ \A i \in 1 .. m : i \in 1 .. k
        BY <1>2, <1>9
    <2>4. /\ nodes' \in Seq(Frames(S)) /\ Len(nodes') = m
          /\ \A i \in 1 .. m : nodes'[i].index = nodes[i].index
          /\ nodes'[m].at = at
          /\ StandsFor(nodes', root')
        <3>1. Len(nodes) > 1 /\ Len(nodes) - 1 = m
            BY <1>7, <2>3
        <3>2. nodes' = Popped(nodes, at)
            BY <2>1, <3>1 DEF Popped
        <3> HIDE DEF m
        <3> QED
            BY <1>1, <2>2, <3>1, <3>2, PoppedStands
    <2>5. \A i \in 1 .. m : i + nodes[i].index <= current + 1 /\ nodes[i].index \in Nat
        <3>1. \A i \in 1 .. m : nodes[i].index \in Nat
            BY <1>2, <2>3 DEF Frames
        <3>2. \A i \in 1 .. k : i + nodes[i].index <= current + 1
            BY <1>5, <1>7 DEF PaidFor
        <3> QED
            BY <2>3, <3>1, <3>2
    <2>6. k = m + 1
        BY <1>2
    <2> HIDE DEF m
    <2>7. PaidFor(nodes', current')
        <3>1. \A i \in 1 .. m : i + nodes'[i].index <= current' + 1
            <4>1. SUFFICES ASSUME NEW i \in 1 .. m
                           PROVE  i + nodes'[i].index <= current' + 1
                OBVIOUS
            <4>2. i + nodes[i].index <= current + 1 /\ nodes[i].index \in Nat /\ i \in Nat
                BY <2>3, <2>5
            <4>3. nodes'[i].index = nodes[i].index
                BY <2>4
            <4> QED
                BY <1>4, <4>2, <4>3
        <3>2. \A i \in 1 .. m : i # m => nodes'[i].at # "value"
            BY <2>4 DEF StandsFor, Within
        <3>3. nodes'[m].at # "value"
            BY <2>2, <2>4
        <3>4. at = "separator" => m + nodes'[m].index <= current'
            <4>1. SUFFICES ASSUME ok
                           PROVE  m + nodes'[m].index <= current'
                BY <2>2
            <4>2. m + nodes[m].index <= current + 1 /\ nodes[m].index \in Nat
                BY <2>3, <2>5
            <4>3. nodes'[m].index = nodes[m].index
                BY <2>3, <2>4
            <4>4. current < current'
                BY <4>1
            <4> QED
                BY <1>4, <2>3, <4>2, <4>3, <4>4
        <3> QED
            BY <2>4, <3>1, <3>2, <3>3, <3>4 DEF PaidFor
    <2>8. LastIsThere(S, nodes', root', lastValue')
        <3>1. nodes'[Len(nodes')].at # "value"
            BY <2>2, <2>4
        <3>2. k - 1 = Len(nodes')
            BY <2>3, <2>4, <2>6
        <3> QED
            BY <1>5, <3>1, <3>2 DEF LastIsThere, LastsUpTo, S
    <2>9. FailsByErrors(nodes', errors', parsed')
        <3>1. nodes' # <<>>
            BY <2>3, <2>4, FramesAre
        <3> QED
            BY <1>3, <2>1, <2>2, <2>4, <3>1 DEF FailsByErrors
    <2> QED
        BY <1>4, <2>4, <2>7, <2>8, <2>9 DEF ReaderInv, S
<1> QED
    BY <1>8, <1>9

LEMMA GoOnKeeps ==
    ASSUME NEW Tokens, ReaderInv(Tokens), nodes # <<>>,
           NEW f \in Frames(StepsOf(Tokens)), f.path = Top.path, f.index = Top.index,
           f.at \in {"member", "recovery"}, Holds(f, Current(nodes, root')),
           GoOn(f), OnTheText, parsed' = parsed,
           StandsFor(nodes, root'), LastsUpTo(Tokens, Len(nodes)),
           errors' \in Nat, errors' > 0 <=> f.at = "recovery"
    PROVE  ReaderInv(Tokens)'
<1> DEFINE S == StepsOf(Tokens)
           k == Len(nodes)
<1>1. nodes \in Seq(Frames(S)) /\ PaidFor(nodes, current)
    BY DEF ReaderInv
<1>0. parsed = "not yet"
    BY TopIs
<1>2. k \in Nat /\ k > 0 /\ k \in 1 .. k
    BY <1>1, FramesAre
<1>b. f.path = PathOf(nodes)
    BY TopIs
<1>c. k + f.index <= current + 1 /\ f.index \in Nat
    BY TopIs
<1>3. /\ document' \in Seq(Tokens) /\ current' \in Places'
      /\ current' \in Nat /\ current \in Nat /\ current <= current'
    BY OnTheTextIs
<1>4. nodes' = Replaced(nodes, f)
    BY DEF GoOn, Replaced
<1>5. /\ nodes' \in Seq(Frames(S)) /\ Len(nodes') = Len(nodes)
      /\ \A i \in 1 .. Len(nodes) - 1 : nodes'[i] = nodes[i]
      /\ nodes'[Len(nodes)] = f
      /\ StandsFor(nodes', root')
    BY <1>1, <1>b, <1>4, ReplacedStands
<1>6. k = Len(nodes) /\ LastsUpTo(Tokens, k)
    OBVIOUS
<1> HIDE DEF S, k
<1>7. /\ Len(nodes') = k /\ nodes'[k] = f
      /\ \A i \in 1 .. k : i = k \/ nodes'[i] = nodes[i]
    BY <1>2, <1>5, <1>6
<1>8. PaidFor(nodes', current')
    <2>1. ASSUME NEW i \in 1 .. k
          PROVE  /\ i + nodes'[i].index <= current' + 1
                 /\ nodes'[i].at = "value" => nodes'[i].index = 0
        <3>1. CASE i = k
            BY <1>c, <1>3, <1>7, <3>1
        <3>2. CASE i # k
            <4>1. nodes'[i] = nodes[i]
                BY <1>7, <3>2
            <4>2. /\ i + nodes[i].index <= current + 1
                  /\ nodes[i].at = "value" => nodes[i].index = 0
                BY <1>1, <1>6 DEF PaidFor
            <4>3. nodes[i].index \in Nat
                BY <1>1, <1>6, FramesAre DEF Frames
            <4> QED
                BY <1>2, <1>3, <4>1, <4>2, <4>3
        <3> QED
            BY <3>1, <3>2
    <2> QED
        BY <1>7, <2>1 DEF PaidFor
<1>9. LastIsThere(S, nodes', root', lastValue')
    BY <1>6, <1>7 DEF LastIsThere, LastsUpTo, S
<1>10. FailsByErrors(nodes', errors', parsed')
    <2>1. nodes' # <<>>
        BY <1>2, <1>5, <1>7, FramesAre
    <2> QED
        BY <1>0, <1>7, <2>1 DEF FailsByErrors
<1> QED
    BY <1>3, <1>5, <1>8, <1>9, <1>10 DEF ReaderInv, S

LEMMA EnterKeeps ==
    ASSUME NEW Tokens, ReaderInv(Tokens), nodes # <<>>, Top.at # "recovery",
           NEW f \in Frames(StepsOf(Tokens)), f.path = Top.path,
           f.at \in {"member", "separator"}, Holds(f, Current(nodes, root')),
           NEW step \in StepsOf(Tokens), HasChild(Current(nodes, root'), step),
           Enter(f, step), OnTheText, parsed' = parsed, errors' = errors,
           StandsFor(nodes, root'), LastsUpTo(Tokens, Len(nodes)),
           Len(nodes) + f.index <= current' + 1, Len(nodes) <= current'
    PROVE  ReaderInv(Tokens)'
<1> DEFINE S == StepsOf(Tokens)
           k == Len(nodes)
<1>1. nodes \in Seq(Frames(S)) /\ PaidFor(nodes, current) /\ FailsByErrors(nodes, errors, parsed)
    BY DEF ReaderInv
<1>0. parsed = "not yet" /\ ~(errors > 0)
    BY TopIs
<1>2. k \in Nat /\ k > 0 /\ k \in 1 .. k
    BY <1>1, FramesAre
<1>b. f.path = PathOf(nodes)
    BY TopIs
<1>3. /\ document' \in Seq(Tokens) /\ current' \in Places'
      /\ current' \in Nat /\ current \in Nat /\ current <= current'
    BY OnTheTextIs
<1>4. nodes' = Entered(nodes, f, step) /\ f.at # "value"
    BY DEF Enter, Entered
<1>5. /\ nodes' \in Seq(Frames(S)) /\ Len(nodes') = Len(nodes) + 1
      /\ \A i \in 1 .. Len(nodes) - 1 : nodes'[i] = nodes[i]
      /\ nodes'[Len(nodes)] = f
      /\ nodes'[Len(nodes) + 1].at = "value" /\ nodes'[Len(nodes) + 1].index = 0
      /\ StandsFor(nodes', root')
    BY <1>1, <1>b, <1>4, EnteredStands
<1>6. /\ k = Len(nodes) /\ LastsUpTo(Tokens, k)
      /\ k + f.index <= current' + 1 /\ k <= current'
    OBVIOUS
<1> HIDE DEF S, k
<1>7. /\ Len(nodes') = k + 1 /\ nodes'[k] = f
      /\ nodes'[k + 1].at = "value" /\ nodes'[k + 1].index = 0
      /\ \A i \in 1 .. k + 1 : i = k + 1 \/ i = k \/ (i \in 1 .. k /\ nodes'[i] = nodes[i])
    BY <1>2, <1>5, <1>6
<1>8. PaidFor(nodes', current')
    <2>1. ASSUME NEW i \in 1 .. k + 1
          PROVE  /\ i + nodes'[i].index <= current' + 1
                 /\ nodes'[i].at = "value" => nodes'[i].index = 0
        <3>1. CASE i = k + 1
            BY <1>2, <1>3, <1>6, <1>7, <3>1
        <3>2. CASE i = k
            <4>1. nodes'[i] = f /\ f.at # "value"
                BY <1>4, <1>7, <3>2
            <4> QED
                BY <1>6, <3>2, <4>1
        <3>3. CASE i # k /\ i # k + 1
            <4>1. i \in 1 .. k /\ nodes'[i] = nodes[i]
                BY <1>7, <3>3
            <4>2. /\ i + nodes[i].index <= current + 1
                  /\ nodes[i].at = "value" => nodes[i].index = 0
                BY <1>1, <1>6, <4>1 DEF PaidFor
            <4>3. nodes[i].index \in Nat
                BY <1>1, <1>6, <4>1, FramesAre DEF Frames
            <4> QED
                BY <1>2, <1>3, <4>1, <4>2, <4>3
        <3> QED
            BY <3>1, <3>2, <3>3
    <2> QED
        BY <1>7, <2>1 DEF PaidFor
<1>9. LastIsThere(S, nodes', root', lastValue')
    <2>1. Len(nodes') - 1 = k /\ k <= Len(nodes')
        BY <1>2, <1>7
    <2>2. \A q \in lastValue' : q \in Seq(S) /\ Exists(root', q) /\ Len(q) <= k
        BY <1>6 DEF LastsUpTo, S
    <2>3. \A q \in lastValue' : Len(q) \in Nat
        BY <2>2, LenProperties
    <2>4. lastValue' = {} \/ \E q : lastValue' = {q}
        BY <1>6 DEF LastsUpTo
    <2>5. \A q \in lastValue' : Len(q) <= Len(nodes') /\ Len(q) <= Len(nodes') - 1
        BY <1>2, <2>1, <2>2, <2>3
    <2> QED
        BY <2>2, <2>4, <2>5, Zenon DEF LastIsThere
<1>10. FailsByErrors(nodes', errors', parsed')
    <2>1. nodes' # <<>>
        BY <1>2, <1>5, <1>7, FramesAre
    <2>2. nodes'[Len(nodes')].at # "recovery"
        BY <1>7
    <2> QED
        BY <1>0, <1>1, <2>1, <2>2 DEF FailsByErrors
<1> QED
    BY <1>3, <1>5, <1>8, <1>9, <1>10 DEF ReaderInv, S

-----------------------------------------------------------------------------
(* What a step finds                                                       *)

\* Where a step that reads a token, or reads on to one, comes to.
LEMMA ReadFrom ==
    ASSUME NEW Tokens, ReaderInv(Tokens)
    PROVE  /\ document \in Seq(Tokens) /\ current \in Places /\ Places \in SUBSET Nat
           /\ \A i \in Places : /\ Reads(Tokens, i, SkipComments(i))
                                /\ Reads(Tokens, i, ReadToken(i))
                                /\ SkipSpaces(i) \in Places /\ i <= SkipSpaces(i)
           /\ \A i \in Places : \A token : SkipUntil(i, token) \in Places /\ i <= SkipUntil(i, token)
<1>1. document \in Seq(Tokens) /\ current \in Places
    BY DEF ReaderInv
<1>2. Places \in SUBSET Nat
    BY <1>1, PlacesAre
<1> QED
    BY <1>1, <1>2, SkipCommentsIs, ReadTokenIs, SkipSpacesIs, SkipUntilIs

\* The last values of before a step, in what is read then.
LEMMA LastsBefore ==
    ASSUME NEW Tokens, ReaderInv(Tokens), nodes # <<>>
    PROVE  /\ lastValue = {} \/ \E q : lastValue = {q}
           /\ \A q \in lastValue :
                 /\ q \in Seq(StepsOf(Tokens)) /\ Exists(root, q) /\ Len(q) \in Nat
                 /\ Len(q) <= Len(nodes)
                 /\ Top.at = "value" => Len(q) <= Len(nodes) - 1
<1> DEFINE S == StepsOf(Tokens)
<1>1. LastIsThere(S, nodes, root, lastValue) /\ nodes \in Seq(Frames(S))
    BY DEF ReaderInv
<1>2. Len(nodes) > 0 /\ Top = nodes[Len(nodes)]
    BY <1>1, FramesAre, TopIs
<1> HIDE DEF S
<1>3. \A q \in lastValue : q \in Seq(S) /\ Len(q) \in Nat
    BY <1>1, LenProperties DEF LastIsThere
<1> QED
    BY <1>1, <1>2, <1>3 DEF LastIsThere, S

\* The value that ends is there.
LEMMA EndedIs ==
    ASSUME NEW Tokens, ReaderInv(Tokens), nodes # <<>>, Ended, StandsFor(nodes, root')
    PROVE  LastsUpTo(Tokens, Len(nodes) - 1)
<1>1. Top.path = PathOf(nodes) /\ Top.path \in Seq(StepsOf(Tokens)) /\ Len(Top.path) = Len(nodes) - 1
    BY TopIs
<1>2. Len(nodes) \in Nat /\ Len(nodes) > 0
    BY FramesAre DEF ReaderInv
<1>3. Exists(root', PathOf(nodes))
    BY <1>2 DEF StandsFor
<1>4. lastValue' = {Top.path}
    BY DEF Ended
<1>5. ASSUME NEW q \in lastValue'
      PROVE  q \in Seq(StepsOf(Tokens)) /\ Exists(root', q) /\ Len(q) <= Len(nodes) - 1
    <2>1. q = Top.path
        BY <1>4
    <2>2. Len(nodes) - 1 <= Len(nodes) - 1
        BY <1>2
    <2> QED
        BY <1>1, <1>3, <2>1, <2>2
<1> QED
    BY <1>4, <1>5, Zenon DEF LastsUpTo

\* The value being read becomes x.
LEMMA ValueAssigned ==
    ASSUME NEW Tokens, ReaderInv(Tokens), nodes # <<>>, Top.at = "value", NEW x,
           root' = Assigned(root, Top.path, x)
    PROVE  /\ StandsFor(nodes, root') /\ Current(nodes, root') = x
           /\ lastValue' = lastValue => LastsUpTo(Tokens, Len(nodes) - 1)
<1> DEFINE S == StepsOf(Tokens)
<1>1. \A s \in S : AStep(s)
    BY StepsOfAre
<1>2. nodes \in Seq(Frames(S)) /\ StandsFor(nodes, root)
    BY DEF ReaderInv
<1>3. nodes[Len(nodes)].at = "value"
    BY TopIs
<1>4. root' = Assigned(root, PathOf(nodes), x)
    BY TopIs
<1>5. StandsFor(nodes, root') /\ Current(nodes, root') = x
    BY <1>1, <1>2, <1>3, <1>4, TopAssigned
<1>6. TakesPath(root, PathOf(nodes)) /\ PathOf(nodes) \in Seq(S) /\ Len(PathOf(nodes)) = Len(nodes) - 1
    BY <1>1, <1>2, PathTaken, StandingIs
<1>7. \A q \in lastValue : q \in Seq(S) /\ Exists(root, q) /\ Len(q) <= Len(nodes) - 1
    BY LastsBefore
<1>8. \A q \in lastValue : Exists(root', q)
    BY <1>1, <1>4, <1>6, <1>7, AssignedLeaves
<1>9. lastValue = {} \/ \E q : lastValue = {q}
    BY LastsBefore
<1> QED
    BY <1>5, <1>7, <1>8, <1>9 DEF LastsUpTo

LEMMA LastsStay ==
    ASSUME NEW Tokens, ReaderInv(Tokens), nodes # <<>>, root' = root, lastValue' = lastValue
    PROVE  /\ StandsFor(nodes, root')
           /\ LastsUpTo(Tokens, Len(nodes))
           /\ Top.at = "value" => LastsUpTo(Tokens, Len(nodes) - 1)
<1>1. StandsFor(nodes, root')
    BY DEF ReaderInv
<1> QED
    BY <1>1, LastsBefore, Zenon DEF LastsUpTo

LEMMA LastsLess ==
    ASSUME NEW Tokens, ReaderInv(Tokens), LastsUpTo(Tokens, Len(nodes) - 1)
    PROVE  LastsUpTo(Tokens, Len(nodes))
<1>1. Len(nodes) \in Nat
    BY FramesAre DEF ReaderInv
<1>2. \A q \in lastValue' : Len(q) \in Nat
    BY LenProperties DEF LastsUpTo
<1>3. \A q \in lastValue' : Len(q) <= Len(nodes)
    BY <1>1, <1>2 DEF LastsUpTo
<1> QED
    BY <1>3 DEF LastsUpTo

\* The container being read gets a child at step s.
LEMMA MemberAssigned ==
    ASSUME NEW Tokens, ReaderInv(Tokens), nodes # <<>>,
           NEW s \in StepsOf(Tokens), Takes(Current(nodes, root), s), NEW x,
           root' = Assigned(root, Append(Top.path, s), x), lastValue' = lastValue
    PROVE  /\ StandsFor(nodes, root')
           /\ HasChild(Current(nodes, root'), s)
           /\ Keeps(Current(nodes, root), Current(nodes, root'))
           /\ LastsUpTo(Tokens, Len(nodes))
<1> DEFINE S == StepsOf(Tokens)
           p == Append(PathOf(nodes), s)
<1>1. \A t \in S : AStep(t)
    BY StepsOfAre
<1>2. nodes \in Seq(Frames(S)) /\ StandsFor(nodes, root)
    BY DEF ReaderInv
<1>3. root' = Assigned(root, p, x)
    BY TopIs
<1>4. /\ StandsFor(nodes, root')
      /\ HasChild(Current(nodes, root'), s)
      /\ Keeps(Current(nodes, root), Current(nodes, root'))
    BY <1>1, <1>2, <1>3, ChildAssigned
<1>5. TakesPath(root, p) /\ p \in Seq(S) /\ Len(p) = Len(nodes)
    BY <1>1, <1>2, ChildTaken
<1>6. \A q \in lastValue : q \in Seq(S) /\ Exists(root, q) /\ Len(q) <= Len(nodes)
    BY LastsBefore
<1>7. \A q \in lastValue : Exists(root', q)
    BY <1>1, <1>3, <1>5, <1>6, AssignedLeaves
<1>8. lastValue = {} \/ \E q : lastValue = {q}
    BY LastsBefore
<1> QED
    BY <1>4, <1>6, <1>7, <1>8 DEF LastsUpTo

\* What its frame says of the value being read.
LEMMA TopHolds ==
    ASSUME NEW Tokens, ReaderInv(Tokens), nodes # <<>>
    PROVE  /\ Top \in Frames(StepsOf(Tokens)) /\ Holds(Top, Current(nodes, root))
           /\ Top.at # "recovery" => errors \in Nat /\ ~(errors > 0)
           /\ Top.at = "recovery" => errors \in Nat /\ errors > 0
           /\ errors + 1 \in Nat /\ errors + 1 > 0
<1>1. Top \in Frames(StepsOf(Tokens)) /\ Holds(Top, Current(nodes, root))
    BY TopIs
<1>2. Top.at = "recovery" <=> errors > 0
    BY TopIs
<1>3. errors \in Nat
    BY DEF ReaderInv, FailsByErrors
<1> QED
    BY <1>1, <1>2, <1>3

LEMMA TokensAre ==
    /\ EndOfStream.type \notin Scalars
    /\ EndOfStream # ObjectBegin /\ EndOfStream # ArrayBegin /\ EndOfStream # ObjectEnd
    /\ EndOfStream # ArrayEnd /\ EndOfStream # ArraySeparator /\ EndOfStream # Comment
    /\ EndOfStream # MemberSeparator
BY DEF Scalars, EndOfStream, ObjectBegin, ArrayBegin, ObjectEnd, ArrayEnd, ArraySeparator, Comment,
       MemberSeparator, Mark, Token

-----------------------------------------------------------------------------
(* The steps of the reader                                                 *)

LEMMA ReadScalarKeeps ==
    ASSUME NEW Tokens, ReaderInv(Tokens), nodes # <<>>, ReadScalar
    PROVE  ReaderInv(Tokens)'
<1> DEFINE read == SkipComments(current)
<1>1. /\ Top.at = "value" /\ read.token.type \in Scalars /\ current' = read.end
      /\ root' = Assigned(root, Top.path, Decoded(read.token))
      /\ Return(TRUE) /\ Ended /\ document' = document /\ errors' = errors
    BY DEF ReadScalar
<1>2. Reads(Tokens, current, read) /\ read.token # EndOfStream
    BY <1>1, ReadFrom, TokensAre
<1>3. OnTheText /\ current < current'
    BY <1>1, <1>2 DEF Reads, OnTheText
<1>4. StandsFor(nodes, root')
    BY <1>1, ValueAssigned
<1>5. LastsUpTo(Tokens, Len(nodes) - 1)
    BY <1>1, <1>4, EndedIs
<1>6. errors' \in Nat /\ ~(errors' > 0)
    BY <1>1, TopHolds
<1> QED
    BY <1>1, <1>3, <1>4, <1>5, <1>6, ReturnKeeps

LEMMA ReadBrokenScalarKeeps ==
    ASSUME NEW Tokens, ReaderInv(Tokens), nodes # <<>>, ReadBrokenScalar
    PROVE  ReaderInv(Tokens)'
<1> DEFINE read == SkipComments(current)
<1>1. /\ current' = read.end /\ root' = root
      /\ Return(FALSE) /\ Ended /\ document' = document /\ errors' = errors + 1
    BY DEF ReadBrokenScalar
<1>2. Reads(Tokens, current, read)
    BY ReadFrom
<1>3. OnTheText
    BY <1>1, <1>2 DEF Reads, OnTheText
<1>4. StandsFor(nodes, root')
    BY <1>1 DEF ReaderInv
<1>5. LastsUpTo(Tokens, Len(nodes) - 1)
    BY <1>1, <1>4, EndedIs
<1>6. errors' \in Nat /\ errors' > 0
    BY <1>1, TopHolds
<1> QED
    BY <1>1, <1>3, <1>4, <1>5, <1>6, ReturnKeeps

LEMMA ReadNoValueKeeps ==
    ASSUME NEW Tokens, ReaderInv(Tokens), nodes # <<>>, ReadNoValue
    PROVE  ReaderInv(Tokens)'
<1> DEFINE read == SkipComments(current)
<1>1. /\ Top.at = "value" /\ current' = read.end /\ root' = root /\ lastValue' = lastValue
      /\ Return(FALSE) /\ document' = document /\ errors' = errors + 1
    BY DEF ReadNoValue
<1>2. Reads(Tokens, current, read)
    BY ReadFrom
<1>3. OnTheText
    BY <1>1, <1>2 DEF Reads, OnTheText
<1>4. StandsFor(nodes, root') /\ LastsUpTo(Tokens, Len(nodes) - 1)
    BY <1>1, LastsStay
<1>5. errors' \in Nat /\ errors' > 0
    BY <1>1, TopHolds
<1> QED
    BY <1>1, <1>3, <1>4, <1>5, ReturnKeeps

LEMMA BeginObjectKeeps ==
    ASSUME NEW Tokens, ReaderInv(Tokens), nodes # <<>>, BeginObject
    PROVE  ReaderInv(Tokens)'
<1> DEFINE read == SkipComments(current)
           f == [Top EXCEPT !.at = "member", !.kind = "object"]
<1>1. /\ Top.at = "value" /\ current' = read.end
      /\ root' = Assigned(root, Top.path, ObjValue(<<>>)) /\ lastValue' = lastValue
      /\ GoOn(f) /\ document' = document /\ errors' = errors /\ parsed' = parsed
    BY DEF BeginObject
<1>2. Reads(Tokens, current, read)
    BY ReadFrom
<1>3. OnTheText
    BY <1>1, <1>2 DEF Reads, OnTheText
<1>4. /\ StandsFor(nodes, root') /\ Current(nodes, root') = ObjValue(<<>>)
      /\ LastsUpTo(Tokens, Len(nodes))
    BY <1>1, ValueAssigned, LastsLess
<1>5. /\ f \in Frames(StepsOf(Tokens)) /\ f.path = Top.path /\ f.index = Top.index
      /\ f.at = "member" /\ f.kind = "object"
    BY TopHolds DEF Frames
<1>6. errors' \in Nat /\ ~(errors' > 0)
    BY <1>1, TopHolds
<1> HIDE DEF f
<1>7. Holds(f, Current(nodes, root'))
    BY <1>4, <1>5, TypesAre DEF Holds
<1> QED
    BY <1>1, <1>3, <1>4, <1>5, <1>6, <1>7, GoOnKeeps

LEMMA BeginArrayKeeps ==
    ASSUME NEW Tokens, ReaderInv(Tokens), nodes # <<>>, BeginArray
    PROVE  ReaderInv(Tokens)'
<1> DEFINE read == SkipComments(current)
           next1 == ReadToken(read.end)
           f == [Top EXCEPT !.at = "separator", !.kind = "array", !.index = 1]
<1>1. /\ Top.at = "value" /\ read.token = ArrayBegin
      /\ document' = document /\ errors' = errors
      /\ \/ /\ current' = next1.end
            /\ root' = Assigned(root, Top.path, ArrValue(<<>>))
            /\ Return(TRUE) /\ Ended
         \/ /\ current' = SkipSpaces(read.end)
            /\ root' = Assigned(root, Top.path, ArrValue(<<Null>>))
            /\ Enter(f, Index(1))
            /\ lastValue' = lastValue /\ parsed' = parsed
    BY DEF BeginArray
<1>2. read.end \in Places /\ current < read.end
    BY <1>1, ReadFrom, TokensAre DEF Reads
<1>3. OnTheText /\ current < current'
    <2>1. current \in Nat /\ read.end \in Nat
        BY <1>2, ReadFrom
    <2>2. next1.end \in Places /\ read.end <= next1.end /\ next1.end \in Nat
        BY <1>2, ReadFrom DEF Reads
    <2>3. SkipSpaces(read.end) \in Places /\ read.end <= SkipSpaces(read.end) /\ SkipSpaces(read.end) \in Nat
        BY <1>2, ReadFrom
    <2>4. current' = next1.end \/ current' = SkipSpaces(read.end)
        BY <1>1
    <2> HIDE DEF read, next1
    <2>5. current' \in Places /\ current < current' /\ current <= current'
        BY <1>2, <2>1, <2>2, <2>3, <2>4
    <2> QED
        BY <1>1, <2>5 DEF OnTheText
<1>4. errors' \in Nat /\ ~(errors' > 0)
    BY <1>1, TopHolds
<1>5. CASE /\ root' = Assigned(root, Top.path, ArrValue(<<>>))
           /\ Return(TRUE) /\ Ended
    <2>1. StandsFor(nodes, root')
        BY <1>1, <1>5, ValueAssigned
    <2>2. LastsUpTo(Tokens, Len(nodes) - 1)
        BY <1>5, <2>1, EndedIs
    <2> QED
        BY <1>3, <1>4, <1>5, <2>1, <2>2, ReturnKeeps
<1>6. CASE /\ root' = Assigned(root, Top.path, ArrValue(<<Null>>))
           /\ Enter(f, Index(1))
           /\ lastValue' = lastValue /\ parsed' = parsed
    <2>1. /\ StandsFor(nodes, root') /\ Current(nodes, root') = ArrValue(<<Null>>)
          /\ LastsUpTo(Tokens, Len(nodes))
        BY <1>1, <1>6, ValueAssigned, LastsLess
    <2>2. /\ f \in Frames(StepsOf(Tokens)) /\ f.path = Top.path /\ f.index = 1
          /\ f.at = "separator" /\ f.kind = "array"
        BY TopHolds DEF Frames
    <2>3. /\ IsArray(ArrValue(<<Null>>)) /\ Len(ArrValue(<<Null>>).arr) = 1
          /\ HasChild(ArrValue(<<Null>>), Index(1))
        <3> DEFINE q == <<Null>>
                   v == ArrValue(q)
        <3>1. q \in Seq(Range(q)) /\ Len(q) = 1 /\ 1 \in DOMAIN q
            BY DEF Range
        <3>2. Type(v) = "arr" /\ v.arr = q
            BY TypesAre
        <3>3. Index(1).index = 1 /\ "index" \in DOMAIN Index(1)
            BY StepsAre
        <3> HIDE DEF q, v
        <3>4. IsArray(v) /\ Len(v.arr) = 1 /\ HasChild(v, Index(1))
            BY <3>1, <3>2, <3>3 DEF IsArray, HasChild
        <3> QED
            BY <3>4 DEF q, v
    <2> HIDE DEF f
    <2>4. Holds(f, Current(nodes, root'))
        <3>1. /\ f.at # "value" /\ f.at # "member" /\ f.kind # "value" /\ f.kind # "object"
            BY <2>2
        <3>2. IsArray(Current(nodes, root')) /\ f.index <= Len(Current(nodes, root').arr)
            <4>1. Len(Current(nodes, root').arr) = 1 /\ IsArray(Current(nodes, root'))
                BY <2>1, <2>3, Zenon
            <4>2. f.index <= 1
                BY <2>2
            <4> QED
                BY <4>1, <4>2
        <3> QED
            BY <3>1, <3>2, Zenon DEF Holds
    <2>5. Index(1) \in StepsOf(Tokens) /\ HasChild(Current(nodes, root'), Index(1))
        BY <2>1, <2>3, StepsOfAre
    <2>6. Len(nodes) + f.index <= current' + 1 /\ Len(nodes) <= current'
        <3>1. Len(nodes) \in Nat /\ Top.index \in Nat /\ Len(nodes) + Top.index <= current + 1
            BY TopIs
        <3>2. current \in Nat /\ current' \in Nat
            BY <1>3, OnTheTextIs
        <3> QED
            BY <1>3, <2>2, <3>1, <3>2
    <2> QED
        BY <1>1, <1>3, <1>6, <2>1, <2>2, <2>4, <2>5, <2>6, EnterKeeps
<1> QED
    BY <1>1, <1>5, <1>6

LEMMA EndEmptyObjectKeeps ==
    ASSUME NEW Tokens, ReaderInv(Tokens), nodes # <<>>, EndEmptyObject
    PROVE  ReaderInv(Tokens)'
<1> DEFINE read == SkipComments(current)
<1>1. /\ Top.at = "member" /\ read.token = ObjectEnd /\ current' = read.end /\ root' = root
      /\ Return(TRUE) /\ Ended /\ document' = document /\ errors' = errors
    BY DEF EndEmptyObject
<1>2. Reads(Tokens, current, read) /\ read.token # EndOfStream
    BY <1>1, ReadFrom, TokensAre
<1>3. OnTheText /\ current < current'
    BY <1>1, <1>2 DEF Reads, OnTheText
<1>4. StandsFor(nodes, root')
    BY <1>1 DEF ReaderInv
<1>5. LastsUpTo(Tokens, Len(nodes) - 1)
    BY <1>1, <1>4, EndedIs
<1>6. errors' \in Nat /\ ~(errors' > 0)
    BY <1>1, TopHolds
<1> QED
    BY <1>1, <1>3, <1>4, <1>5, <1>6, ReturnKeeps

\* The name is there when the member is.
LEMMA MemberIsThere ==
    ASSUME NEW Tokens, ReaderInv(Tokens), nodes # <<>>, NEW s \in StepsOf(Tokens),
           Exists(root, Append(Top.path, s))
    PROVE  HasChild(Current(nodes, root), s)
<1> DEFINE p == PathOf(nodes)
           q == Append(p, s)
           k == Len(nodes)
<1>1. k \in Nat /\ k \in 1 .. k
    BY TopIs
<1>2. p \in Seq(StepsOf(Tokens)) /\ Len(p) = k - 1
    BY TopIs
<1>3. Exists(root, q)
    BY TopIs
<1>4. Len(q) = k /\ q[k] = s /\ \A i \in 1 .. k - 1 : q[i] = p[i]
    <2> HIDE DEF p, k
    <2> QED
        BY <1>1, <1>2, AppendProperties
<1>5. HasChild(Along(root, q)[k - 1], s)
    BY <1>1, <1>3, <1>4 DEF Exists
<1>6. Along(root, q)[k - 1] = Along(root, p)[k - 1]
    <2>1. /\ Len(q) \in Nat /\ Len(p) \in Nat
          /\ k - 1 \in Nat /\ k - 1 <= Len(q) /\ k - 1 <= Len(p)
        BY <1>1, <1>2, <1>4
    <2>2. \A i \in 1 .. k - 1 : q[i] = p[i]
        BY <1>4
    <2> HIDE DEF p, q, k
    <2> QED
        BY <2>1, <2>2, AlongAgrees
<1> QED
    BY <1>5, <1>6 DEF Current

LEMMA ReadMemberKeeps ==
    ASSUME NEW Tokens, ReaderInv(Tokens), nodes # <<>>, ReadMember
    PROVE  ReaderInv(Tokens)'
<1> DEFINE read == SkipComments(current)
           colon == ReadToken(read.end)
           name == read.token.value.str
           path == Append(Top.path, Key(name))
           f == [Top EXCEPT !.named = name # ""]
<1>1. /\ Top.at = "member" /\ colon.token = MemberSeparator /\ current' = colon.end
      /\ root' = IF Exists(root, path) THEN root ELSE Assigned(root, path, Null)
      /\ Enter(f, Key(name))
      /\ document' = document /\ errors' = errors /\ lastValue' = lastValue /\ parsed' = parsed
    BY DEF ReadMember
<1>2. read.end \in Places /\ current <= read.end /\ read.token \in TokensRead(Tokens)
    BY ReadFrom DEF Reads
<1>3. current' \in Places /\ read.end < current'
    BY <1>1, <1>2, ReadFrom, TokensAre DEF Reads
<1>4. OnTheText /\ current < current'
    <2>1. current \in Nat /\ read.end \in Nat /\ current' \in Nat
        BY <1>2, <1>3, ReadFrom
    <2> HIDE DEF read, colon
    <2>2. current < current' /\ current <= current'
        BY <1>2, <1>3, <2>1
    <2> QED
        BY <1>1, <1>3, <2>2 DEF OnTheText
<1>5. Key(name) \in StepsOf(Tokens)
    BY <1>2, StepsOfAre
<1>6. /\ f \in Frames(StepsOf(Tokens)) /\ f.path = Top.path /\ f.index = Top.index
      /\ f.at = Top.at /\ f.kind = Top.kind
    BY TopHolds DEF Frames
<1>7. Top.kind = "object" /\ Type(Current(nodes, root)) = "obj"
    BY <1>1, TopHolds DEF Holds
<1>8. /\ StandsFor(nodes, root') /\ LastsUpTo(Tokens, Len(nodes))
      /\ HasChild(Current(nodes, root'), Key(name))
      /\ Type(Current(nodes, root')) = "obj"
    <2>1. CASE Exists(root, path)
        <3>1. root' = root
            BY <1>1, <2>1
        <3> QED
            BY <1>1, <1>5, <1>7, <2>1, <3>1, LastsStay, MemberIsThere
    <2>2. CASE ~Exists(root, path)
        <3>1. root' = Assigned(root, Append(Top.path, Key(name)), Null)
            BY <1>1, <2>2
        <3>2. Takes(Current(nodes, root), Key(name))
            BY <1>7, StepsAre DEF Takes
        <3> HIDE DEF name
        <3> QED
            BY <1>1, <1>5, <1>7, <3>1, <3>2, MemberAssigned DEF Keeps
    <2> QED
        BY <2>1, <2>2
<1> HIDE DEF f, name
<1>9. Holds(f, Current(nodes, root'))
    BY <1>1, <1>6, <1>7, <1>8 DEF Holds
<1>10. Len(nodes) + f.index <= current' + 1 /\ Len(nodes) <= current'
    <2>1. Len(nodes) \in Nat /\ Top.index \in Nat /\ Len(nodes) + Top.index <= current + 1
        BY TopIs
    <2>2. current \in Nat /\ current' \in Nat
        BY <1>4, OnTheTextIs
    <2> QED
        BY <1>4, <1>6, <2>1, <2>2
<1> QED
    BY <1>1, <1>4, <1>5, <1>6, <1>8, <1>9, <1>10, EnterKeeps

\* After an error what is read of the container does not change.
LEMMA RecoveringKeeps ==
    ASSUME NEW Tokens, ReaderInv(Tokens), nodes # <<>>, Top.at # "value",
           GoOn(Recovering), OnTheText,
           root' = root, lastValue' = lastValue, parsed' = parsed, errors' = errors + 1
    PROVE  ReaderInv(Tokens)'
<1> DEFINE f == Recovering
<1>1. StandsFor(nodes, root') /\ LastsUpTo(Tokens, Len(nodes))
    BY LastsStay
<1>2. /\ f \in Frames(StepsOf(Tokens)) /\ f.path = Top.path /\ f.index = Top.index
      /\ f.at = "recovery" /\ f.kind = Top.kind
    BY TopHolds DEF Frames, Recovering
<1>3. errors' \in Nat /\ errors' > 0
    BY TopHolds
<1> HIDE DEF f
<1>4. Holds(f, Current(nodes, root'))
    BY <1>2, TopHolds DEF Holds
<1>5. GoOn(f)
    BY DEF f
<1> QED
    BY <1>1, <1>2, <1>3, <1>4, <1>5, GoOnKeeps

LEMMA ReadNoMemberKeeps ==
    ASSUME NEW Tokens, ReaderInv(Tokens), nodes # <<>>, ReadNoMember
    PROVE  ReaderInv(Tokens)'
<1> DEFINE read == SkipComments(current)
           colon == ReadToken(read.end)
<1>1. /\ Top.at = "member" /\ (current' = read.end \/ current' = colon.end)
      /\ GoOn(Recovering) /\ document' = document /\ errors' = errors + 1
      /\ root' = root /\ lastValue' = lastValue /\ parsed' = parsed
    BY DEF ReadNoMember
<1>2. read.end \in Places /\ current <= read.end /\ colon.end \in Places /\ read.end <= colon.end
    BY ReadFrom DEF Reads
<1>3. OnTheText
    <2>1. current \in Nat /\ read.end \in Nat /\ colon.end \in Nat
        BY <1>2, ReadFrom
    <2>2. current' = read.end \/ current' = colon.end
        BY <1>1
    <2> HIDE DEF read, colon
    <2>3. current' \in Places /\ current <= current'
        BY <1>2, <2>1, <2>2
    <2> QED
        BY <1>1, <2>3 DEF OnTheText
<1> QED
    BY <1>1, <1>3, RecoveringKeeps

LEMMA ReadSeparatorKeeps ==
    ASSUME NEW Tokens, ReaderInv(Tokens), nodes # <<>>, ReadSeparator
    PROVE  ReaderInv(Tokens)'
<1> DEFINE read == ReadToken(current)
           comma == IF read.token = Comment THEN SkipComments(read.end) ELSE read
           f == [Top EXCEPT !.at = "member"]
<1>1. /\ Top.at = "separator" /\ Top.kind = "object"
      /\ read.token \in {ObjectEnd, ArraySeparator, Comment}
      /\ current' = comma.end /\ document' = document /\ errors' = errors /\ root' = root
      /\ \/ Return(TRUE) /\ Ended
         \/ GoOn(f) /\ lastValue' = lastValue /\ parsed' = parsed
    BY DEF ReadSeparator
<1>2. read.end \in Places /\ current < read.end
    BY <1>1, ReadFrom, TokensAre DEF Reads
<1>3. OnTheText /\ current < current'
    <2>1. SkipComments(read.end).end \in Places /\ read.end <= SkipComments(read.end).end
        BY <1>2, ReadFrom DEF Reads
    <2>2. current \in Nat /\ read.end \in Nat /\ SkipComments(read.end).end \in Nat
        BY <1>2, <2>1, ReadFrom
    <2>3. current' = read.end \/ current' = SkipComments(read.end).end
        BY <1>1
    <2> HIDE DEF read, comma
    <2>4. current' \in Places /\ current < current' /\ current <= current'
        BY <1>2, <2>1, <2>2, <2>3
    <2> QED
        BY <1>1, <2>4 DEF OnTheText
<1>4. errors' \in Nat /\ ~(errors' > 0)
    BY <1>1, TopHolds
<1>5. StandsFor(nodes, root')
    BY <1>1 DEF ReaderInv
<1>6. CASE Return(TRUE) /\ Ended
    <2>1. LastsUpTo(Tokens, Len(nodes) - 1)
        BY <1>5, <1>6, EndedIs
    <2> QED
        BY <1>3, <1>4, <1>5, <1>6, <2>1, ReturnKeeps
<1>7. CASE GoOn(f) /\ lastValue' = lastValue /\ parsed' = parsed
    <2>1. LastsUpTo(Tokens, Len(nodes))
        BY <1>1, <1>7, LastsStay
    <2>2. /\ f \in Frames(StepsOf(Tokens)) /\ f.path = Top.path /\ f.index = Top.index
          /\ f.at = "member" /\ f.kind = "object"
        BY <1>1, TopHolds DEF Frames
    <2> HIDE DEF f
    <2>3. Type(Current(nodes, root')) = "obj"
        BY <1>1, TopHolds DEF Holds
    <2>4. Holds(f, Current(nodes, root'))
        BY <2>2, <2>3 DEF Holds
    <2> QED
        BY <1>3, <1>4, <1>5, <1>7, <2>1, <2>2, <2>4, GoOnKeeps
<1> QED
    BY <1>1, <1>6, <1>7

LEMMA ReadNoSeparatorKeeps ==
    ASSUME NEW Tokens, ReaderInv(Tokens), nodes # <<>>, ReadNoSeparator
    PROVE  ReaderInv(Tokens)'
<1> DEFINE read == ReadToken(current)
<1>1. /\ Top.at = "separator" /\ current' = read.end
      /\ GoOn(Recovering) /\ document' = document /\ errors' = errors + 1
      /\ root' = root /\ lastValue' = lastValue /\ parsed' = parsed
    BY DEF ReadNoSeparator
<1>2. Reads(Tokens, current, read)
    BY ReadFrom
<1>3. OnTheText
    BY <1>1, <1>2 DEF Reads, OnTheText
<1> QED
    BY <1>1, <1>3, RecoveringKeeps

LEMMA EndElementKeeps ==
    ASSUME NEW Tokens, ReaderInv(Tokens), nodes # <<>>, EndElement
    PROVE  ReaderInv(Tokens)'
<1> DEFINE read == SkipComments(current)
           s == Index(Top.index + 1)
           f == [Top EXCEPT !.index = @ + 1]
<1>1. /\ Top.at = "separator" /\ Top.kind = "array"
      /\ current' = read.end /\ document' = document /\ errors' = errors
      /\ \/ read.token = ArrayEnd /\ Return(TRUE) /\ Ended /\ root' = root
         \/ /\ root' = Assigned(root, Append(Top.path, s), Null)
            /\ Enter(f, s)
            /\ lastValue' = lastValue /\ parsed' = parsed
    BY DEF EndElement
<1>2. Reads(Tokens, current, read)
    BY ReadFrom
<1>3. OnTheText /\ (read.token = ArrayEnd => current < current')
    BY <1>1, <1>2, TokensAre DEF Reads, OnTheText
<1>4. errors' \in Nat /\ ~(errors' > 0)
    BY <1>1, TopHolds
<1>5. CASE read.token = ArrayEnd /\ Return(TRUE) /\ Ended /\ root' = root
    <2>1. StandsFor(nodes, root')
        BY <1>5 DEF ReaderInv
    <2>2. LastsUpTo(Tokens, Len(nodes) - 1)
        BY <1>5, <2>1, EndedIs
    <2> QED
        BY <1>3, <1>4, <1>5, <2>1, <2>2, ReturnKeeps
<1>6. CASE /\ root' = Assigned(root, Append(Top.path, s), Null)
           /\ Enter(f, s)
           /\ lastValue' = lastValue /\ parsed' = parsed
    <2> DEFINE a == Current(nodes, root)
               c == Current(nodes, root')
    <2>1. IsArray(a) /\ Top.index <= Len(a.arr)
        BY <1>1, TopHolds DEF Holds
    <2>2. Top.index \in Nat /\ Len(a.arr) \in Nat
        BY <2>1, TopIs, LenProperties DEF IsArray
    <2>3. s.index = Top.index + 1 /\ "key" \notin DOMAIN s /\ "index" \in DOMAIN s
        BY StepsAre
    <2>4. s \in StepsOf(Tokens)
        BY <2>2, StepsOfAre
    <2>5. /\ f \in Frames(StepsOf(Tokens)) /\ f.path = Top.path /\ f.index = Top.index + 1
          /\ f.at = "separator" /\ f.kind = "array"
        BY <1>1, <2>2, TopHolds DEF Frames
    <2> HIDE DEF s, f
    <2>6. Takes(a, s)
        <3>1. s.index \in 1 .. Len(a.arr) + 1
            BY <2>1, <2>2, <2>3
        <3> QED
            BY <2>1, <2>3, <3>1 DEF Takes
    <2>7. StandsFor(nodes, root') /\ HasChild(c, s) /\ Keeps(a, c) /\ LastsUpTo(Tokens, Len(nodes))
        BY <1>6, <2>4, <2>6, MemberAssigned
    <2> HIDE DEF a
    <2>8. Holds(f, c)
        <3> HIDE DEF c
        <3>1. IsArray(c)
            BY <2>1, <2>7 DEF Keeps
        <3>2. s.index \in DOMAIN c.arr
            BY <2>3, <2>7 DEF HasChild
        <3>3. Len(c.arr) \in Nat /\ DOMAIN c.arr = 1 .. Len(c.arr)
            BY <3>1, LenProperties DEF IsArray
        <3>4. f.index <= Len(c.arr)
            BY <2>2, <2>3, <2>5, <3>2, <3>3
        <3> QED
            BY <2>5, <3>1, <3>4 DEF Holds
    <2>9. Len(nodes) + f.index <= current' + 1 /\ Len(nodes) <= current'
        <3>1. Len(nodes) \in Nat /\ Len(nodes) + Top.index <= current
            BY <1>1, TopIs
        <3>2. current \in Nat /\ current' \in Nat /\ current <= current'
            BY <1>3, OnTheTextIs
        <3> QED
            BY <2>2, <2>5, <3>1, <3>2
    <2>10. Top.at # "recovery"
        BY <1>1
    <2> QED
        BY <1>1, <1>3, <1>6, <2>4, <2>5, <2>7, <2>8, <2>9, <2>10, EnterKeeps
<1> QED
    BY <1>1, <1>5, <1>6

LEMMA RecoverKeeps ==
    ASSUME NEW Tokens, ReaderInv(Tokens), nodes # <<>>, Recover
    PROVE  ReaderInv(Tokens)'
<1> DEFINE token == IF Top.kind = "object" THEN ObjectEnd ELSE ArrayEnd
<1>1. /\ Top.at = "recovery" /\ current' = SkipUntil(current, token)
      /\ Return(FALSE) /\ Ended /\ document' = document /\ root' = root /\ errors' = errors
    BY DEF Recover
<1>2. OnTheText
    BY <1>1, ReadFrom DEF OnTheText
<1>3. StandsFor(nodes, root')
    BY <1>1 DEF ReaderInv
<1>4. LastsUpTo(Tokens, Len(nodes) - 1)
    BY <1>1, <1>3, EndedIs
<1>5. errors' \in Nat /\ errors' > 0
    BY <1>1, TopHolds
<1> QED
    BY <1>1, <1>2, <1>3, <1>4, <1>5, ReturnKeeps

LEMMA ReaderStepKeeps ==
    ASSUME NEW Tokens, ReaderInv(Tokens), ReaderStep
    PROVE  ReaderInv(Tokens)'
<1>1. nodes # <<>>
    BY DEF ReaderStep
<1> QED
    BY <1>1, ReadScalarKeeps, ReadBrokenScalarKeeps, ReadNoValueKeeps, BeginObjectKeeps,
       BeginArrayKeeps, EndEmptyObjectKeeps, ReadMemberKeeps, ReadNoMemberKeeps,
       ReadSeparatorKeeps, ReadNoSeparatorKeeps, EndElementKeeps, RecoverKeeps DEF ReaderStep

\* A text is taken up: one value is open, the text itself.
LEMMA ParseKeeps ==
    ASSUME NEW Tokens, NEW text \in Seq(Tokens), Parse(text)
    PROVE  ReaderInv(Tokens)'
<1> DEFINE S == StepsOf(Tokens)
           f == [at |-> "value", kind |-> "value", path |-> <<>>, named |-> FALSE, index |-> 0]
<1>0. nodes' = <<f>>
    BY DEF Parse, ValueAt
<1>1. lastValue' = {} /\ parsed' = "not yet"
    BY DEF Parse
<1>b. errors' = 0
    BY DEF Parse
<1>a. document' = text /\ current' = 1
    BY DEF Parse
<1>2. document' \in Seq(Tokens) /\ current' \in Places'
    <2>1. Len(text) \in Nat
        BY LenProperties
    <2> QED
        BY <1>a, <2>1 DEF Places
<1>3. f \in Frames(S) /\ f.at = "value" /\ f.kind = "value" /\ f.path = <<>> /\ f.index = 0
    <2>1. <<>> \in Seq(S)
        BY EmptySeq
    <2> QED
        BY <2>1 DEF Frames
<1> HIDE DEF f, S
<1>4. nodes' \in Seq(Frames(S)) /\ Len(nodes') = 1 /\ nodes'[1] = f /\ nodes' # <<>>
    <2>1. <<f>> \in Seq(Frames(S)) /\ Len(<<f>>) = 1 /\ <<f>>[1] = f
        BY <1>3
    <2>2. <<f>> # <<>>
        BY <2>1, EmptySeq
    <2> QED
        BY <1>0, <2>1, <2>2
<1>5. PathOf(nodes') = <<>> /\ Len(<<>>) = 0
    BY <1>3, <1>4, EmptySeq DEF PathOf
<1>6. \A i \in 1 .. 1 : i = 1
    OBVIOUS
<1>7. Within(nodes')
    BY <1>3, <1>4, <1>5, <1>6 DEF Within
<1>8. \A i \in 1 .. 1 : Holds(nodes'[i], Along(root', PathOf(nodes'))[i - 1])
    BY <1>3, <1>4, <1>6 DEF Holds
<1>9. Exists(root', PathOf(nodes'))
    BY <1>5 DEF Exists
<1>10. StandsFor(nodes', root')
    BY <1>4, <1>7, <1>8, <1>9 DEF StandsFor
<1>11. PaidFor(nodes', current')
    <2>1. \A i \in 1 .. 1 : i + nodes'[i].index <= current' + 1
        BY <1>a, <1>3, <1>4, <1>6
    <2>2. \A i \in 1 .. 1 : nodes'[i].index = 0
        BY <1>3, <1>4, <1>6
    <2>3. nodes'[1].at # "separator"
        BY <1>3, <1>4
    <2> QED
        BY <1>4, <2>1, <2>2, <2>3 DEF PaidFor
<1>12. LastIsThere(S, nodes', root', lastValue')
    BY <1>1 DEF LastIsThere
<1>13. FailsByErrors(nodes', errors', parsed')
    <2>1. errors' \in Nat /\ ~(errors' > 0)
        BY <1>b
    <2>2. nodes'[Len(nodes')].at # "recovery"
        BY <1>3, <1>4
    <2> QED
        BY <1>1, <1>4, <2>1, <2>2, Zenon DEF FailsByErrors
<1> QED
    BY <1>2, <1>4, <1>10, <1>11, <1>12, <1>13 DEF ReaderInv, S

LEMMA ReaderInitIs ==
    ASSUME NEW Tokens, ReaderInit
    PROVE  ReaderInv(Tokens)
<1>1. /\ document = <<>> /\ current = 1 /\ nodes = <<>> /\ lastValue = {}
      /\ errors = 0 /\ parsed = "idle"
    BY DEF ReaderInit
<1>2. document \in Seq(Tokens) /\ Len(document) = 0
    BY <1>1, EmptySeq
<1>3. current \in Places
    BY <1>1, <1>2 DEF Places
<1>4. nodes \in Seq(Frames(StepsOf(Tokens))) /\ Len(nodes) = 0
    BY <1>1, EmptySeq
<1>5. StandsFor(nodes, root)
    BY <1>4 DEF StandsFor, Within
<1>6. PaidFor(nodes, current)
    BY <1>4 DEF PaidFor
<1>7. LastIsThere(StepsOf(Tokens), nodes, root, lastValue)
    BY <1>1 DEF LastIsThere
<1>8. FailsByErrors(nodes, errors, parsed)
    BY <1>1 DEF FailsByErrors
<1> QED
    BY <1>2, <1>3, <1>4, <1>5, <1>6, <1>7, <1>8 DEF ReaderInv

LEMMA ReaderStays ==
    ASSUME NEW Tokens, ReaderInv(Tokens), UNCHANGED readerVars
    PROVE  ReaderInv(Tokens)'
<1>1. /\ document' = document /\ current' = current /\ nodes' = nodes /\ root' = root
      /\ errors' = errors /\ lastValue' = lastValue /\ parsed' = parsed
    BY DEF readerVars
<1>2. Places' = Places
    BY <1>1 DEF Places
<1> QED
    BY <1>1, <1>2 DEF ReaderInv

LEMMA ReaderInvariant ==
    ASSUME NEW CONSTANT Tokens
    PROVE  ReaderSpec(Tokens) => []ReaderInv(Tokens)
<1>1. ReaderInit => ReaderInv(Tokens)
    BY ReaderInitIs
<1>2. ReaderInv(Tokens) /\ [ReadNext(Tokens) \/ ReaderStep]_readerVars => ReaderInv(Tokens)'
    BY ReaderStepKeeps, ParseKeeps, ReaderStays DEF ReadNext
<1> QED
    BY <1>1, <1>2, PTL DEF ReaderSpec

\* Whatever texts of whatever tokens are parsed, the values that are open and the
\* elements of their arrays are never more than the tokens read (readValue,
\* readObject, readArray and recoverFromError of json_reader.cpp).
THEOREM WorkBounded ==
    ASSUME NEW CONSTANT Tokens
    PROVE  ReaderSpec(Tokens) => []WorkIsBounded
<1>1. ReaderInv(Tokens) => WorkIsBounded
    BY InvImpliesPaid
<1> QED
    BY <1>1, ReaderInvariant, PTL

\* Whatever texts are parsed, lastValue_ never points to a value that is gone: not
\* when a member is read again under its name, nor when an array grows (readValue,
\* readObject, readComment of json_reader.cpp).
THEOREM CommentsSafe ==
    ASSUME NEW CONSTANT Tokens
    PROVE  ReaderSpec(Tokens) => []CommentsMeetAValue
<1>1. ReaderInv(Tokens) => CommentsMeetAValue
    BY InvImpliesPaid
<1> QED
    BY <1>1, ReaderInvariant, PTL

-----------------------------------------------------------------------------
(* The values the reader makes                                             *)

Childless(y) == Proper(y) /\ Type(y) \notin {"arr", "obj"}

\* What the reader assigns: a container it begins, or what has no children.
Flat(x) ==
    /\ Proper(x)
    /\ \A t : AStep(t) /\ HasChild(x, t) => Childless(Child(x, t))

ProperAt(v, q) == Exists(v, q) => Proper(Along(v, q)[Len(q)])

LEMMA ChildlessIs ==
    ASSUME NEW y, Childless(y)
    PROVE  /\ Proper(y) /\ Flat(y)
           /\ \A t : ~HasChild(y, t)
BY DEF Childless, Proper, Flat, HasChild, Has

LEMMA NumbersAre ==
    /\ \A n : Type(IntValue(n)) = "int" /\ Type(UIntValue(n)) = "uint"
    /\ \A n : Type(RealValue(n)) = "real" /\ Type(BoolValue(n)) = "bool"
    /\ \A n \in Int : /\ Childless(IntValue(n)) /\ Childless(UIntValue(n))
                      /\ Childless(RealValue(n))
    /\ \A b : Childless(BoolValue(b)) /\ Childless(StrValue(b))
    /\ Childless(Null)
<1>1. \A n : /\ DOMAIN IntValue(n) = {"int"} /\ DOMAIN UIntValue(n) = {"uint"}
             /\ DOMAIN RealValue(n) = {"real"} /\ DOMAIN BoolValue(n) = {"bool"}
    BY DEF IntValue, UIntValue, RealValue, BoolValue
<1>2. \A v, t : DOMAIN v = {t} => Type(v) = t
    BY DEF Type
<1>3. /\ \A n : Type(IntValue(n)) = "int" /\ Type(UIntValue(n)) = "uint"
      /\ \A n : Type(RealValue(n)) = "real" /\ Type(BoolValue(n)) = "bool"
    BY <1>1, <1>2
<1>4. \A n : IntValue(n).int = n /\ UIntValue(n).uint = n /\ RealValue(n).real = n
    BY DEF IntValue, UIntValue, RealValue
<1>5. \A n : /\ Content(IntValue(n)) = n /\ Content(UIntValue(n)) = n
             /\ Content(RealValue(n)) = n
    BY <1>3, <1>4 DEF Content
<1>6. \A n \in Int : /\ Childless(IntValue(n)) /\ Childless(UIntValue(n))
                     /\ Childless(RealValue(n))
    BY <1>3, <1>5 DEF Childless, Proper
<1>7. \A b : Childless(BoolValue(b)) /\ Childless(StrValue(b))
    BY <1>3, TypesAre DEF Childless, Proper
<1>8. Childless(Null)
    BY TypesAre DEF Childless, Proper
<1> QED
    BY <1>3, <1>6, <1>7, <1>8

LEMMA FlatAre ==
    Flat(Null) /\ Flat(ObjValue(<<>>)) /\ Flat(ArrValue(<<>>)) /\ Flat(ArrValue(<<Null>>))
<1>1. Childless(Null)
    BY NumbersAre
<1>2. Flat(ObjValue(<<>>))
    <2> DEFINE v == ObjValue(<<>>)
    <2>1. Type(v) = "obj" /\ v.obj = <<>>
        BY TypesAre
    <2>2. DOMAIN v.obj = {} /\ IsFiniteSet(DOMAIN v.obj)
        BY <2>1, FS_EmptySet
    <2> HIDE DEF v
    <2>3. \A t : ~HasChild(v, t)
        BY <2>1, <2>2 DEF HasChild, Has
    <2>4. Flat(v)
        BY <2>1, <2>2, <2>3 DEF Flat, Proper
    <2> QED
        BY <2>4 DEF v
<1>3. ASSUME NEW s, s \in Seq({Null})
      PROVE  Flat(ArrValue(s))
    <2> DEFINE v == ArrValue(s)
    <2>1. Type(v) = "arr" /\ v.arr = s
        BY TypesAre
    <2>2. s \in Seq(Range(s)) /\ \A i \in DOMAIN s : s[i] = Null
        BY <1>3 DEF Range
    <2> HIDE DEF v
    <2>3. Proper(v)
        BY <2>1, <2>2 DEF Proper, IsArray
    <2>4. ASSUME NEW t, AStep(t), HasChild(v, t)
          PROVE  Child(v, t) = Null
        BY <2>1, <2>2, <2>4, StepIs DEF HasChild, Has, Child
    <2>5. Flat(v)
        BY <1>1, <2>3, <2>4 DEF Flat
    <2> QED
        BY <2>5 DEF v
<1>4. <<>> \in Seq({Null}) /\ <<Null>> \in Seq({Null})
    OBVIOUS
<1> QED
    BY <1>1, <1>2, <1>3, <1>4, ChildlessIs

\* Assigning keeps what is at any place proper.
LEMMA AssignedProper ==
    ASSUME NEW S, \A s \in S : AStep(s), NEW v, NEW p \in Seq(S), TakesPath(v, p),
           \A n \in 1 .. Len(p) - 1 : HasChild(Along(v, p)[n - 1], p[n]),
           NEW x, Flat(x),
           NEW R, \A s \in R : AStep(s), NEW q \in Seq(R), ProperAt(v, q)
    PROVE  ProperAt(Assigned(v, p, x), q)
<1> DEFINE w == Assigned(v, p, x)
           a == Along(v, p)
           c == Along(w, p)
           aq == Along(v, q)
           cq == Along(w, q)
           Agree(n) == n <= Len(p) /\ \A i \in 1 .. n : q[i] = p[i]
           Same(n) == cq[n] = aq[n] /\ \A i \in 1 .. n : HasChild(aq[i - 1], q[i])
           P == {n \in Nat : n <= Len(q) => Agree(n) \/ Same(n) \/ Childless(cq[n])}
<1>0. SUFFICES ASSUME Exists(w, q)
               PROVE  Proper(cq[Len(q)])
    BY DEF ProperAt
<1>1. /\ Len(p) \in Nat /\ \A n \in 1 .. Len(p) : AStep(p[n])
      /\ Len(q) \in Nat /\ \A n \in 1 .. Len(q) : AStep(q[n])
    BY LenProperties
<1>2. /\ c[Len(p)] = x
      /\ \A n \in 1 .. Len(p) :
            /\ Keeps(a[n - 1], c[n - 1])
            /\ \A t : AStep(t) /\ t # p[n] =>
                  /\ HasChild(c[n - 1], t) <=> HasChild(a[n - 1], t)
                  /\ HasChild(a[n - 1], t) => Child(c[n - 1], t) = Child(a[n - 1], t)
    BY AssignedOnPath
<1>3. /\ \A n \in 1 .. Len(q) : aq[n] = Child(aq[n - 1], q[n])
      /\ \A n \in 1 .. Len(q) : cq[n] = Child(cq[n - 1], q[n])
    BY <1>1, AlongIs
<1>4. \A n \in 1 .. Len(q) : HasChild(cq[n - 1], q[n])
    BY <1>0 DEF Exists
<1>5. ASSUME NEW n \in Nat, n <= Len(q), Agree(n)
      PROVE  /\ aq[n] = a[n] /\ cq[n] = c[n]
             /\ n < Len(p) => \A i \in 1 .. n : HasChild(aq[i - 1], q[i])
    <2>1. n <= Len(p)
        BY <1>5
    <2>2. ASSUME NEW j \in Nat, j <= n
          PROVE  aq[j] = a[j] /\ cq[j] = c[j]
        BY <1>1, <1>5, <2>1, <2>2, AlongAgrees
    <2> HIDE DEF w, a, c, aq, cq
    <2>3. ASSUME n < Len(p), NEW i \in 1 .. n
          PROVE  HasChild(aq[i - 1], q[i])
        <3>1. i - 1 \in Nat /\ i - 1 <= n /\ i \in 1 .. Len(p) - 1 /\ q[i] = p[i]
            BY <1>1, <1>5, <2>3
        <3>2. HasChild(a[i - 1], p[i])
            BY <3>1 DEF a
        <3> QED
            BY <2>2, <3>1, <3>2
    <2>4. aq[n] = a[n] /\ cq[n] = c[n]
        BY <2>2
    <2>5. n < Len(p) => \A i \in 1 .. n : HasChild(aq[i - 1], q[i])
        BY <2>3
    <2> QED
        BY <2>4, <2>5
<1>6. \A n \in 1 .. Len(p) - 1 : HasChild(a[n - 1], p[n])
    OBVIOUS
<1>7. Exists(v, q) => Proper(aq[Len(q)])
    BY DEF ProperAt
<1>8. (\A i \in 1 .. Len(q) : HasChild(aq[i - 1], q[i])) => Exists(v, q)
    BY DEF Exists
<1> HIDE DEF w, a, c, aq, cq
<1>9. 0 \in P
    BY <1>1
<1>10. ASSUME NEW n \in P
       PROVE  n + 1 \in P
    <2>1. SUFFICES ASSUME n + 1 <= Len(q)
                   PROVE  Agree(n + 1) \/ Same(n + 1) \/ Childless(cq[n + 1])
        OBVIOUS
    <2>2. n + 1 \in 1 .. Len(q) /\ (n + 1) - 1 = n /\ n <= Len(q)
        BY <1>1, <2>1
    <2>3. /\ aq[n + 1] = Child(aq[n], q[n + 1]) /\ cq[n + 1] = Child(cq[n], q[n + 1])
          /\ HasChild(cq[n], q[n + 1]) /\ AStep(q[n + 1])
        BY <1>1, <1>3, <1>4, <2>2
    <2>4. CASE Childless(cq[n])
        BY <2>3, <2>4, ChildlessIs
    <2>5. ASSUME \A i \in 1 .. n : HasChild(aq[i - 1], q[i]), HasChild(aq[n], q[n + 1]),
                 cq[n + 1] = aq[n + 1]
          PROVE  Same(n + 1)
        <3>1. ASSUME NEW i \in 1 .. n + 1
              PROVE  HasChild(aq[i - 1], q[i])
            <4>1. i \in 1 .. n \/ i = n + 1
                BY <3>1
            <4> QED
                BY <2>2, <2>5, <4>1
        <3> QED
            BY <2>5, <3>1
    <2>6. CASE Same(n)
        BY <2>3, <2>5, <2>6
    <2>7. CASE Agree(n)
        <3>1. aq[n] = a[n] /\ cq[n] = c[n] /\ n <= Len(p)
            BY <1>5, <2>2, <2>7
        <3>2. CASE n = Len(p)
            <4>1. cq[n] = x
                BY <1>2, <3>1, <3>2
            <4> QED
                BY <2>3, <4>1 DEF Flat
        <3>3. CASE n # Len(p) /\ q[n + 1] = p[n + 1]
            <4>1. Agree(n + 1)
                BY <1>1, <2>7, <3>3
            <4> QED
                BY <4>1
        <3>4. CASE n # Len(p) /\ q[n + 1] # p[n + 1]
            <4>1. n + 1 \in 1 .. Len(p) /\ n < Len(p)
                BY <1>1, <3>1, <3>4
            <4>2. /\ HasChild(c[n], q[n + 1]) <=> HasChild(a[n], q[n + 1])
                  /\ HasChild(a[n], q[n + 1]) => Child(c[n], q[n + 1]) = Child(a[n], q[n + 1])
                BY <1>2, <2>2, <2>3, <3>4, <4>1
            <4>3. \A i \in 1 .. n : HasChild(aq[i - 1], q[i])
                BY <1>5, <2>2, <2>7, <4>1
            <4> QED
                BY <2>3, <2>5, <3>1, <4>2, <4>3
        <3> QED
            BY <3>2, <3>3, <3>4
    <2> QED
        BY <2>2, <2>4, <2>6, <2>7
<1>11. Len(q) \in P
    <2> HIDE DEF P
    <2>1. P \in SUBSET Nat
        BY DEF P
    <2> QED
        BY <1>1, <1>9, <1>10, <2>1, FromZeroOn
<1> DEFINE m == Len(q)
<1>12. m \in Nat /\ (Agree(m) \/ Same(m) \/ Childless(cq[m]))
    BY <1>1, <1>11
<1>13. CASE Childless(cq[m])
    BY <1>13, ChildlessIs
<1>14. CASE Same(m)
    BY <1>7, <1>8, <1>14
<1>15. CASE Agree(m)
    <2>1. aq[m] = a[m] /\ cq[m] = c[m] /\ m <= Len(p)
        BY <1>1, <1>5, <1>15
    <2>2. CASE m = Len(p)
        BY <1>2, <2>1, <2>2 DEF Flat
    <2>3. CASE m # Len(p)
        <3>1. m < Len(p) /\ m + 1 \in 1 .. Len(p) /\ (m + 1) - 1 = m
            BY <1>1, <2>1, <2>3
        <3>2. Proper(aq[m])
            <4>1. m \in Nat /\ m <= Len(q)
                BY <1>1
            <4>2. \A i \in 1 .. m : HasChild(aq[i - 1], q[i])
                BY <1>5, <1>15, <3>1, <4>1
            <4> QED
                BY <1>7, <1>8, <4>2
        <3>3. Keeps(a[m], c[m])
            BY <1>2, <3>1
        <3> QED
            BY <2>1, <3>2, <3>3 DEF Keeps
    <2> QED
        BY <2>2, <2>3
<1> QED
    BY <1>12, <1>13, <1>14, <1>15

LEMMA ValueProper ==
    ASSUME NEW Tokens, ReaderInv(Tokens), nodes # <<>>, Top.at = "value", NEW x, Flat(x),
           root' = Assigned(root, Top.path, x),
           NEW R, \A s \in R : AStep(s), NEW q \in Seq(R), ProperAt(root, q)
    PROVE  ProperAt(root', q)
<1> DEFINE S == StepsOf(Tokens)
           p == PathOf(nodes)
<1>1. \A s \in S : AStep(s)
    BY StepsOfAre
<1>2. nodes \in Seq(Frames(S)) /\ StandsFor(nodes, root)
    BY DEF ReaderInv
<1>3. p \in Seq(S) /\ TakesPath(root, p) /\ root' = Assigned(root, p, x)
    BY <1>1, <1>2, TopIs, PathTaken, StandingIs
<1>4. \A n \in 1 .. Len(p) - 1 : HasChild(Along(root, p)[n - 1], p[n])
    <2>1. Len(nodes) > 0
        BY <1>1, <1>2, StandingIs
    <2>2. Exists(root, p) /\ Len(p) \in Nat
        BY <1>2, <1>3, <2>1, LenProperties DEF StandsFor
    <2> HIDE DEF p
    <2> QED
        BY <2>2 DEF Exists
<1> HIDE DEF S, p
<1> QED
    BY <1>1, <1>3, <1>4, AssignedProper

LEMMA ChildProper ==
    ASSUME NEW Tokens, ReaderInv(Tokens), nodes # <<>>,
           NEW s \in StepsOf(Tokens), Takes(Current(nodes, root), s), NEW x, Flat(x),
           root' = Assigned(root, Append(Top.path, s), x),
           NEW R, \A t \in R : AStep(t), NEW q \in Seq(R), ProperAt(root, q)
    PROVE  ProperAt(root', q)
<1> DEFINE S == StepsOf(Tokens)
           p == PathOf(nodes)
           pc == Append(p, s)
           k == Len(nodes)
<1>1. \A t \in S : AStep(t)
    BY StepsOfAre
<1>2. nodes \in Seq(Frames(S)) /\ StandsFor(nodes, root)
    BY DEF ReaderInv
<1>a. root' = Assigned(root, pc, x)
    BY TopIs
<1>3. pc \in Seq(S) /\ Len(pc) = k /\ TakesPath(root, pc) /\ root' = Assigned(root, pc, x)
    BY <1>a, <1>1, <1>2, ChildTaken
<1>4. k \in Nat /\ k > 0 /\ p \in Seq(S) /\ Len(p) = k - 1 /\ Exists(root, p)
    <2>1. k \in Nat /\ k \in 1 .. k /\ p \in Seq(S) /\ Len(p) = k - 1
        BY <1>1, <1>2, StandingIs
    <2>2. k > 0
        BY <2>1
    <2> QED
        BY <1>2, <2>1, <2>2 DEF StandsFor
<1>5. \A n \in 1 .. k - 1 : pc[n] = p[n]
    <2> HIDE DEF p, k
    <2> QED
        BY <1>4, AppendProperties
<1> HIDE DEF S, p, pc, k
<1>6. ASSUME NEW n \in 1 .. Len(pc) - 1
      PROVE  HasChild(Along(root, pc)[n - 1], pc[n])
    <2>1. /\ n \in 1 .. Len(p) /\ n - 1 \in Nat /\ n - 1 <= Len(p) /\ n - 1 <= Len(pc)
          /\ Len(p) \in Nat /\ Len(pc) \in Nat /\ \A i \in 1 .. n - 1 : pc[i] = p[i]
          /\ pc[n] = p[n]
        BY <1>3, <1>4, <1>5
    <2>2. Along(root, pc)[n - 1] = Along(root, p)[n - 1]
        BY <2>1, AlongAgrees
    <2>3. HasChild(Along(root, p)[n - 1], p[n])
        BY <1>4, <2>1 DEF Exists
    <2> QED
        BY <2>1, <2>2, <2>3
<1> QED
    BY <1>1, <1>3, <1>6, AssignedProper

\* Strings and numbers are such, or broken.
ProperTokens(Tokens) ==
    \A t \in Tokens :
       /\ t.type = "string" => t.value = Null \/ t.value = StrValue(t.value.str)
       /\ t.type = "number" =>
             t.value = Null \/ (Type(t.value) \in {"int", "real"} /\ Content(t.value) \in Int)

LEMMA DecodedIsFlat ==
    ASSUME NEW Tokens, ProperTokens(Tokens), NEW t \in TokensRead(Tokens),
           t.type \in Scalars, ~Broken(t)
    PROVE  Flat(Decoded(t))
<1>a. t.type \in {"number", "string"} => t \in Tokens
    <2>1. EndOfStream.type = "end of stream" /\ Comment.type = "comment"
        BY DEF EndOfStream, Comment, Mark, Token
    <2>2. t.type \in {"number", "string"} => t # EndOfStream /\ t # Comment
        BY <2>1
    <2> QED
        BY <2>2 DEF TokensRead
<1>1. CASE t.type = "number"
    <2> DEFINE v == t.value
    <2>1. Type(v) \in {"int", "real"} /\ Content(v) \in Int
        BY <1>a, <1>1 DEF ProperTokens, Broken
    <2>2. ASSUME Type(v) = "real"
          PROVE  Childless(DecodedNumber(v))
        <3>1. Childless(v)
            BY <2>1, <2>2 DEF Childless, Proper
        <3> QED
            BY <2>2, <3>1 DEF DecodedNumber
    <2>3. ASSUME Type(v) = "int"
          PROVE  Childless(DecodedNumber(v))
        <3>1. v.int \in Int
            BY <2>1, <2>3 DEF Content
        <3>2. DecodedNumber(v) \in {RealValue(v.int), IntValue(v.int), UIntValue(v.int)}
            BY <2>3 DEF DecodedNumber
        <3> QED
            BY <3>1, <3>2, NumbersAre
    <2>4. Decoded(t) = DecodedNumber(v)
        BY <1>1 DEF Decoded
    <2>5. Childless(Decoded(t))
        BY <2>1, <2>2, <2>3, <2>4
    <2> QED
        BY <2>5, ChildlessIs
<1>2. CASE t.type = "string"
    <2>2. t.value = StrValue(t.value.str)
        BY <1>a, <1>2 DEF ProperTokens, Broken
    <2>3. Childless(t.value)
        BY <2>2, NumbersAre
    <2>4. Decoded(t) = t.value
        BY <1>2 DEF Decoded
    <2> QED
        BY <2>3, <2>4, ChildlessIs
<1>3. CASE t.type = "null"
    BY <1>3, FlatAre DEF Decoded
<1>4. CASE t.type = "true" \/ t.type = "false"
    <2>1. Decoded(t) = BoolValue(t.type = "true")
        BY <1>4 DEF Decoded
    <2>2. Childless(BoolValue(t.type = "true"))
        BY NumbersAre
    <2> QED
        BY <2>1, <2>2, ChildlessIs
<1> QED
    BY <1>1, <1>2, <1>3, <1>4 DEF Scalars

LEMMA StepStaysProper ==
    ASSUME NEW Tokens, ProperTokens(Tokens), ReaderInv(Tokens), ReaderStep,
           NEW R, \A s \in R : AStep(s), NEW q \in Seq(R), ProperAt(root, q)
    PROVE  ProperAt(root', q)
<1>1. nodes # <<>>
    BY DEF ReaderStep
<1>2. ASSUME root' = root
      PROVE  ProperAt(root', q)
    BY <1>2
<1>3. CASE ReadScalar
    <2> DEFINE t == SkipComments(current).token
    <2>1. /\ Top.at = "value" /\ t.type \in Scalars /\ ~Broken(t)
          /\ root' = Assigned(root, Top.path, Decoded(t))
        BY <1>3 DEF ReadScalar
    <2>2. t \in TokensRead(Tokens)
        BY ReadFrom DEF Reads
    <2> HIDE DEF t
    <2>3. Flat(Decoded(t))
        BY <2>1, <2>2, DecodedIsFlat
    <2> QED
        BY <1>1, <2>1, <2>3, ValueProper
<1>4. CASE BeginObject
    <2>1. Top.at = "value" /\ root' = Assigned(root, Top.path, ObjValue(<<>>))
        BY <1>4 DEF BeginObject
    <2> QED
        BY <1>1, <2>1, FlatAre, ValueProper
<1>5. CASE BeginArray
    <2>1. /\ Top.at = "value"
          /\ \/ root' = Assigned(root, Top.path, ArrValue(<<>>))
             \/ root' = Assigned(root, Top.path, ArrValue(<<Null>>))
        BY <1>5 DEF BeginArray
    <2> QED
        BY <1>1, <2>1, FlatAre, ValueProper
<1>6. CASE ReadMember
    <2> DEFINE t == SkipComments(current).token
               s == Key(t.value.str)
    <2>1. /\ Top.at = "member"
          /\ root' = root \/ root' = Assigned(root, Append(Top.path, s), Null)
        BY <1>6 DEF ReadMember
    <2>2. s \in StepsOf(Tokens)
        BY ReadFrom, StepsOfAre DEF Reads
    <2>3. Takes(Current(nodes, root), s)
        <3>1. Type(Current(nodes, root)) = "obj"
            BY <1>1, <2>1, TopHolds DEF Holds
        <3> QED
            BY <3>1, StepsAre DEF Takes
    <2> HIDE DEF s
    <2> QED
        BY <1>1, <1>2, <2>1, <2>2, <2>3, FlatAre, ChildProper
<1>7. CASE EndElement
    <2> DEFINE s == Index(Top.index + 1)
    <2>1. /\ Top.kind = "array"
          /\ root' = root \/ root' = Assigned(root, Append(Top.path, s), Null)
        BY <1>7 DEF EndElement
    <2>2. Top.index \in Nat /\ s \in StepsOf(Tokens)
        BY <1>1, TopHolds, StepsOfAre DEF Frames
    <2>3. Takes(Current(nodes, root), s)
        <3>1. IsArray(Current(nodes, root)) /\ Top.index <= Len(Current(nodes, root).arr)
            BY <1>1, <2>1, TopHolds DEF Holds
        <3>2. Len(Current(nodes, root).arr) \in Nat
            BY <3>1, LenProperties DEF IsArray
        <3>3. Top.index + 1 \in 1 .. Len(Current(nodes, root).arr) + 1
            BY <2>2, <3>1, <3>2
        <3> QED
            BY <3>1, <3>3, StepsAre DEF Takes
    <2> HIDE DEF s
    <2> QED
        BY <1>1, <1>2, <2>1, <2>2, <2>3, FlatAre, ChildProper
<1>8. CASE \/ ReadBrokenScalar \/ ReadNoValue \/ EndEmptyObject \/ ReadNoMember
           \/ ReadSeparator \/ ReadNoSeparator \/ Recover
    <2>1. root' = root
        BY <1>8 DEF ReadBrokenScalar, ReadNoValue, EndEmptyObject, ReadNoMember,
                    ReadSeparator, ReadNoSeparator, Recover
    <2> QED
        BY <1>2, <2>1
<1> QED
    BY <1>3, <1>4, <1>5, <1>6, <1>7, <1>8 DEF ReaderStep

-----------------------------------------------------------------------------
(* Loading: the reader on a file                                           *)

FileTokens == UNION {Range(f.tokens) : f \in Files}

LEMMA FilesAre ==
    /\ ProperTokens(FileTokens)
    /\ \A f \in Files : f.tokens \in Seq(FileTokens)
<1>1. ProperTokens(FileTokens)
    BY FilesAssumption DEF FileTokens, ProperTokens
<1>2. ASSUME NEW f \in Files
      PROVE  f.tokens \in Seq(FileTokens)
    <2>1. f.tokens \in Seq(Range(f.tokens))
        BY FilesAssumption
    <2>2. Range(f.tokens) \in SUBSET FileTokens
        BY DEF FileTokens
    <2> QED
        BY <2>1, <2>2
<1> QED
    BY <1>1, <1>2

\* c[n] is the first n tokens without the ends of lines.
IsJoining(c, tokens, n) ==
    c = [i \in 0 .. n |->
            IF i = 0 THEN <<>>
            ELSE IF tokens[i] = EndOfLine THEN c[i - 1] ELSE Append(c[i - 1], tokens[i])]

LEMMA JoiningExists ==
    ASSUME NEW tokens, NEW n \in Nat
    PROVE  \E c : IsJoining(c, tokens, n)
<1> DEFINE P == {k \in Nat : \E c : IsJoining(c, tokens, k)}
           More(c, i) == IF tokens[i] = EndOfLine THEN c[i - 1] ELSE Append(c[i - 1], tokens[i])
<1>1. 0 \in P
    <2>1. IsJoining([i \in 0 .. 0 |-> <<>>], tokens, 0)
        BY DEF IsJoining
    <2> QED
        BY <2>1
<1>2. ASSUME NEW k \in P
      PROVE  k + 1 \in P
    <2>1. PICK c : IsJoining(c, tokens, k)
        OBVIOUS
    <2> DEFINE more == [i \in 0 .. k + 1 |-> IF i = 0 THEN <<>> ELSE More(c, i)]
    <2>2. \A i \in 0 .. k : c[i] = IF i = 0 THEN <<>> ELSE More(c, i)
        BY <2>1 DEF IsJoining
    <2>3. \A i \in 0 .. k : more[i] = c[i]
        BY <2>2
    <2>4. ASSUME NEW i \in 0 .. k + 1, i # 0
          PROVE  more[i] = More(more, i)
        <3>1. i - 1 \in 0 .. k
            BY <2>4
        <3> QED
            BY <2>3, <2>4, <3>1
    <2>5. IsJoining(more, tokens, k + 1)
        <3>1. more = [i \in 0 .. k + 1 |-> IF i = 0 THEN <<>> ELSE More(more, i)]
            BY <2>4
        <3> QED
            BY <3>1 DEF IsJoining
    <2> QED
        BY <2>5
<1>3. n \in P
    <2> HIDE DEF P
    <2>1. P \in SUBSET Nat
        BY DEF P
    <2> QED
        BY <1>1, <1>2, <2>1, FromZeroOn
<1> QED
    BY <1>3

LEMMA JoinedIs ==
    ASSUME NEW T, NEW tokens \in Seq(T)
    PROVE  Joined(tokens) \in Seq(T)
<1> DEFINE last == Len(tokens)
           More(c, i) == IF tokens[i] = EndOfLine THEN c[i - 1] ELSE Append(c[i - 1], tokens[i])
           Step(c) == [n \in 0 .. last |->
                          IF n = 0 THEN <<>>
                          ELSE IF tokens[n] = EndOfLine THEN c[n - 1]
                          ELSE Append(c[n - 1], tokens[n])]
           config_data == CHOOSE c : c = Step(c)
<1>1. last \in Nat /\ \A i \in 1 .. last : tokens[i] \in T
    OBVIOUS
<1>2. PICK c : IsJoining(c, tokens, last)
    BY <1>1, JoiningExists
<1>3. c = Step(c)
    BY <1>2 DEF IsJoining
<1>4. config_data = Step(config_data)
    BY <1>3
<1>5. Joined(tokens) = config_data[last]
    BY DEF Joined
<1> HIDE DEF config_data
<1> DEFINE P == {n \in Nat : n <= last => config_data[n] \in Seq(T)}
<1> HIDE DEF Step
<1>a. \A n \in 0 .. last : Step(config_data)[n] = IF n = 0 THEN <<>> ELSE More(config_data, n)
    BY DEF Step
<1>6. /\ config_data[0] = <<>>
      /\ \A n \in 1 .. last : config_data[n] = More(config_data, n)
    <2> HIDE DEF last, More
    <2>1. 0 \in 0 .. last /\ \A n \in 1 .. last : n \in 0 .. last /\ n # 0
        BY <1>1 DEF last
    <2> QED
        BY <1>4, <1>a, <2>1
<1>7. 0 \in P
    <2>1. config_data[0] \in Seq(T)
        BY <1>6, EmptySeq, Zenon
    <2> QED
        BY <2>1
<1>8. ASSUME NEW n \in P
      PROVE  n + 1 \in P
    <2>1. SUFFICES ASSUME n + 1 <= last
                   PROVE  config_data[n + 1] \in Seq(T)
        OBVIOUS
    <2>2. n + 1 \in 1 .. last /\ (n + 1) - 1 = n /\ n <= last
        BY <1>1, <2>1
    <2>3. config_data[n] \in Seq(T) /\ tokens[n + 1] \in T
        BY <1>1, <2>2
    <2>4. config_data[n + 1] = More(config_data, n + 1)
        BY <1>6, <2>2
    <2>5. \/ config_data[n + 1] = config_data[n]
          \/ config_data[n + 1] = Append(config_data[n], tokens[n + 1])
        BY <2>2, <2>4
    <2>6. Append(config_data[n], tokens[n + 1]) \in Seq(T)
        BY <2>3, AppendProperties
    <2> QED
        BY <2>3, <2>5, <2>6, Zenon
<1>9. last \in P
    <2> HIDE DEF P
    <2>1. P \in SUBSET Nat
        BY DEF P
    <2> QED
        BY <1>1, <1>7, <1>8, <2>1, FromZeroOn
<1> QED
    BY <1>1, <1>5, <1>9

\* load reads one text, of a file.
OneText ==
    /\ file \in {{f} : f \in Files} \cup {{}}
    /\ status = "opening" => nodes = <<>>

LEMMA LoadReads ==
    ASSUME OneText, [LoadNext]_vars
    PROVE  /\ OneText'
           /\ [ReadNext(FileTokens) \/ ReaderStep]_readerVars
<1>1. CASE Open
    <2>1. PICK f \in file : Parse(Joined(f.tokens))
        BY <1>1 DEF Open
    <2>2. file' = file /\ status' = "parsing" /\ nodes = <<>>
        BY <1>1 DEF Open, OneText
    <2>3. f \in Files
        BY <2>1 DEF OneText
    <2>4. Joined(f.tokens) \in Seq(FileTokens)
        BY <2>3, FilesAre, JoinedIs
    <2>5. ReadNext(FileTokens)
        BY <2>1, <2>2, <2>4 DEF ReadNext
    <2> QED
        BY <2>2, <2>5 DEF OneText
<1>2. CASE ReadDocument
    <2>1. ReaderStep /\ file' = file /\ status' = "parsing"
        BY <1>2 DEF ReadDocument, ReadOn, loadVars
    <2> QED
        BY <2>1 DEF OneText
<1>3. ASSUME UNCHANGED readerVars, file' = file,
             status' \in {"thrown", "aborted", "settings", "services", "loaded", status}
      PROVE  OneText' /\ [ReadNext(FileTokens) \/ ReaderStep]_readerVars
    <2>1. nodes' = nodes
        BY <1>3 DEF readerVars
    <2> QED
        BY <1>3, <2>1 DEF OneText
<1>4. CASE \/ OpenNothing \/ NotParsed \/ NoRoot \/ Parsed \/ ReadSetting \/ EndSettings
           \/ ReadService \/ EndServices
    <2>1. /\ UNCHANGED readerVars /\ file' = file
          /\ status' \in {"thrown", "aborted", "settings", "services", "loaded", status}
        BY <1>4, Zenon DEF OpenNothing, NotParsed, NoRoot, Parsed, ReadSetting, EndSettings,
                           ReadService, EndServices, Throw, Abort
    <2> QED
        BY <1>3, <2>1
<1>5. CASE UNCHANGED vars
    BY <1>3, <1>5 DEF vars, loadVars
<1> QED
    BY <1>1, <1>2, <1>4, <1>5 DEF LoadNext

\* configuration::load is, as far as it reads, a user of the reader: it parses a
\* text of the file's tokens, and touches neither the reader nor its value after.
THEOREM LoadUsesReader == LoadSpec => ReaderSpec(FileTokens)
<1>1. Init => ReaderInit /\ OneText
    BY DEF Init, ReaderInit, OneText
<1>2. OneText /\ [LoadNext]_vars =>
          OneText' /\ [ReadNext(FileTokens) \/ ReaderStep]_readerVars
    BY LoadReads
<1> QED
    BY <1>1, <1>2, PTL DEF LoadSpec, ReaderSpec

-----------------------------------------------------------------------------
(* Loading: the services                                                   *)

\* What a value has at any place, whatever steps lead there.
AllProper(v) == \A R : (\A s \in R : AStep(s)) => \A q \in Seq(R) : ProperAt(v, q)

LEMMA AllProperIs ==
    ASSUME NEW v, AllProper(v)
    PROVE  Proper(v)
<1>1. ProperAt(v, <<>>)
    <2>1. (\A s \in {} : AStep(s)) /\ <<>> \in Seq({})
        BY EmptySeq
    <2> QED
        BY <2>1, Zenon DEF AllProper
<1>2. Len(<<>>) = 0 /\ Len(<<>>) \in Nat
    OBVIOUS
<1>3. Exists(v, <<>>)
    BY <1>2 DEF Exists
<1>4. Along(v, <<>>)[0] = v
    BY <1>2, AlongIs
<1> QED
    BY <1>1, <1>2, <1>3, <1>4 DEF ProperAt

LEMMA ChildlessProper ==
    ASSUME NEW y, Childless(y)
    PROVE  AllProper(y)
<1>1. SUFFICES ASSUME NEW R, NEW q \in Seq(R), Exists(y, q)
               PROVE  Proper(Along(y, q)[Len(q)])
    BY DEF AllProper, ProperAt
<1>2. Len(q) \in Nat
    OBVIOUS
<1>3. Along(y, q)[0] = y
    BY <1>2, AlongIs
<1>4. Len(q) = 0
    <2>1. SUFFICES ASSUME Len(q) # 0
                   PROVE  FALSE
        OBVIOUS
    <2>2. 1 \in 1 .. Len(q) /\ 1 - 1 = 0
        BY <1>2, <2>1
    <2>3. HasChild(y, q[1])
        BY <1>1, <1>3, <2>2 DEF Exists
    <2> QED
        BY <2>3, ChildlessIs
<1> QED
    BY <1>3, <1>4, ChildlessIs

LEMMA ChildProperToo ==
    ASSUME NEW v, AllProper(v), NEW s, AStep(s), HasChild(v, s)
    PROVE  AllProper(Child(v, s))
<1> DEFINE c == Child(v, s)
<1>1. SUFFICES ASSUME NEW R, \A t \in R : AStep(t), NEW q \in Seq(R), Exists(c, q)
               PROVE  Proper(Along(c, q)[Len(q)])
    BY DEF AllProper, ProperAt
<1> DEFINE r == <<s>> \o q
           last == Len(q)
<1>2. /\ r \in Seq(R \cup {s}) /\ last \in Nat /\ Len(r) = last + 1
      /\ r[1] = s /\ \A i \in 1 .. last : r[i + 1] = q[i]
    <2>1. q \in Seq(R \cup {s})
        OBVIOUS
    <2> QED
        BY <2>1
<1>a. \A t \in R \cup {s} : AStep(t)
    BY <1>1
<1>3. Len(r) \in Nat /\ 1 \in 1 .. Len(r) /\ 1 - 1 = 0
    BY <1>2
<1>4. /\ Along(v, r)[0] = v
      /\ \A n \in 1 .. Len(r) : Along(v, r)[n] = Child(Along(v, r)[n - 1], r[n])
    <2> HIDE DEF r
    <2> QED
        BY <1>3, AlongIs
<1>5. /\ Along(c, q)[0] = c
      /\ \A n \in 1 .. last : Along(c, q)[n] = Child(Along(c, q)[n - 1], q[n])
    BY <1>2, AlongIs
<1>6. \A n \in 1 .. last : HasChild(Along(c, q)[n - 1], q[n])
    BY <1>1 DEF Exists
<1> DEFINE at == Along(v, r)
           ct == Along(c, q)
           P == {n \in Nat : n <= last => at[n + 1] = ct[n]}
<1>7. ct[0] = Child(v, s)
    BY <1>5
<1> HIDE DEF at, ct, r, last, c
<1>8. 0 \in P
    BY <1>2, <1>3, <1>4, <1>7 DEF at
<1>9. ASSUME NEW n \in P
      PROVE  n + 1 \in P
    <2>1. SUFFICES ASSUME n + 1 <= last
                   PROVE  at[(n + 1) + 1] = ct[n + 1]
        OBVIOUS
    <2>2. /\ (n + 1) + 1 \in 1 .. Len(r) /\ n + 1 \in 1 .. last /\ n <= last
          /\ ((n + 1) + 1) - 1 = n + 1 /\ (n + 1) - 1 = n
        BY <1>2, <2>1
    <2>3. at[(n + 1) + 1] = Child(at[n + 1], r[(n + 1) + 1])
        BY <1>4, <2>2 DEF at
    <2>4. ct[n + 1] = Child(ct[n], q[n + 1])
        BY <1>5, <2>2 DEF ct
    <2> QED
        BY <1>2, <2>2, <2>3, <2>4
<1>10. P = Nat
    <2> HIDE DEF P
    <2>1. P \in SUBSET Nat
        BY DEF P
    <2> QED
        BY <1>8, <1>9, <2>1, FromZeroOn
<1>11. \A n \in 0 .. last : at[n + 1] = ct[n]
    BY <1>2, <1>10
<1>12. ASSUME NEW n \in 1 .. Len(r)
       PROVE  HasChild(at[n - 1], r[n])
    <2>1. CASE n = 1
        BY <1>2, <1>3, <1>4, <2>1 DEF at
    <2>2. CASE n # 1
        <3>1. n - 1 \in 1 .. last /\ (n - 1) + 1 = n /\ (n - 1) - 1 \in 0 .. last
              /\ ((n - 1) - 1) + 1 = n - 1
            BY <1>2, <2>2
        <3>2. HasChild(ct[(n - 1) - 1], q[n - 1])
            BY <1>6, <3>1 DEF ct
        <3>3. at[n - 1] = ct[(n - 1) - 1]
            BY <1>11, <3>1
        <3>4. r[n] = q[n - 1]
            BY <1>2, <3>1
        <3> QED
            BY <3>2, <3>3, <3>4
    <2> QED
        BY <2>1, <2>2
<1>13. Exists(v, r)
    BY <1>12 DEF Exists, at
<1>14. Proper(at[Len(r)])
    <2>1. ProperAt(v, r)
        BY <1>2, <1>a DEF AllProper
    <2> QED
        BY <1>13, <2>1 DEF ProperAt, at
<1>15. last \in 0 .. last
    BY <1>2
<1>16. at[Len(r)] = ct[last]
    BY <1>2, <1>11, <1>15
<1> QED
    BY <1>14, <1>16 DEF ct, last

LEMMA PartsAreProper ==
    ASSUME NEW v, AllProper(v)
    PROVE  /\ \A k : AllProper(Member(v, k))
           /\ \A k, d : AllProper(d) => AllProper(get(v, k, d))
           /\ \A i : AllProper(Element(v, i))
<1>1. AllProper(Null)
    BY NumbersAre, ChildlessProper
<1>2. ASSUME NEW k, Has(v, k)
      PROVE  AllProper(v.obj[k])
    <2>1. AStep(Key(k)) /\ HasChild(v, Key(k)) /\ Child(v, Key(k)) = v.obj[k]
        BY <1>2, StepsAre DEF HasChild, Child
    <2> QED
        BY <2>1, ChildProperToo
<1>3. ASSUME NEW i, Type(v) = "arr", i \in DOMAIN v.arr
      PROVE  AllProper(v.arr[i])
    <2>3. AStep(Index(i)) /\ HasChild(v, Index(i)) /\ Child(v, Index(i)) = v.arr[i]
        BY <1>3, StepsAre DEF HasChild, Child
    <2> QED
        BY <2>3, ChildProperToo
<1>4. \A k : AllProper(Member(v, k))
    BY <1>1, <1>2 DEF Member
<1>5. \A k, d : AllProper(d) => AllProper(get(v, k, d))
    BY <1>2 DEF get
<1>6. \A i : AllProper(Element(v, i))
    BY <1>1, <1>3 DEF Element
<1> QED
    BY <1>4, <1>5, <1>6

LEMMA SizeIs ==
    ASSUME NEW v, AllProper(v)
    PROVE  Size(v) \in Nat
<1>1. Proper(v)
    BY AllProperIs
<1>2. CASE Type(v) = "arr"
    <2>1. Len(v.arr) \in Nat
        BY <1>1, <1>2, LenProperties DEF Proper, IsArray
    <2> QED
        BY <1>2, <2>1 DEF Size
<1>3. CASE Type(v) = "obj"
    <2>1. Cardinality(DOMAIN v.obj) \in Nat
        BY <1>1, <1>3, FS_CardinalityType DEF Proper
    <2> QED
        BY <1>3, <2>1 DEF Size
<1>4. CASE Type(v) # "arr" /\ Type(v) # "obj"
    BY <1>4 DEF Size
<1> QED
    BY <1>2, <1>3, <1>4

LEMMA ServicesValueIs ==
    ASSUME AllProper(root)
    PROVE  /\ AllProper(config_value) /\ AllProper(services_value)
           /\ Size(services_value) \in Nat
<1>1. AllProper(config_value)
    BY PartsAreProper DEF config_value
<1>2. AllProper(services_value)
    BY <1>1, PartsAreProper DEF services_value
<1> QED
    BY <1>1, <1>2, SizeIs

\* The services that are made of the first n values, each under its name.
MadeOf(list, s, n) ==
    /\ IsFiniteSet(DOMAIN s) /\ Cardinality(DOMAIN s) = n
    /\ \A i \in 1 .. n : LET si == ServiceInfo(Element(list, i))
                         IN si["name"] \in DOMAIN s /\ s[si["name"]] = si
    /\ \A name \in DOMAIN s : s[name]["name"] = name /\ ~Invalid(s[name])

LEMMA OneMoreService ==
    ASSUME NEW list, NEW s, NEW n \in Nat, MadeOf(list, s, n),
           NEW si, si = ServiceInfo(Element(list, n + 1)), ~Invalid(si),
           \A name \in DOMAIN s : s[name]["name"] # si["name"]
    PROVE  MadeOf(list,
                  [name \in DOMAIN s \cup {si["name"]} |->
                      IF name = si["name"] THEN si ELSE s[name]],
                  n + 1)
<1> DEFINE new == si["name"]
           more == [name \in DOMAIN s \cup {new} |-> IF name = new THEN si ELSE s[name]]
           info(i) == ServiceInfo(Element(list, i))
<1>1. /\ IsFiniteSet(DOMAIN s) /\ Cardinality(DOMAIN s) = n
      /\ \A i \in 1 .. n : info(i)["name"] \in DOMAIN s /\ s[info(i)["name"]] = info(i)
      /\ \A name \in DOMAIN s : s[name]["name"] = name /\ ~Invalid(s[name])
    BY DEF MadeOf
<1> HIDE DEF new, info
<1>2. new \notin DOMAIN s
    BY <1>1 DEF new
<1>3. /\ DOMAIN more = DOMAIN s \cup {new} /\ more[new] = si
      /\ \A name \in DOMAIN s : more[name] = s[name]
    BY <1>2
<1> HIDE DEF more
<1>4. IsFiniteSet(DOMAIN more) /\ Cardinality(DOMAIN more) = n + 1
    BY <1>1, <1>2, <1>3, FS_AddElement
<1>5. ASSUME NEW i \in 1 .. n + 1
      PROVE  info(i)["name"] \in DOMAIN more /\ more[info(i)["name"]] = info(i)
    <2>1. CASE i \in 1 .. n
        BY <1>1, <1>3, <2>1
    <2>2. CASE i = n + 1
        <3>1. info(i) = si /\ info(i)["name"] = new
            BY <2>2 DEF info, new
        <3> QED
            BY <1>3, <3>1
    <2> QED
        BY <2>1, <2>2
<1>6. ASSUME NEW name \in DOMAIN more
      PROVE  more[name]["name"] = name /\ ~Invalid(more[name])
    <2>1. CASE name \in DOMAIN s
        BY <1>1, <1>3, <2>1
    <2>2. CASE name = new
        BY <1>3, <2>2 DEF new
    <2> QED
        BY <1>3, <2>1, <2>2
<1>7. MadeOf(list, more, n + 1)
    BY <1>4, <1>5, <1>6 DEF MadeOf, info
<1> QED
    BY <1>7 DEF more, new

\* What load has made of the services when it is there.
ServicesSoFar ==
    /\ status \in {"opening", "parsing", "settings"} => services = <<>>
    /\ status = "services" => /\ next \in Nat \ {0} /\ next <= Size(services_value) + 1
                              /\ MadeOf(services_value, services, next - 1)
    /\ status = "loaded" => MadeOf(services_value, services, Size(services_value))

LoadInv ==
    /\ OneText /\ ReaderInv(FileTokens)
    /\ AllProper(root)
    /\ ServicesSoFar

LEMMA LoadInitIs ==
    ASSUME Init
    PROVE  LoadInv
<1>1. OneText
    BY DEF Init, ReaderInit, OneText
<1>2. ReaderInv(FileTokens)
    BY ReaderInitIs DEF Init
<1>3. AllProper(root)
    BY NumbersAre, ChildlessProper DEF Init, ReaderInit
<1>4. ServicesSoFar
    BY DEF Init, ServicesSoFar
<1> QED
    BY <1>1, <1>2, <1>3, <1>4 DEF LoadInv

\* The value of the services and what is made of them.
LEMMA ServicesStay ==
    ASSUME UNCHANGED readerVars
    PROVE  services_value' = services_value /\ Size(services_value)' = Size(services_value)
<1>1. root' = root
    BY DEF readerVars
<1> QED
    BY <1>1 DEF services_value, config_value

LEMMA ServicesStep ==
    ASSUME LoadInv, [LoadNext]_vars
    PROVE  ServicesSoFar'
<1> DEFINE sv == services_value
<1>1. Size(sv) \in Nat
    BY ServicesValueIs DEF LoadInv
<1>2. /\ status \in {"opening", "parsing", "settings"} => services = <<>>
      /\ status = "services" => /\ next \in Nat \ {0} /\ next <= Size(sv) + 1
                                /\ MadeOf(sv, services, next - 1)
      /\ status = "loaded" => MadeOf(sv, services, Size(sv))
    BY DEF LoadInv, ServicesSoFar
<1>3. ASSUME UNCHANGED readerVars
      PROVE  sv' = sv /\ Size(sv)' = Size(sv)
    BY <1>3, ServicesStay
<1>4. CASE Open \/ ReadDocument
    <2>1. status \in {"opening", "parsing"} /\ status' = "parsing" /\ services' = services
        BY <1>4 DEF Open, ReadDocument, ReadOn, loadVars
    <2> QED
        BY <1>2, <2>1, Zenon DEF ServicesSoFar
<1>5. CASE OpenNothing \/ NotParsed \/ NoRoot
    <2>1. status' \in {"thrown", "aborted"}
        BY <1>5 DEF OpenNothing, NotParsed, NoRoot, Throw, Abort
    <2> QED
        BY <2>1 DEF ServicesSoFar
<1>6. CASE Parsed
    <2>1. status = "parsing" /\ status' = "settings" /\ services' = services
        BY <1>6 DEF Parsed
    <2> QED
        BY <1>2, <2>1 DEF ServicesSoFar
<1>7. CASE ReadSetting
    <2>1. \/ status' \in {"thrown", "aborted"}
          \/ status = "settings" /\ status' = "settings" /\ services' = services
        BY <1>7 DEF ReadSetting, Throw, Abort
    <2> QED
        BY <1>2, <2>1 DEF ServicesSoFar
<1>8. CASE EndSettings
    <2>1. /\ status = "settings" /\ status' = "services" /\ next' = 1 /\ services' = services
          /\ UNCHANGED readerVars
        BY <1>8 DEF EndSettings
    <2>2. services = <<>>
        BY <1>2, <2>1
    <2>3. MadeOf(sv, <<>>, 0)
        <3>1. DOMAIN <<>> = {}
            OBVIOUS
        <3>2. IsFiniteSet(DOMAIN <<>>) /\ Cardinality(DOMAIN <<>>) = 0
            BY <3>1, FS_EmptySet
        <3> QED
            BY <3>1, <3>2 DEF MadeOf
    <2>4. next' \in Nat \ {0} /\ next' <= Size(sv) + 1 /\ next' - 1 = 0
        BY <1>1, <2>1
    <2>5. MadeOf(sv, services', next' - 1)
        BY <2>1, <2>2, <2>3, <2>4
    <2>6. services_value' = sv
        BY <1>3, <2>1
    <2>7. status' \notin {"opening", "parsing", "settings", "loaded"}
        BY <2>1
    <2> QED
        BY <2>4, <2>5, <2>6, <2>7, Zenon DEF ServicesSoFar
<1>9. CASE ReadService
    <2> DEFINE v == Element(sv, next)
               si == ServiceInfo(v)
               more == [name \in DOMAIN services \cup {si["name"]} |->
                           IF name = si["name"] THEN si ELSE services[name]]
    <2>1. /\ status = "services" /\ next <= Size(sv)
          /\ \/ status' \in {"thrown", "aborted"}
             \/ /\ ~Invalid(si) /\ ~Duplicate(si)
                /\ services' = more
                /\ next' = next + 1 /\ status' = status
                /\ UNCHANGED readerVars
        BY <1>9 DEF ReadService, Throw, Abort
    <2>2. CASE status' \in {"thrown", "aborted"}
        BY <2>2 DEF ServicesSoFar
    <2>3. CASE /\ ~Invalid(si) /\ ~Duplicate(si)
               /\ services' = more
               /\ next' = next + 1 /\ status' = status
               /\ UNCHANGED readerVars
        <3>1. next \in Nat \ {0} /\ MadeOf(sv, services, next - 1)
            BY <1>2, <2>1
        <3>2. next - 1 \in Nat /\ (next - 1) + 1 = next
            BY <3>1
        <3>3. \A name \in DOMAIN services : services[name]["name"] # si["name"]
            BY <2>3 DEF Duplicate
        <3> HIDE DEF si, sv
        <3>4. MadeOf(sv, more, (next - 1) + 1)
            <4>1. si = ServiceInfo(Element(sv, (next - 1) + 1))
                BY <3>2 DEF si
            <4> DEFINE n == next - 1
            <4> HIDE DEF n
            <4>2. n \in Nat /\ MadeOf(sv, services, n) /\ si = ServiceInfo(Element(sv, n + 1))
                BY <3>1, <3>2, <4>1 DEF n
            <4>3. MadeOf(sv, more, n + 1)
                BY <2>3, <3>3, <4>2, OneMoreService
            <4> QED
                BY <4>3 DEF n
        <3> HIDE DEF more
        <3>5. next' \in Nat \ {0} /\ next' <= Size(sv) + 1 /\ next' - 1 = (next - 1) + 1
            BY <1>1, <2>1, <2>3, <3>1
        <3>6. MadeOf(sv, services', next' - 1)
            BY <2>3, <3>4, <3>5
        <3>7. services_value' = sv
            BY <1>3, <2>3 DEF sv
        <3>8. status' \notin {"opening", "parsing", "settings", "loaded"}
            BY <2>1, <2>3
        <3> QED
            BY <3>5, <3>6, <3>7, <3>8, Zenon DEF ServicesSoFar
    <2> QED
        BY <2>1, <2>2, <2>3
<1>10. CASE EndServices
    <2>1. /\ status = "services" /\ next > Size(sv) /\ status' = "loaded"
          /\ services' = services /\ UNCHANGED readerVars
        BY <1>10 DEF EndServices
    <2>2. next \in Nat /\ next <= Size(sv) + 1 /\ MadeOf(sv, services, next - 1)
        BY <1>2, <2>1
    <2> HIDE DEF sv
    <2>3. next - 1 = Size(sv)
        BY <1>1, <2>1, <2>2
    <2>4. MadeOf(sv, services', Size(sv))
        BY <2>1, <2>2, <2>3
    <2>5. services_value' = sv
        BY <1>3, <2>1 DEF sv
    <2>6. status' \notin {"opening", "parsing", "settings", "services"}
        BY <2>1
    <2> QED
        BY <2>4, <2>5, <2>6, Zenon DEF ServicesSoFar
<1>11. CASE UNCHANGED vars
    <2>1. /\ UNCHANGED readerVars /\ status' = status /\ next' = next
          /\ services' = services
        BY <1>11 DEF vars, loadVars
    <2>2. services_value' = services_value
        BY <1>3, <2>1
    <2> QED
        BY <1>2, <2>1, <2>2 DEF ServicesSoFar
<1> QED
    BY <1>4, <1>5, <1>6, <1>7, <1>8, <1>9, <1>10, <1>11 DEF LoadNext

LEMMA LoadStepKeeps ==
    ASSUME LoadInv, [LoadNext]_vars
    PROVE  LoadInv'
<1>1. OneText /\ ReaderInv(FileTokens) /\ AllProper(root)
    BY DEF LoadInv
<1>2. OneText' /\ [ReadNext(FileTokens) \/ ReaderStep]_readerVars
    BY <1>1, LoadReads
<1>3. ReaderInv(FileTokens)'
    BY <1>1, <1>2, ReaderStepKeeps, ParseKeeps, ReaderStays DEF ReadNext
<1>4. AllProper(root')
    <2>1. CASE ReadNext(FileTokens)
        <3>1. root' = Null
            BY <2>1 DEF ReadNext, Parse
        <3> QED
            BY <3>1, NumbersAre, ChildlessProper
    <2>2. CASE ReaderStep
        <3>1. ASSUME NEW R, \A s \in R : AStep(s), NEW q \in Seq(R)
              PROVE  ProperAt(root', q)
            <4>1. ProperAt(root, q)
                BY <1>1, <3>1 DEF AllProper
            <4> QED
                BY <1>1, <2>2, <3>1, <4>1, FilesAre, StepStaysProper
        <3> QED
            BY <3>1 DEF AllProper
    <2>3. CASE UNCHANGED readerVars
        BY <1>1, <2>3 DEF readerVars
    <2> QED
        BY <1>2, <2>1, <2>2, <2>3
<1>5. ServicesSoFar'
    BY ServicesStep
<1>6. AllProper(root)'
    BY <1>4 DEF AllProper, ProperAt
<1> QED
    BY <1>2, <1>3, <1>5, <1>6 DEF LoadInv

LEMMA NameIs ==
    ASSUME NEW v
    PROVE  asString(Member(v, "name")) = ServiceInfo(v)["name"]
<1>1. ServiceInfo(v)["name"] = asString(get(v, "name", StrValue("")))
    BY DEF ServiceInfo, TextKeys
<1>2. CASE Has(v, "name")
    BY <1>1, <1>2 DEF Member, get
<1>3. CASE ~Has(v, "name")
    <2>1. asString(Null) = ""
        BY TypesAre DEF asString
    <2>2. asString(StrValue("")) = ""
        BY TypesAre DEF asString, StrValue
    <2> QED
        BY <1>1, <1>3, <2>1, <2>2 DEF Member, get
<1> QED
    BY <1>2, <1>3

\* A load that succeeds has every service of the file, each once, under its name and
\* usable, whatever the file is: an entry that cannot be taken, or has the name of
\* one before, ends the load (parse_services_settings of configuration.cpp).
THEOREM EveryServiceIsLoaded == LoadSpec => []EveryServiceLoaded
<1>1. ASSUME LoadInv, status = "loaded"
      PROVE  /\ Cardinality(DOMAIN services) = Size(services_value)
             /\ \A i \in 1 .. Size(services_value) :
                   \E name \in DOMAIN services :
                      /\ services[name] = ServiceInfo(Element(services_value, i))
                      /\ asString(Member(Element(services_value, i), "name")) = name
             /\ \A name \in DOMAIN services :
                   /\ services[name]["control_port"] # 0
                   /\ \A k \in TextKeys \ {"description"} : services[name][k] # ""
    <2> DEFINE sv == services_value
               info(i) == ServiceInfo(Element(sv, i))
    <2>1. MadeOf(sv, services, Size(sv))
        BY <1>1 DEF LoadInv, ServicesSoFar
    <2>2. Cardinality(DOMAIN services) = Size(sv)
        BY <2>1 DEF MadeOf
    <2>3. ASSUME NEW i \in 1 .. Size(sv)
          PROVE  \E name \in DOMAIN services :
                    /\ services[name] = info(i)
                    /\ asString(Member(Element(sv, i), "name")) = name
        <3>1. info(i)["name"] \in DOMAIN services /\ services[info(i)["name"]] = info(i)
            BY <2>1 DEF MadeOf
        <3>2. asString(Member(Element(sv, i), "name")) = info(i)["name"]
            BY NameIs
        <3> QED
            BY <3>1, <3>2
    <2>4. \A name \in DOMAIN services : ~Invalid(services[name])
        BY <2>1 DEF MadeOf
    <2>5. \A name \in DOMAIN services :
             /\ services[name]["control_port"] # 0
             /\ \A k \in TextKeys \ {"description"} : services[name][k] # ""
        BY <2>4 DEF Invalid
    <2> QED
        BY <2>2, <2>3, <2>5
<1>2. LoadInv => EveryServiceLoaded
    BY <1>1 DEF EveryServiceLoaded
<1>3. Init => LoadInv
    BY LoadInitIs
<1>4. LoadInv /\ [LoadNext]_vars => LoadInv'
    BY LoadStepKeeps
<1> QED
    BY <1>2, <1>3, <1>4, PTL DEF LoadSpec

-----------------------------------------------------------------------------
(* Loading: the settings                                                   *)

\* The settings that are narrowed or widened are numbers.
LEMMA SettingsAre ==
    ASSUME NEW i \in 1 .. Len(Settings)
    PROVE  /\ Settings[i].field \in DOMAIN Defaults
           /\ i = 9 => Settings[i].field = "message_cache_type"
           /\ Settings[i].field \in ShortFields \cup LongFields =>
                 Settings[i].kind \in {"int", "uint"} /\ AllProper(Settings[i].default)
<1>1. i \in 1 .. 19
    BY DEF Settings
<1>2. Settings[i].field \in DOMAIN Defaults
    BY <1>1 DEF Settings, Setting, Defaults
<1>3. Settings[9].field = "message_cache_type"
    BY DEF Settings, Setting
<1>4. Settings[i].field \in ShortFields \cup LongFields =>
          /\ Settings[i].kind \in {"int", "uint"}
          /\ Settings[i].default \in {IntValue(10), IntValue(2000), IntValue(5556), IntValue(3333)}
    BY <1>1 DEF Settings, Setting, ShortFields, LongFields
<1>5. \A n \in Int : AllProper(IntValue(n))
    BY NumbersAre, ChildlessProper
<1>6. /\ AllProper(IntValue(10)) /\ AllProper(IntValue(2000))
      /\ AllProper(IntValue(5556)) /\ AllProper(IntValue(3333))
    BY <1>5
<1> QED
    BY <1>2, <1>3, <1>4, <1>6

\* A value that can be converted to a number becomes one.
LEMMA AsNumberIs ==
    ASSUME NEW v, AllProper(v), IsInt(v) \/ IsUInt(v)
    PROVE  asNumber(v) \in Int
<1>1. Type(v) \in {"null", "bool", "int", "uint", "real"}
    BY DEF IsInt, IsUInt
<1>2. Type(v) \in {"int", "uint", "real"} => Content(v) \in Int
    BY AllProperIs DEF Proper
<1> QED
    BY <1>1, <1>2 DEF asNumber

LEMMA WordsAre ==
    ASSUME NEW x \in Int
    PROVE  x % PortWord \in Ports /\ x % SizeWord \in Nat
BY WidthsAssumption DEF Ports, Megabyte

LEMMA StoredIs ==
    ASSUME NEW field, NEW x
    PROVE  /\ field \in ShortFields /\ x \in Int => Stored(field, x) \in Ports
           /\ field \in LongFields /\ x \in Int => Stored(field, x) \in Nat
           /\ field = "logger_flags" /\ config.logger_flags \subseteq Flags =>
                 Stored(field, x) \subseteq Flags
           /\ field = "message_cache_type" => Stored(field, x) = x
<1>1. /\ field \in ShortFields => Stored(field, x) = x % PortWord
      /\ field \in LongFields => Stored(field, x) = x % SizeWord
      /\ field = "logger_flags" => Stored(field, x) = config.logger_flags \cup Named(x)
      /\ field = "message_cache_type" => Stored(field, x) = x
    BY DEF Stored, ShortFields, LongFields
<1>2. Named(x) \subseteq Flags
    BY DEF Named, Flags, PLOG_ALL
<1> QED
    BY <1>1, <1>2, WordsAre

\* The fields of the configuration, but the kind of its cache.
FieldsTyped ==
    /\ DOMAIN config = DOMAIN Defaults
    /\ config.logger_flags \subseteq Flags
    /\ \A field \in LongFields : config[field] \in Nat
    /\ \A field \in ShortFields : config[field] \in Ports

CacheTypeKnown == config.message_cache_type \in {"RAM_ONLY", "PERSISTANT"}

\* The kind of the cache, which the constructor leaves open, is the ninth setting.
SettingsSoFar ==
    /\ status \in {"opening", "parsing", "settings", "services", "loaded"} \cup {"thrown", "aborted"}
    /\ FieldsTyped
    /\ status \in {"opening", "parsing"} => next = 1
    /\ status = "settings" => next \in Nat \ {0} /\ (next > 9 => CacheTypeKnown)
    /\ status \in {"services", "loaded"} => CacheTypeKnown
    /\ \A name \in DOMAIN services : services[name]["control_port"] \in Ports \ {0}

LEMMA SettingsInit ==
    ASSUME Init
    PROVE  SettingsSoFar
<1>1. /\ status = "opening" /\ next = 1 /\ services = <<>> /\ config = Defaults
    BY DEF Init
<1>2. /\ Defaults.logger_flags = {} /\ Defaults.message_timeout = 10
      /\ Defaults.socket_poll_timeout = 2000 /\ Defaults.multicast_port = 5556
      /\ Defaults.remote_statistics_port = 3333
    BY DEF Defaults, PLOG_NONE
<1>3. 10 \in Nat /\ 2000 \in Nat /\ 5556 \in Ports /\ 3333 \in Ports
    BY WidthsAssumption DEF Ports
<1>4. FieldsTyped
    BY <1>1, <1>2, <1>3 DEF FieldsTyped, LongFields, ShortFields
<1>5. DOMAIN services = {}
    BY <1>1
<1> QED
    BY <1>1, <1>4, <1>5 DEF SettingsSoFar

\* One field is set.
LEMMA FieldSet ==
    ASSUME FieldsTyped, NEW field \in DOMAIN Defaults, NEW x,
           config' = [config EXCEPT ![field] = Stored(field, x)],
           field \in ShortFields \cup LongFields => x \in Int
    PROVE  /\ FieldsTyped'
           /\ field = "message_cache_type" => config'.message_cache_type = x
           /\ field # "message_cache_type" /\ CacheTypeKnown => CacheTypeKnown'
<1>1. /\ DOMAIN config' = DOMAIN Defaults
      /\ \A g \in DOMAIN Defaults : config'[g] = IF g = field THEN Stored(field, x) ELSE config[g]
    BY DEF FieldsTyped
<1>2. /\ LongFields \subseteq DOMAIN Defaults /\ ShortFields \subseteq DOMAIN Defaults
      /\ "logger_flags" \in DOMAIN Defaults /\ "message_cache_type" \in DOMAIN Defaults
    BY DEF LongFields, ShortFields, Defaults
<1>3. \A g \in LongFields : config'[g] \in Nat
    BY <1>1, <1>2, StoredIs DEF FieldsTyped
<1>4. \A g \in ShortFields : config'[g] \in Ports
    BY <1>1, <1>2, StoredIs DEF FieldsTyped
<1>5. config'.logger_flags \subseteq Flags
    BY <1>1, <1>2, StoredIs DEF FieldsTyped
<1>6. field = "message_cache_type" => config'.message_cache_type = x
    BY <1>1, <1>2, StoredIs
<1>7. field # "message_cache_type" /\ CacheTypeKnown => CacheTypeKnown'
    BY <1>1, <1>2 DEF CacheTypeKnown
<1>8. FieldsTyped'
    BY <1>1, <1>3, <1>4, <1>5 DEF FieldsTyped, Ports
<1> QED
    BY <1>6, <1>7, <1>8

LEMMA SettingStep ==
    ASSUME AllProper(root), SettingsSoFar, ReadSetting
    PROVE  SettingsSoFar'
<1> DEFINE s == Settings[next]
           section == IF s.section = "lsd_config" THEN config_value ELSE Member(config_value, s.section)
           value == get(section, s.key, s.default)
           x == As(s.kind, value)
<1>a. \/ Throw \/ Abort
      \/ /\ Convertible(s.kind, value) /\ ~UnknownCacheType(s.field, x)
         /\ config' = [config EXCEPT ![s.field] = Stored(s.field, x)]
         /\ next' = next + 1 /\ UNCHANGED <<readerVars, file, written, status, services>>
    BY Zenon DEF ReadSetting
<1>b. status = "settings" /\ next <= Len(Settings)
    BY Zenon DEF ReadSetting
<1> HIDE DEF s, section, value, x
<1>1. /\ status = "settings" /\ next <= Len(Settings) /\ services' = services
      /\ \/ status' \in {"thrown", "aborted"} /\ config' = config
         \/ /\ Convertible(s.kind, value) /\ ~UnknownCacheType(s.field, x)
            /\ config' = [config EXCEPT ![s.field] = Stored(s.field, x)]
            /\ next' = next + 1 /\ status' = status
    BY <1>a, <1>b DEF Throw, Abort
<1>2. /\ FieldsTyped /\ next \in Nat \ {0} /\ (next > 9 => CacheTypeKnown)
      /\ \A name \in DOMAIN services : services[name]["control_port"] \in Ports \ {0}
    BY <1>1 DEF SettingsSoFar
<1>3. CASE status' \in {"thrown", "aborted"} /\ config' = config
    <2>1. FieldsTyped'
        BY <1>2, <1>3 DEF FieldsTyped, Ports
    <2>2. \A name \in DOMAIN services' : services'[name]["control_port"] \in Ports \ {0}
        BY <1>1, <1>2
    <2> QED
        BY <1>3, <2>1, <2>2 DEF SettingsSoFar, Ends, Ports
<1>4. CASE /\ Convertible(s.kind, value) /\ ~UnknownCacheType(s.field, x)
           /\ config' = [config EXCEPT ![s.field] = Stored(s.field, x)]
           /\ next' = next + 1 /\ status' = status
    <2>1. next \in 1 .. Len(Settings)
        <3>1. Len(Settings) \in Nat
            BY DEF Settings
        <3> QED
            BY <1>1, <1>2, <3>1
    <2>2. /\ s.field \in DOMAIN Defaults
          /\ next = 9 => s.field = "message_cache_type"
          /\ s.field \in ShortFields \cup LongFields =>
                s.kind \in {"int", "uint"} /\ AllProper(s.default)
        BY <2>1, SettingsAre DEF s
    <2>3. AllProper(section)
        BY ServicesValueIs, PartsAreProper DEF section
    <2>4. ASSUME s.field \in ShortFields \cup LongFields
          PROVE  x \in Int
        <3>1. AllProper(value) /\ s.kind \in {"int", "uint"}
            BY <2>2, <2>3, <2>4, PartsAreProper DEF value
        <3>2. (IsInt(value) \/ IsUInt(value)) /\ x = asNumber(value)
            BY <1>4, <3>1 DEF Convertible, As, x
        <3> QED
            BY <3>1, <3>2, AsNumberIs
    <2>5. /\ FieldsTyped'
          /\ s.field = "message_cache_type" => config'.message_cache_type = x
          /\ s.field # "message_cache_type" /\ CacheTypeKnown => CacheTypeKnown'
        BY <1>2, <1>4, <2>2, <2>4, FieldSet
    <2>6. s.field = "message_cache_type" => CacheTypeKnown'
        BY <1>4, <2>5 DEF UnknownCacheType, CacheTypeKnown
    <2>7. next' \in Nat \ {0} /\ (next' > 9 => next = 9 \/ next > 9)
        BY <1>2, <1>4
    <2>8. next' > 9 => CacheTypeKnown'
        BY <1>2, <2>2, <2>5, <2>6, <2>7
    <2>9. \A name \in DOMAIN services' : services'[name]["control_port"] \in Ports \ {0}
        BY <1>1, <1>2
    <2>10. status' = "settings"
        BY <1>1, <1>4
    <2> QED
        BY <2>5, <2>7, <2>8, <2>9, <2>10 DEF SettingsSoFar, Ports
<1> QED
    BY <1>1, <1>3, <1>4

\* A service that is taken over has a port.
LEMMA ServiceStep ==
    ASSUME AllProper(root), SettingsSoFar, ReadService
    PROVE  SettingsSoFar'
<1> DEFINE v == Element(services_value, next)
           si == ServiceInfo(v)
<1>1. /\ status = "services" /\ config' = config
      /\ \/ status' \in {"thrown", "aborted"} /\ services' = services
         \/ /\ ServiceConvertible(v) /\ ~Invalid(si) /\ status' = status
            /\ services' = [name \in DOMAIN services \cup {si["name"]} |->
                               IF name = si["name"] THEN si ELSE services[name]]
    BY DEF ReadService, Throw, Abort
<1>2. /\ FieldsTyped /\ CacheTypeKnown
      /\ \A name \in DOMAIN services : services[name]["control_port"] \in Ports \ {0}
    BY <1>1 DEF SettingsSoFar
<1>3. FieldsTyped' /\ CacheTypeKnown'
    BY <1>1, <1>2 DEF FieldsTyped, CacheTypeKnown, Ports
<1>4. ASSUME ServiceConvertible(v), ~Invalid(si)
      PROVE  si["control_port"] \in Ports \ {0}
    <2>1. AllProper(control_port(v))
        <3>1. AllProper(v)
            BY ServicesValueIs, PartsAreProper
        <3>2. AllProper(IntValue(5555))
            BY NumbersAre, ChildlessProper
        <3> QED
            BY <3>1, <3>2, PartsAreProper DEF control_port
    <2>2. asNumber(control_port(v)) \in Int
        BY <1>4, <2>1, AsNumberIs DEF ServiceConvertible
    <2>3. si["control_port"] = asNumber(control_port(v)) % PortWord
        BY DEF ServiceInfo
    <2>4. si["control_port"] # 0
        BY <1>4 DEF Invalid
    <2> QED
        BY <2>2, <2>3, <2>4, WordsAre
<1>5. \A name \in DOMAIN services' : services'[name]["control_port"] \in Ports \ {0}
    <2> HIDE DEF v, si
    <2> QED
        BY <1>1, <1>2, <1>4
<1> QED
    BY <1>1, <1>3, <1>5 DEF SettingsSoFar, Ends, Ports

LEMMA SettingsStep ==
    ASSUME AllProper(root), SettingsSoFar, [LoadNext]_vars
    PROVE  SettingsSoFar'
<1>1. ASSUME UNCHANGED <<config, services>>
      PROVE  /\ FieldsTyped' /\ (CacheTypeKnown => CacheTypeKnown')
             /\ \A name \in DOMAIN services' :
                   services'[name]["control_port"] \in Ports \ {0}
    BY <1>1 DEF SettingsSoFar, FieldsTyped, CacheTypeKnown, Ports
<1>2. CASE Open \/ ReadDocument
    <2>1. /\ status \in {"opening", "parsing"} /\ status' = "parsing" /\ next' = next
          /\ UNCHANGED <<config, services>>
        BY <1>2 DEF Open, ReadDocument, ReadOn, loadVars
    <2> QED
        BY <1>1, <2>1 DEF SettingsSoFar, Ports
<1>3. CASE OpenNothing \/ NotParsed \/ NoRoot
    <2>1. status' \in {"thrown", "aborted"} /\ UNCHANGED <<config, services>>
        BY <1>3 DEF OpenNothing, NotParsed, NoRoot, Throw, Abort
    <2> QED
        BY <1>1, <2>1 DEF SettingsSoFar, Ends, Ports
<1>4. CASE Parsed
    <2>1. /\ status = "parsing" /\ status' = "settings" /\ next' = next
          /\ UNCHANGED <<config, services>>
        BY <1>4 DEF Parsed
    <2>2. next = 1
        BY <2>1 DEF SettingsSoFar
    <2>3. next' \in Nat \ {0} /\ ~(next' > 9)
        BY <2>1, <2>2
    <2> QED
        BY <1>1, <2>1, <2>3 DEF SettingsSoFar, Ports
<1>5. CASE EndSettings
    <2>1. /\ status = "settings" /\ next > Len(Settings) /\ status' = "services"
          /\ UNCHANGED <<config, services>>
        BY <1>5 DEF EndSettings
    <2>2. next > 9
        <3>1. Len(Settings) = 19 /\ next \in Nat
            BY <2>1 DEF Settings, SettingsSoFar
        <3> QED
            BY <2>1, <3>1
    <2> QED
        BY <1>1, <2>1, <2>2 DEF SettingsSoFar, Ports
<1>6. CASE EndServices
    <2>1. /\ status = "services" /\ status' = "loaded"
          /\ UNCHANGED <<config, services>>
        BY <1>6 DEF EndServices
    <2> QED
        BY <1>1, <2>1 DEF SettingsSoFar, Ports
<1>7. CASE UNCHANGED vars
    <2>1. status' = status /\ next' = next /\ UNCHANGED <<config, services>>
        BY <1>7 DEF vars, loadVars
    <2> QED
        BY <1>1, <2>1 DEF SettingsSoFar, Ports
<1> QED
    BY <1>2, <1>3, <1>4, <1>5, <1>6, <1>7, SettingStep, ServiceStep DEF LoadNext

\* The reader's types follow from its invariant.
LEMMA ReaderTyped ==
    ASSUME NEW Tokens, ReaderInv(Tokens)
    PROVE  ReaderTypeOK
<1> DEFINE S == StepsOf(Tokens)
           last == Len(nodes)
<1>1. /\ nodes \in Seq(Frames(S)) /\ StandsFor(nodes, root) /\ FailsByErrors(nodes, errors, parsed)
      /\ LastIsThere(S, nodes, root, lastValue)
    BY DEF ReaderInv
<1>2. current \in 1 .. Len(document) + 1
    BY DEF ReaderInv, Places
<1>3. last \in Nat /\ DOMAIN nodes = 1 .. last /\ (nodes # <<>> <=> last > 0)
      /\ \A i \in 1 .. last : nodes[i] \in Frames(S)
    BY <1>1, FramesAre
<1>4. ASSUME NEW i \in DOMAIN nodes
      PROVE  /\ nodes[i].at \in {"value", "member", "separator", "recovery"}
             /\ nodes[i].kind \in {"value", "object", "array"}
             /\ nodes[i].at # "value" <=> nodes[i].kind # "value"
             /\ Len(nodes[i].path) = i - 1
             /\ Exists(root, nodes[i].path)
    <2> DEFINE path == nodes[i].path
               whole == PathOf(nodes)
    <2>1. nodes[i] \in Frames(S) /\ i \in 1 .. last
        BY <1>3
    <2>2. nodes[i].at # "value" <=> nodes[i].kind # "value"
        BY <1>1, <2>1 DEF StandsFor, Holds
    <2>3. /\ Len(path) = i - 1 /\ \A n \in 1 .. i - 1 : path[n] = whole[n]
          /\ Len(whole) = last - 1 /\ Exists(root, whole)
        <3>1. last \in 1 .. last
            BY <1>3, <2>1
        <3>2. Exists(root, whole) /\ Within(nodes)
            BY <1>1, <3>1 DEF StandsFor
        <3>3. Len(nodes[last].path) = last - 1
            BY <3>1, <3>2 DEF Within
        <3>4. Len(path) = i - 1 /\ \A n \in 1 .. i - 1 : path[n] = whole[n]
            BY <2>1, <3>2 DEF Within
        <3> QED
            BY <3>2, <3>3, <3>4 DEF PathOf
    <2> HIDE DEF path, whole, last
    <2>4. /\ i - 1 \in Nat /\ i - 1 <= last - 1 /\ last - 1 \in Nat
        BY <1>3, <2>1
    <2>5. ASSUME NEW n \in 1 .. Len(path)
          PROVE  HasChild(Along(root, path)[n - 1], path[n])
        <3>1. /\ n \in 1 .. Len(whole) /\ path[n] = whole[n] /\ n - 1 \in Nat
              /\ n - 1 <= Len(path) /\ n - 1 <= Len(whole)
              /\ Len(path) \in Nat /\ Len(whole) \in Nat
            BY <2>3, <2>4
        <3>2. \A j \in 1 .. n - 1 : path[j] = whole[j]
            BY <2>3, <2>4, <3>1
        <3>3. Along(root, path)[n - 1] = Along(root, whole)[n - 1]
            <4> DEFINE m == n - 1
            <4> HIDE DEF m
            <4> QED
                BY <3>1, <3>2, AlongAgrees DEF m
        <3>4. HasChild(Along(root, whole)[n - 1], whole[n])
            BY <2>3, <3>1 DEF Exists
        <3> QED
            BY <3>1, <3>3, <3>4
    <2>6. Exists(root, path)
        BY <2>5 DEF Exists
    <2> QED
        BY <2>1, <2>2, <2>3, <2>6 DEF Frames, path
<1>5. errors \in Nat /\ parsed \in {"idle", "not yet", "yes", "no"}
      /\ (parsed = "not yet" <=> nodes # <<>>)
      /\ (nodes = <<>> => (parsed = "no" <=> errors > 0))
    BY <1>1 DEF FailsByErrors
<1>6. Cardinality(lastValue) <= 1
    <2>1. CASE lastValue = {}
        <3>1. Cardinality(lastValue) = 0
            BY <2>1, FS_EmptySet
        <3> QED
            BY <3>1
    <2>2. CASE \E q : lastValue = {q}
        <3>1. Cardinality(lastValue) = 1
            BY <2>2, FS_Singleton
        <3> QED
            BY <3>1
    <2> QED
        BY <1>1, <2>1, <2>2 DEF LastIsThere
<1> QED
    BY <1>2, <1>4, <1>5, <1>6 DEF ReaderTypeOK

\* Whatever the file, what load keeps has its type at every moment: a port is one, a
\* service never has the port 0, a timeout is not negative however it was written, and
\* the kind of the cache, which the constructor leaves open, is known once the settings
\* are read (configuration::load and its parse_*_settings).
THEOREM LoadingTyped == LoadSpec => []LoadingTypeOK
<1>1. Init => LoadInv /\ SettingsSoFar
    BY LoadInitIs, SettingsInit
<1>2. LoadInv /\ SettingsSoFar /\ [LoadNext]_vars => LoadInv' /\ SettingsSoFar'
    BY LoadStepKeeps, SettingsStep DEF LoadInv
<1>3. ASSUME LoadInv, SettingsSoFar
      PROVE  LoadingTypeOK
    <2>1. ReaderTypeOK
        BY <1>3, ReaderTyped DEF LoadInv
    <2>2. /\ config.logger_flags \subseteq Flags
          /\ config.message_timeout \in Nat /\ config.socket_poll_timeout \in Nat
          /\ config.multicast_port \in Ports /\ config.remote_statistics_port \in Ports
          /\ DOMAIN config = DOMAIN Defaults
        BY <1>3 DEF SettingsSoFar, FieldsTyped, LongFields, ShortFields
    <2>3. /\ status \in Loading \cup Ends
          /\ status \in {"services", "loaded", "showing", "shown"} =>
                 config.message_cache_type \in {"RAM_ONLY", "PERSISTANT"}
          /\ \A name \in DOMAIN services : services[name]["control_port"] \in Ports \ {0}
        BY <1>3 DEF SettingsSoFar, CacheTypeKnown, Loading, Ends
    <2> QED
        BY <2>1, <2>2, <2>3 DEF LoadingTypeOK
<1> QED
    BY <1>1, <1>2, <1>3, PTL DEF LoadSpec

=============================================================================
