----------------------------- MODULE MCCollector ----------------------------
(***************************************************************************)
(* Small instances of Collector for TLC.                                   *)
(***************************************************************************)
EXTENDS Collector

CONSTANTS s1, s2, a, b

OneService == <<s1>>
TwoServices == <<s1, s2>>
AllRefreshers == Services \union {Pinger}
MyInstance == [s \in Services |-> "mine"]
MyApp == [s \in Services |-> "app"]

Task(n, t, i, p) == [name |-> n, type |-> t, instance |-> i, port |-> p]
Answer(kind, apps) == [kind |-> kind, apps |-> apps]
App(kind, running, tasks) == [kind |-> kind, running |-> running, tasks |-> tasks]
Runs(tasks) == Answer("apps", [n \in {"app"} |-> App("object", TRUE, tasks)])

one == Task("h1", "server+lsd", "mine", 1)
two == Task("h2", "server+lsd", "mine", 2)
moved == Task("h1", "server+lsd", "mine", 3)
theirs == Task("h1", "server+lsd", "theirs", 1)
nameless == Task("h1", "server+lsd", "", 1)
native == Task("h1", "fastcgi", "mine", 1)
closed == Task("h1", "server+lsd", "mine", 0)

\* every way an answer may end in parse_host_response
Silent == Answer("silent", <<>>)
Garbage == Answer("garbage", <<>>)
NoApps == Answer("apps", <<>>)
OtherApp == Answer("apps", [n \in {"other"} |-> App("object", TRUE, <<one>>)])
NotObject == Answer("apps", [n \in {"app"} |-> App("text", TRUE, <<>>)])
Stopped == Answer("apps", [n \in {"app"} |-> App("object", FALSE, <<one>>)])
AllAnswers == {Silent, Garbage, NoApps, OtherApp, NotObject, Stopped, Runs(<<>>),
    Runs(<<one>>), Runs(<<one, two>>), Runs(<<moved>>), Runs(<<one, Malformed>>),
    Runs(<<theirs, two>>), Runs(<<nameless>>), Runs(<<native>>), Runs(<<closed, two>>)}

World(lists, meta) == [lists |-> lists, meta |-> meta]
Each(x) == [s \in Services |-> x]
\* the second host in the list gives every kind of answer, to each service
OddAnswers == {World(Each(<<b, a>>), Each([h \in Hosts |-> IF h = a THEN x ELSE Runs(<<one, two>>)])) :
                  x \in AllAnswers}
\* lists that are empty, name a host twice, or cannot be fetched for one service
OddLists == {World(l, Each([h \in Hosts |-> Runs(<<moved>>)])) :
                l \in {Each(<<>>), Each(<<a, a>>), [s \in Services |-> IF s = s1 THEN None ELSE <<b>>]}}
SomeWorlds == OddAnswers \union OddLists
=============================================================================
