------------------------------ MODULE MCClient ------------------------------
(***************************************************************************)
(* Small instances of Client for TLC.                                      *)
(***************************************************************************)
EXTENDS Client

CONSTANTS s1, s2, a, t1, t2

OneService == <<s1>>
TwoServices == <<s1, s2>>
AllRefreshers == Services \union {Pinger}
MyInstance == [s \in Services |-> "mine"]
MyApp == [s \in Services |-> "app"]
Handle1 == [name |-> "h1", type |-> "server+lsd", instance |-> "mine", port |-> 1]
Answer == [kind |-> "apps", apps |-> [n \in {"app"} |->
              [kind |-> "object", running |-> TRUE, tasks |-> <<Handle1>>]]]
OneWorld == {[lists |-> [s \in Services |-> <<a>>],
              meta |-> [s \in Services |-> [h \in Hosts |-> Answer]]]}
=============================================================================
