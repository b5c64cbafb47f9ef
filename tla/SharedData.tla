----------------------------- MODULE SharedData -----------------------------
(***************************************************************************)
(* What a data_container promises to those who use it                      *)
(* (src/include/details/data_container.hpp): each container is a value of  *)
(* its own, which only an operation on that container changes, whatever    *)
(* happens to the containers it was copied from or to.  That copies share  *)
(* one counted buffer is not to be seen: DataContainer implements this.    *)
(***************************************************************************)
CONSTANTS
    Containers,   \* data_container objects
    Contents,     \* what a container may be given
    Null          \* what an empty container holds

VARIABLE held     \* what each container that lives holds

With(c, x) == [d \in DOMAIN held \union {c} |-> IF d = c THEN x ELSE held[d]]

Init == held = [c \in {} |-> Null]

Construct(c, x) ==
    /\ c \notin DOMAIN held
    /\ held' = With(c, x)

Copy(c, from) ==
    /\ c \notin DOMAIN held /\ from \in DOMAIN held
    /\ held' = With(c, held[from])

Assign(c, from) ==
    /\ {c, from} \subseteq DOMAIN held
    /\ held' = With(c, held[from])

Clear(c) ==
    /\ c \in DOMAIN held
    /\ held' = With(c, Null)

Destroy(c) ==
    /\ c \in DOMAIN held
    /\ held' = [d \in DOMAIN held \ {c} |-> held[d]]

Next == \E c \in Containers :
    \/ Clear(c) \/ Destroy(c)
    \/ \E x \in Contents \union {Null} : Construct(c, x)
    \/ \E from \in Containers : Copy(c, from) \/ Assign(c, from)

Spec == Init /\ [][Next]_held
=============================================================================
