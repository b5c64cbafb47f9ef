----------------------------- MODULE MCService ------------------------------
(***************************************************************************)
(* Small instances of Service for TLC.                                     *)
(***************************************************************************)
EXTENDS Service

CONSTANTS m1, m2, h1, h2, a, b, p1, p2

\* every message goes to one handle
ToFirst == [m \in Messages |-> h1]

On(name, p) == [name |-> name, port |-> p]
View(hs, is) == [hosts |-> hs, infos |-> is]
Nothing == View({}, {})

\* one handle, always reported, on hosts that come and go
HostsChange == {View({a}, {On(h1, p1)}), View({b}, {On(h1, p1)}), View({a, b}, {On(h1, p1)})}
\* one handle on hosts that only come
HostsCome == {View({a}, {On(h1, p1)}), View({a, b}, {On(h1, p1)})}
\* a handle that goes and comes back, on hosts that change
AllChanges == {Nothing} \union HostsChange
\* ... on one host
HandleGoes == {Nothing, View({a}, {On(h1, p1)})}
\* every kind of change of two handles: either missing, a port changed, two
\* infos of one name, alone or with another handle after them, hosts that come,
\* go and change
HandleSets == {{On(h1, p1)}, {On(h1, p2), On(h2, p1)}, {On(h1, p1), On(h1, p2)},
               {On(h1, p1), On(h1, p2), On(h2, p2)}}
OtherHosts == {View({b}, {On(h1, p1)}), View({a, b}, {On(h1, p1)})}
AnyHandles == {Nothing} \union {View({a}, is) : is \in HandleSets} \union OtherHosts

Interchangeable == Permutations(Messages)
=============================================================================
