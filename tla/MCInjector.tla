----------------------------- MODULE MCInjector -----------------------------
(* Two containers, two credentials, annotations of every kind. *)
EXTENDS Injector, TLC

CONSTANTS n1, n2, c1, c2

Ask(net, container, signing, anchors, chain) ==
    [net |-> net, container |-> container, signing |-> signing,
     anchors |-> anchors, chain |-> chain]

MCContainers == {"a", "b"}

MCRequests ==
    {Ask(None, None, None, None, None), Ask(n1, None, None, None, None),
     Ask(n1, None, c1, None, None), Ask(n1, "a", c1, <<Malformed>>, None)}
    \union {Ask(n, c, s, a, ch) :
              n \in {n1, n2}, c \in {"a", "b", "missing"},
              s \in {None, c1}, a \in {None, <<c1, c2>>}, ch \in {<<c2>>}}
=============================================================================
