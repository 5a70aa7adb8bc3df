-------------------------- MODULE MCCertController --------------------------
(* Certificate chains of a few objects in one or two namespaces. *)
EXTENDS CertController, TLC

CONSTANTS root, leaf, rival, ext, other, ns1, ns2

\* A network's chain: the leaf is signed by the root, which signs itself or is
\* signed by an imported certificate.
ChainIssuers == root :> {root, ext} @@ leaf :> {root}
OtherIssuers == root :> {root, ext} @@ leaf :> {root, other}
AnyIssuer    == [c \in Certs |-> Signers]

\* All in one namespace.
OneNamespace   == [s \in Signers |-> ns1]
DistinctNames  == [s \in Signers |-> s]

\* Two namesakes in two namespaces, and a leaf beside one of them.
TwoNamespaces  == root :> ns2 @@ rival :> ns1 @@ leaf :> ns1
SharedName     == root :> root @@ rival :> root @@ leaf :> leaf

\* The clock's last tick, at which the first timers are due, waits until all is
\* settled; those before it fall at any moment of any pass.
Dusk == now' = MaxTime /\ now # MaxTime => \A c \in Certs : Exists(c) => Settled(c)

\* A controller fast against the clock: time passes only while it is asleep.
Asleep(c) == Settled(c) /\ ~(timer[c] # 0 /\ now > timer[c])

PromptNext ==
    \/ Next /\ now' = now
    \/ Tick /\ \A c \in Certs : Exists(c) => Asleep(c)

PromptSpec == Init /\ [][PromptNext]_vars
=============================================================================
