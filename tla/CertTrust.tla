------------------------------ MODULE CertTrust ------------------------------
(***************************************************************************)
(* What the Certificate controller promises to those who read the status   *)
(* of a Certificate: other Certificates that it signs, the init containers *)
(* of router pods.  No cache, queue or passes: keys and certificates that  *)
(* are stored, and what has been told of them.                             *)
(*                                                                         *)
(* What is told is stored, and is not taken back; a certificate is signed  *)
(* only once its issuer has been told to be ready.                         *)
(***************************************************************************)
EXTENDS Naturals

CONSTANTS Certs, Externals,
    Named          \* what a spec may name as the issuer

VARIABLES
    life,          \* of each Certificate: absent, live or gone
    issuer,        \* what its spec names
    imported,      \* the external issuers that are ready
    key,           \* the Certificates whose key is stored
    end,           \* when the stored certificate of each ends, 0: there is none
    told           \* what the status of each says of its key and certificate

specVars   == <<life, issuer, imported>>
storedVars == <<key, end>>
trustVars  == <<specVars, storedVars, told>>

Nothing == [key |-> FALSE, cert |-> FALSE, until |-> 0]

\* Signing waits for this: the issuer of c is imported, or has been told to have
\* a key and, unless c signs itself, a certificate.  It may be gone since.
IssuerTold(c) ==
    /\ issuer[c] \in Certs \union Externals
    /\ issuer[c] \in Externals => issuer[c] \in imported
    /\ issuer[c] \in Certs /\ life[issuer[c]] # "gone" =>
         told[issuer[c]].key /\ (issuer[c] = c \/ told[issuer[c]].cert)

TrustInit ==
    /\ life = [c \in Certs |-> "absent"]
    /\ issuer \in [Certs -> Certs]
    /\ imported = {} /\ key = {}
    /\ end = [c \in Certs |-> 0]
    /\ told = [c \in Certs |-> Nothing]

Create(c) ==
    /\ life[c] = "absent"
    /\ life' = [life EXCEPT ![c] = "live"]
    /\ \E i \in Named : issuer' = [issuer EXCEPT ![c] = i]
    /\ UNCHANGED <<imported, storedVars, told>>

Remove(c) ==
    /\ life[c] = "live"
    /\ life' = [life EXCEPT ![c] = "gone"]
    /\ told' = [told EXCEPT ![c] = Nothing]
    /\ UNCHANGED <<issuer, imported, storedVars>>

Import(e) ==
    /\ imported' = imported \union {e}
    /\ UNCHANGED <<life, issuer, storedVars, told>>

\* A key is stored once and never replaced.
MakeKey(c) ==
    /\ life[c] # "absent" /\ c \notin key
    /\ key' = key \union {c}
    /\ UNCHANGED <<specVars, end, told>>

\* A certificate is replaced only by one that ends no earlier.
Sign(c) ==
    /\ life[c] # "absent" /\ c \in key /\ IssuerTold(c)
    /\ end' = [end EXCEPT ![c] = end'[c]]
    /\ end'[c] # 0 /\ end'[c] >= end[c]
    /\ UNCHANGED <<specVars, key, told>>

\* What is told is stored and stays told; only the end may fall back to that of a
\* certificate that has been replaced since.
Tell(c) ==
    /\ life[c] = "live"
    /\ told' = [told EXCEPT ![c] = told'[c]]
    /\ told[c].key => told'[c].key
    /\ told[c].cert => told'[c].cert
    /\ told'[c].key => c \in key
    /\ told'[c].cert => end[c] # 0 /\ told'[c].until <= end[c]
    /\ UNCHANGED <<specVars, storedVars>>

\* The garbage collector takes what a Certificate that is gone has left.
Collect(c) ==
    /\ life[c] = "gone"
    /\ \/ key' = key \ {c} /\ UNCHANGED end
       \/ end' = [end EXCEPT ![c] = 0] /\ UNCHANGED key
    /\ UNCHANGED <<specVars, told>>

TrustNext ==
    \/ \E c \in Certs :
          Create(c) \/ Remove(c) \/ MakeKey(c) \/ Sign(c) \/ Tell(c) \/ Collect(c)
    \/ \E e \in Externals : Import(e)

TrustSpec == TrustInit /\ [][TrustNext]_trustVars
=============================================================================
