------------------------------ MODULE SecretSync ------------------------------
(***************************************************************************)
(* TLS certificates (pkg/k8scontext): the handlers of ingresses and those  *)
(* of secrets run in two goroutines and share                              *)
(*   ingressSecretsMap       which secrets an ingress refers to, and       *)
(*   CertificateSecretStore  the certificates converted from secrets,      *)
(* each behind a lock of its own that is released between two calls.  The  *)
(* worker puts the certificates of the ingresses' secrets on the gateway.  *)
(*                                                                         *)
(* Every step of a handler is one access to shared state.  A notification  *)
(* is [key, old, new]; an ingress is [class, tls] with tls a sequence of   *)
(* secrets; the content of a secret is a value that converts or does not.  *)
(* The bound of the Work channel and the filters on namespaces are those   *)
(* of K8sContext.                                                          *)
(***************************************************************************)
EXTENDS Naturals, Sequences, FiniteSets

CONSTANTS
    Ingresses, Secrets,     \* keys
    IngressValues,          \* what users may store as an ingress
    Contents,               \* contents of secrets that convert
    Malformed,              \* contents of secrets that do not
    MaxChanges,             \* bound: changes users make
    Absent                  \* no object, no certificate

VARIABLES
    api, store,             \* objects in the API server and in the informers' stores
    ingressQueue, secretQueue,  \* notifications waiting for the two goroutines
    ih, sh,                 \* the handler of ingresses and the handler of secrets
    ingressSecretsMap,      \* ingress -> set of secrets
    certs,                  \* CertificateSecretStore
    work,                   \* is there an event in the Work channel?
    wpc, listed,            \* the worker, and the ingresses it has listed
    applied,                \* certificates on the gateway
    changes,
    overlap,                \* history: have the two handlers ever overlapped?
    leftOut                 \* history: secrets the handler of ingresses failed to convert

vars == <<api, store, ingressQueue, secretQueue, ih, sh, ingressSecretsMap, certs, work,
          wpc, listed, applied, changes, overlap, leftOut>>

ASSUME SecretConstants ==
    /\ MaxChanges \in Nat
    /\ Contents \cap Malformed = {}
    /\ Absent \notin Contents \cup Malformed /\ Absent \notin IngressValues
    /\ IngressValues \subseteq [class : BOOLEAN, tls : Seq(Secrets)]
    /\ Ingresses \cap Secrets = {}

Keys == Ingresses \cup Secrets
Uses(o) == {o.tls[n] : n \in DOMAIN o.tls}

Idle == [pc |-> "idle"]

ContainsPair(i, s) == s \in ingressSecretsMap[i]
ContainsValue(s) == \E i \in Ingresses : s \in ingressSecretsMap[i]

Init ==
    /\ api = [k \in Keys |-> Absent] /\ store = api
    /\ ingressQueue = << >> /\ secretQueue = << >>
    /\ ih = Idle /\ sh = Idle
    /\ ingressSecretsMap = [i \in Ingresses |-> {}]
    /\ certs = [s \in Secrets |-> Absent]
    /\ work = FALSE
    /\ wpc = "idle" /\ listed = {}
    /\ applied = certs
    /\ changes = 0
    /\ overlap = FALSE /\ leftOut = {}

-----------------------------------------------------------------------------
(* Users and informers. *)

User(k, v) ==
    /\ changes < MaxChanges
    /\ v # api[k]
    /\ api' = [api EXCEPT ![k] = v]
    /\ changes' = changes + 1
    /\ UNCHANGED <<store, ingressQueue, secretQueue, ih, sh, ingressSecretsMap, certs, work,
                   wpc, listed, applied, overlap, leftOut>>

\* The informer updates its store and queues the notification.
Informer(k) ==
    /\ store[k] # api[k]
    /\ store' = [store EXCEPT ![k] = api[k]]
    /\ LET n == [key |-> k, old |-> store[k], new |-> api[k]]
       IN IF k \in Ingresses
          THEN ingressQueue' = Append(ingressQueue, n) /\ UNCHANGED secretQueue
          ELSE secretQueue' = Append(secretQueue, n) /\ UNCHANGED ingressQueue
    /\ UNCHANGED <<api, ih, sh, ingressSecretsMap, certs, work, wpc, listed, applied,
                   changes, overlap, leftOut>>

-----------------------------------------------------------------------------
(* ingressAdd, ingressUpdate, ingressDelete. *)

IsIngressApplicationGateway(o) == o # Absent /\ o.class

Looping(i, rest) == [pc |-> "loop", ing |-> i, rest |-> rest]
Sending == [pc |-> "send"]

\* What the handlers leave alone.
OthersUnchanged == UNCHANGED <<api, store, wpc, listed, applied, changes>>

IngressHandlerTo(h) ==
    /\ ih' = h
    /\ overlap' = (overlap \/ sh # Idle)
    /\ UNCHANGED <<sh, secretQueue>>
    /\ OthersUnchanged

\* An update clears the entry of an ingress that uses TLS, and keeps the one
\* of an ingress that no longer does.
TakeIngress ==
    /\ ih = Idle
    /\ ingressQueue # << >>
    /\ ingressQueue' = Tail(ingressQueue)
    /\ LET n == Head(ingressQueue)
       IN \/ /\ ~ IsIngressApplicationGateway(n.old) /\ ~ IsIngressApplicationGateway(n.new)
             /\ IngressHandlerTo(Idle)
             /\ UNCHANGED ingressSecretsMap
          \/ /\ n.new = Absent /\ IsIngressApplicationGateway(n.old)
             /\ ingressSecretsMap' = [ingressSecretsMap EXCEPT ![n.key] = {}]
             /\ IngressHandlerTo(Sending)
          \/ /\ n.new # Absent
             /\ IsIngressApplicationGateway(n.old) \/ IsIngressApplicationGateway(n.new)
             /\ ingressSecretsMap' = IF n.old # Absent /\ n.new.tls # << >>
                                     THEN [ingressSecretsMap EXCEPT ![n.key] = {}]
                                     ELSE ingressSecretsMap
             /\ IngressHandlerTo(IF n.new.tls = << >> THEN Sending ELSE Looping(n.key, n.new.tls))
    /\ UNCHANGED <<certs, work, leftOut>>

\* The next secret of the ingress is looked up in the informer's store.  The
\* map is written by this goroutine only.
LookUpSecret ==
    /\ ih.pc = "loop"
    /\ IF ih.rest = << >>
       THEN IngressHandlerTo(Sending)
       ELSE LET s == Head(ih.rest)
            IN IngressHandlerTo(
                 IF ContainsPair(ih.ing, s) THEN Looping(ih.ing, Tail(ih.rest))
                 ELSE IF store[s] # Absent /\ ~ ContainsValue(s)
                 THEN [pc |-> "convert", ing |-> ih.ing, rest |-> ih.rest, secret |-> store[s]]
                 ELSE [pc |-> "insert", ing |-> ih.ing, rest |-> ih.rest])
    /\ UNCHANGED <<ingressQueue, ingressSecretsMap, certs, work, leftOut>>

\* A secret that does not convert is left out of the map.
ConvertForIngress ==
    /\ ih.pc = "convert"
    /\ IF ih.secret \in Contents
       THEN /\ certs' = [certs EXCEPT ![Head(ih.rest)] = ih.secret]
            /\ IngressHandlerTo([pc |-> "insert", ing |-> ih.ing, rest |-> ih.rest])
            /\ UNCHANGED leftOut
       ELSE /\ leftOut' = leftOut \cup {Head(ih.rest)}
            /\ UNCHANGED certs
            /\ IngressHandlerTo(Looping(ih.ing, Tail(ih.rest)))
    /\ UNCHANGED <<ingressQueue, ingressSecretsMap, work>>

\* Mutant of InsertSecret: the pair is not recorded.
InsertSecret_Forgets ==
    /\ ih.pc = "insert"
    /\ IngressHandlerTo(Looping(ih.ing, Tail(ih.rest)))
    /\ UNCHANGED <<ingressSecretsMap, ingressQueue, certs, work, leftOut>>

InsertSecret ==
    /\ ih.pc = "insert"
    /\ ingressSecretsMap' = [ingressSecretsMap EXCEPT ![ih.ing] = @ \cup {Head(ih.rest)}]
    /\ IngressHandlerTo(Looping(ih.ing, Tail(ih.rest)))
    /\ UNCHANGED <<ingressQueue, certs, work, leftOut>>

SendIngress ==
    /\ ih.pc = "send"
    /\ work' = TRUE
    /\ IngressHandlerTo(Idle)
    /\ UNCHANGED <<ingressQueue, ingressSecretsMap, certs, leftOut>>

-----------------------------------------------------------------------------
(* secretAdd, secretUpdate, secretDelete. *)

SecretHandlerTo(h) ==
    /\ sh' = h
    /\ overlap' = (overlap \/ ih # Idle)
    /\ UNCHANGED <<ih, ingressQueue, ingressSecretsMap, leftOut>>
    /\ OthersUnchanged

\* Secrets that no ingress refers to are not converted.
TakeSecret ==
    /\ sh = Idle
    /\ secretQueue # << >>
    /\ secretQueue' = Tail(secretQueue)
    /\ LET n == Head(secretQueue)
       IN \/ /\ n.new = Absent
             /\ certs' = [certs EXCEPT ![n.key] = Absent]
             /\ SecretHandlerTo([pc |-> "deleted", key |-> n.key])
          \/ /\ n.new # Absent
             /\ UNCHANGED certs
             /\ SecretHandlerTo(IF ContainsValue(n.key)
                                THEN [pc |-> "convert", key |-> n.key, secret |-> n.new] ELSE Idle)
    /\ UNCHANGED work

\* Mutant of AfterDelete: the deletion of a secret triggers no update.
AfterDelete_Silent ==
    /\ sh.pc = "deleted"
    /\ SecretHandlerTo(Idle)
    /\ UNCHANGED <<secretQueue, certs, work>>

AfterDelete ==
    /\ sh.pc = "deleted"
    /\ SecretHandlerTo(IF ContainsValue(sh.key) THEN Sending ELSE Idle)
    /\ UNCHANGED <<secretQueue, certs, work>>

\* Mutant of ConvertSecret: the result of the conversion is not looked at.
ConvertSecret_Unchecked ==
    /\ sh.pc = "convert"
    /\ certs' = [certs EXCEPT ![sh.key] = sh.secret]
    /\ SecretHandlerTo(Sending)
    /\ UNCHANGED <<secretQueue, work>>

\* A secret that does not convert leaves the certificate as it was.  Whether one
\* converts is a matter of its contents: the temporary files and the call of openssl
\* are taken to succeed.
ConvertSecret ==
    /\ sh.pc = "convert"
    /\ IF sh.secret \in Contents
       THEN certs' = [certs EXCEPT ![sh.key] = sh.secret] /\ SecretHandlerTo(Sending)
       ELSE UNCHANGED certs /\ SecretHandlerTo(Idle)
    /\ UNCHANGED <<secretQueue, work>>

SendSecret ==
    /\ sh.pc = "send"
    /\ work' = TRUE
    /\ SecretHandlerTo(Idle)
    /\ UNCHANGED <<secretQueue, certs>>

-----------------------------------------------------------------------------
(* The worker. *)

WorkerUnchanged ==
    UNCHANGED <<api, store, ingressQueue, secretQueue, ih, sh, ingressSecretsMap, certs,
                changes, overlap, leftOut>>

\* The event is taken and the channel drained.
TakeEvent ==
    /\ wpc = "idle" /\ work
    /\ work' = FALSE
    /\ wpc' = "list"
    /\ UNCHANGED <<listed, applied>> /\ WorkerUnchanged

\* The secrets of the ingresses in the store.
ReferencedSecrets ==
    UNION {Uses(store[i]) : i \in {j \in Ingresses : IsIngressApplicationGateway(store[j])}}

ListIngresses ==
    /\ wpc = "list"
    /\ listed' = ReferencedSecrets
    /\ wpc' = "certificates"
    /\ UNCHANGED <<work, applied>> /\ WorkerUnchanged

\* getSslCertificates, and the configuration is applied.
getSslCertificates ==
    /\ wpc = "certificates"
    /\ applied' = [s \in Secrets |-> IF s \in listed THEN certs[s] ELSE Absent]
    /\ listed' = {}
    /\ wpc' = "idle"
    /\ UNCHANGED work /\ WorkerUnchanged

-----------------------------------------------------------------------------
Next ==
    \/ \E i \in Ingresses : \E v \in IngressValues \cup {Absent} : User(i, v)
    \/ \E s \in Secrets : \E v \in Contents \cup Malformed \cup {Absent} : User(s, v)
    \/ \E k \in Keys : Informer(k)
    \/ TakeIngress \/ LookUpSecret \/ ConvertForIngress \/ InsertSecret \/ SendIngress
    \/ TakeSecret \/ AfterDelete \/ ConvertSecret \/ SendSecret
    \/ TakeEvent \/ ListIngresses \/ getSslCertificates

Spec == Init /\ [][Next]_vars

-----------------------------------------------------------------------------
(* Properties. *)

Certificates == [Secrets -> Contents \cup {Absent}]

\* Every variable keeps its type, and only contents that convert become
\* certificates.
TypeOK ==
    /\ \A k \in Ingresses : api[k] \in IngressValues \cup {Absent}
    /\ \A k \in Secrets : api[k] \in Contents \cup Malformed \cup {Absent}
    /\ ih.pc \in {"idle", "loop", "convert", "insert", "send"}
    /\ sh.pc \in {"idle", "deleted", "convert", "send"}
    /\ ingressSecretsMap \in [Ingresses -> SUBSET Secrets]
    /\ certs \in Certificates /\ applied \in Certificates
    /\ work \in BOOLEAN /\ overlap \in BOOLEAN /\ leftOut \subseteq Secrets
    /\ wpc \in {"idle", "list", "certificates"} /\ listed \subseteq Secrets

\* All that has happened in the cluster is dealt with.
Quiet ==
    /\ ingressQueue = << >> /\ secretQueue = << >>
    /\ ih = Idle /\ sh = Idle
    /\ ~ work /\ wpc = "idle"

\* No change of the certificate store is forgotten: once all is dealt with,
\* the gateway has, for every secret that an ingress refers to and that the map
\* records, what the store of certificates holds, however the two handlers and
\* the worker interleave and whichever conversions fail.
AppliedIsCached ==
    Quiet => \A s \in ReferencedSecrets : ContainsValue(s) => applied[s] = certs[s]

\* The map that decides whether the handler of secrets does anything at all
\* knows every secret of every ingress once all is dealt with, but for those that
\* did not convert when the ingress was handled.
MapIsComplete ==
    Quiet => \A i \in Ingresses : IsIngressApplicationGateway(store[i]) =>
                                     Uses(store[i]) \subseteq ingressSecretsMap[i] \cup leftOut

\* The certificate of secret s is the one of the secret as it is now, if that
\* converts.
IsCurrent(s) == store[s] \notin Malformed => certs[s] = store[s]

\* Once all is dealt with, the certificate of every secret that an ingress
\* refers to is current.
CertificatesCurrent == Quiet => \A s \in ReferencedSecrets : IsCurrent(s)

\* The same of the secrets that have always converted for the handler of
\* ingresses, as long as it and the handler of secrets have never run at the
\* same time.
CertificatesCurrentIfSerial ==
    ~ overlap /\ Quiet => \A s \in ReferencedSecrets \ leftOut : IsCurrent(s)
=============================================================================
