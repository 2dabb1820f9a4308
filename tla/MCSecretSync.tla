----------------------------- MODULE MCSecretSync -----------------------------
(* Small instances of SecretSync.                                           *)
EXTENDS SecretSync

CONSTANTS i1, i2, s1, s2

Tls(secrets) == [class |-> TRUE, tls |-> secrets]

\* Ingresses with up to two secrets, and one of another controller.
UpToTwoSecrets == {Tls(<< >>), Tls(<<s1>>), Tls(<<s1, s2>>), [class |-> FALSE, tls |-> <<s1>>]}
=============================================================================
