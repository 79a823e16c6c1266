------------------------------- MODULE MCHost -------------------------------
(***************************************************************************)
(* Small installations for Host: a standalone server with a certificate    *)
(* and a service, a router without either, and a node that stores one      *)
(* subtree and forwards the rest.                                          *)
(***************************************************************************)
EXTENDS Host

Answer(mode, prefixes, tls, service) ==
    [mode |-> mode, prefixes |-> prefixes, name |-> "node-a", tls |-> tls,
     service |-> service, start |-> service]

MCAnswers == {Answer("standalone", {}, TRUE, TRUE),
              Answer("router", {}, FALSE, FALSE),
              Answer("both", {"feeds"}, TRUE, FALSE)}
=============================================================================
