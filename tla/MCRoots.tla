------------------------------ MODULE MCRoots ------------------------------
(* Instances of Roots for TLC. *)
EXTENDS Roots

\* The files 10.0.0.1, 10.0.0.1.nbd, 10.0.0.10.nbd and 10.0.0.2.nbd, in this
\* order, seen by the handler of 10.0.0.1: three of them match it, and two are
\* its own.
MCNames == <<"10.0.0.1", "10.0.0.1", "10.0.0.10", "10.0.0.2">>

MCPrefixes == {<<"10.0.0.1", "10.0.0.10">>}

MCConfigs ==
    [kind: {"other", "bad url"}, mounts: {<< >>}]
        \cup [kind: {"nbd"}, mounts: {<< >>, <<2, 1>>, <<1, 3>>, <<0>>}]
=============================================================================
