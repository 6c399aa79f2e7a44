--------------------------- MODULE MCConfigWatch ---------------------------
(* Instances of ConfigWatch for TLC. *)
EXTENDS ConfigWatch

MCAddresses == {"10.0.0.1", "10.0.0.10"}

MCPorts == {1}

\* The files 10.0.0.1, whose stem is no address, and 10.0.0.10.nbd.  The handler
\* of 10.0.0.1 looks at both, and hears of neither.
MCFiles == {1, 2}

MCStems == <<"10.0.0", "10.0.0.10">>

MCMatching == <<{"10.0.0.1"}, MCAddresses>>
=============================================================================
