----------------------------- MODULE MCBuffers -----------------------------
(* Instances of Buffers for TLC: 7 and 8 are letters, 9 is a byte that is not. *)
EXTENDS Buffers

MCLetters == {4, 5, 7, 8}

\* "octet"
MCOctet == <<7>>

\* Short texts of different lengths.
MCTexts ==
    [m \in {"Bad format", "Can't obtain filename", "Only RRQ is supported",
            "Only octet mode is supported", "File not found", "Access violation",
            "Server Error", "Send timeout occurred", "Unexpected non-zero ACK",
            "Read file error occurred", "Unknown error occurred",
            "Received ACK from the past", "Maximum sessions per IP exceeded"} |->
        IF m \in {"Bad format", "File not found", "Send timeout occurred"} THEN <<8>> ELSE <<8, 8>>]

Sequence(length) == [1 .. length -> {0, 7, 9}]

\* Read requests well-formed or not, some with an option given twice, and others.
MCRequests ==
    {UShort(RRQ) \o s : s \in UNION {Sequence(length) : length \in 0 .. 5}}
    \cup {UShort(RRQ) \o <<0, 7, 0>> \o s : s \in Sequence(5)}
    \cup {<< >>, <<7>>, UShort(ACK), UShort(RRQ) \o <<7, 7, 7, 7, 7, 7, 7, 7>>}

\* Acknowledgements and ERROR datagrams, whole and cut short.
MCReplies ==
    {UShort(ACK) \o UShort(n) : n \in 0 .. 1}
    \cup {UShort(ACK) \o UShort(1) \o s : s \in UNION {Sequence(length) : length \in 0 .. 2}}
    \cup {UShort(ERROR) \o UShort(1) \o s : s \in UNION {Sequence(length) : length \in 0 .. 3}}
    \cup {<<7>>, UShort(ACK), UShort(ACK) \o <<7>>, UShort(ERROR) \o <<7>>, <<7, 7, 7, 7, 7, 7, 7, 7>>}

\* Pairs such as timeout=1 and windowsize=2.
MCOacks == {<< <<<<7>>, <<8>>>> >>, << <<<<7>>, <<8>>>>, <<<<8>>, <<7, 7>>>> >>}
=============================================================================
