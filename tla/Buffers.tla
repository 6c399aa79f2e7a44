------------------------------ MODULE Buffers ------------------------------
(***************************************************************************)
(* The byte buffers datagrams are received into and built in.  There are   *)
(* two kinds: the server keeps one for all requests, and every session has *)
(* one of its own.  Either is zeroed once, when it is created, and then    *)
(* reused: a datagram is built over what earlier ones left behind.         *)
(***************************************************************************)
EXTENDS Datagrams

CONSTANTS
    BUFFER_SIZE,   \* 65535 in the code
    Requests,      \* datagrams that reach the listening socket
    Replies,       \* datagrams that reach the socket of a session
    Oacks,         \* the option pairs sessions acknowledge
    MaxReceived    \* bound: datagrams received into a buffer

ASSUME BuffersAssumption ==
    /\ BUFFER_SIZE \in Nat
    /\ \A d \in Requests \cup Replies : d \in Seq(Byte) /\ Len(d) <= BUFFER_SIZE
    /\ {"Bad format", "Only RRQ is supported", "Can't obtain filename",
        "Only octet mode is supported", "Maximum sessions per IP exceeded"} \subseteq DOMAIN Texts
    /\ \A m \in DOMAIN Texts : Texts[m] \in Seq(Byte) /\ Len(Texts[m]) + 5 < BUFFER_SIZE
    /\ \A o \in Oacks : o \in Seq(Seq(Byte) \X Seq(Byte)) /\ o # << >>
    /\ \A o \in Oacks : Len(FlattenSeq([i \in DOMAIN o |-> o[i][1] \o o[i][2]])) + 2 * Len(o) + 2
                            < BUFFER_SIZE

VARIABLES
    owner,      \* "server" or "session"
    phase,      \* of a session, see Phases
    buffer,
    received,   \* the last datagram received into the buffer
    count,      \* number of datagrams received into it
    oack_size,  \* size of the OACK the session repeats
    outcome,    \* what the code read in the last datagram
    sent,       \* the last datagram sent
    meant       \* and the ERROR or the OACK it was built for

vars == <<owner, phase, buffer, received, count, oack_size, outcome, sent, meant>>

\* new, or refused with an ERROR; waiting for the acknowledgement of the OACK or
\* of DATA; having read a datagram; having failed; ended.
Phases == {"new", "refused", "oack", "oack_read", "data", "data_read", "failed", "ended"}

Nothing == [kind |-> "nothing"]

Init ==
    /\ owner \in {"server", "session"}
    /\ phase = "new"
    /\ buffer = [k \in 1 .. BUFFER_SIZE |-> 0]
    /\ received = << >>
    /\ count = 0
    /\ oack_size = 0
    /\ outcome = Nothing
    /\ sent = << >>
    /\ meant = Nothing

Prefix(size) == SubSeq(buffer, 1, size)

\* recv_from: the datagram overwrites the beginning of the buffer.
Received(datagram) == datagram \o SubSeq(buffer, Len(datagram) + 1, BUFFER_SIZE)

\* The cursor c has built m in the buffer, and the part it wrote is sent.
Send(c, m) ==
    /\ ~c.full
    /\ buffer' = c.buffer
    /\ sent' = SubSeq(c.buffer, 1, c.offset)
    /\ meant' = m
-----------------------------------------------------------------------------
(* The server *)

\* Mutant: the whole buffer.
WholeBuffer(datagram) == Received(datagram)

\* self.buffer[..size], which the parser is given.
Slice(datagram) == SubSeq(Received(datagram), 1, Len(datagram))

\* A request that does not parse is answered from the buffer it came in.
handle_request(datagram) ==
    /\ owner = "server"
    /\ count < MaxReceived
    /\ count' = count + 1
    /\ received' = datagram
    /\ LET request == parse(Slice(datagram))
       IN  /\ outcome' = request
           /\ IF request.kind = "error"
                THEN Send(serialize_error(Received(datagram), request), request)
                ELSE buffer' = Received(datagram) /\ UNCHANGED <<sent, meant>>
    /\ UNCHANGED <<owner, phase, oack_size>>
-----------------------------------------------------------------------------
(* A session *)

\* "Maximum sessions per IP exceeded": the session is scheduled all the same,
\* with the buffer the ERROR was built in.
TooManySessions ==
    /\ owner = "session" /\ phase = "new"
    /\ phase' = "refused"
    /\ LET e == TFTPError("Maximum sessions per IP exceeded")
       IN  Send(serialize_error(buffer, e), e)
    /\ UNCHANGED <<owner, received, count, oack_size, outcome>>

\* The ERROR messages due in a phase, and the phase that follows.
Due ==
    CASE phase \in {"new", "refused"} ->
            {"File not found", "Access violation", "Server Error"} \X {"ended"}
      [] phase = "oack" -> {<<"Send timeout occurred", "ended">>}
      [] phase = "oack_read" /\ outcome.kind = "ack" /\ outcome.number # 0 ->
            {<<"Unexpected non-zero ACK", "ended">>}
      [] phase = "data" ->
            {"Send timeout occurred", "Read file error occurred", "Unknown error occurred"}
                \X {"ended"}
      [] phase = "data_read" /\ outcome.kind = "ack" ->
            {<<"Received ACK from the past", "failed">>}
      [] phase = "data_read" /\ outcome.kind = "ack_error" ->
            {<<"Unknown error occurred", "ended">>}
      [] phase = "failed" -> {<<"Unknown error occurred", "ended">>}
      [] OTHER -> {}

fire_error(message) ==
    /\ owner = "session"
    /\ \E next \in Phases : <<message, next>> \in Due /\ phase' = next
    /\ Send(serialize_error(buffer, TFTPError(message)), TFTPError(message))
    /\ UNCHANGED <<owner, received, count, oack_size, outcome>>

\* A request without options goes on with DATA, which has buffers of its own.
NoOack ==
    /\ owner = "session" /\ phase \in {"new", "refused"}
    /\ phase' = "data"
    /\ UNCHANGED <<owner, buffer, received, count, oack_size, outcome, sent, meant>>

\* send_oack_reliably builds the OACK once ...
BuildOack(pairs) ==
    /\ owner = "session" /\ phase \in {"new", "refused"}
    /\ phase' = "oack"
    /\ LET c == serialize_oack(buffer, pairs)
       IN  Send(c, [kind |-> "oack", pairs |-> pairs]) /\ oack_size' = c.offset
    /\ UNCHANGED <<owner, received, count, outcome>>

\* ... and sends the bytes at its place again after a timeout.
RepeatOack ==
    /\ owner = "session" /\ phase = "oack"
    /\ sent' = Prefix(oack_size)
    /\ UNCHANGED <<owner, phase, buffer, received, count, oack_size, outcome, meant>>

\* Mutant: recv takes datagrams of any size.
any_size == 0

\* read_acknowledge calls recv with this least size.
min_size == 4

\* recv drops a runt datagram, or one of another sender, after it was received.
Ignore(datagram) ==
    /\ owner = "session" /\ phase \in {"oack", "data"}
    /\ count < MaxReceived
    /\ count' = count + 1
    /\ received' = datagram
    /\ buffer' = Received(datagram)
    /\ UNCHANGED <<owner, phase, oack_size, outcome, sent, meant>>

\* What read_acknowledge makes of the buffer, of all of it.
read_acknowledge(bytes) ==
    LET opcode  == extract_ushort(bytes, 0)
        number  == extract_ushort(bytes, 2)
        message == extract_string(bytes, 4)
    IN  IF number.kind # "ok" THEN [kind |-> "ack_error"]
        ELSE IF opcode.value = ACK THEN [kind |-> "ack", number |-> number.value]
        ELSE IF opcode.value = ERROR /\ message.kind = "ok"
               THEN [kind |-> "client_error", number |-> number.value, message |-> message.value]
               ELSE [kind |-> "ack_error"]

ReadAcknowledge(datagram) ==
    /\ owner = "session" /\ phase \in {"oack", "data"}
    /\ count < MaxReceived
    /\ count' = count + 1
    /\ Len(datagram) >= min_size
    /\ received' = datagram
    /\ buffer' = Received(datagram)
    /\ outcome' = read_acknowledge(buffer')
    /\ phase' = IF phase = "oack" THEN "oack_read" ELSE "data_read"
    /\ UNCHANGED <<owner, oack_size, sent, meant>>

\* The acknowledgement is accepted, or the client's ERROR ends the session.
GoOn ==
    /\ owner = "session"
    /\ \/ /\ phase \in {"oack_read", "data_read"} /\ outcome.kind = "ack"
          /\ phase = "oack_read" => outcome.number = 0
          /\ phase' = "data"
       \/ /\ \/ phase = "oack_read" /\ outcome.kind # "ack"
             \/ phase = "data_read" /\ outcome.kind = "client_error"
          /\ phase' = "ended"
    /\ UNCHANGED <<owner, buffer, received, count, oack_size, outcome, sent, meant>>

Next ==
    \/ \E d \in Requests : handle_request(d)
    \/ TooManySessions
    \/ \E message \in DOMAIN Texts : fire_error(message)
    \/ NoOack
    \/ \E o \in Oacks : BuildOack(o)
    \/ RepeatOack
    \/ GoOn
    \/ \E d \in Replies : Ignore(d) \/ ReadAcknowledge(d)

Spec == Init /\ [][Next]_vars
-----------------------------------------------------------------------------
(* Properties *)

\* The fields a well-formed read request consists of: its bytes after the
\* opcode, cut after every NUL.
Fields(datagram) ==
    LET ends == {k \in 3 .. Len(datagram) : datagram[k] = 0}
        End(i) == CHOOSE e \in ends : Cardinality({k \in ends : k <= e}) = i
        Start(i) == IF i = 1 THEN 3 ELSE End(i - 1) + 1
    IN  [i \in 1 .. Cardinality(ends) |-> SubSeq(datagram, Start(i), End(i) - 1)]

IsReadRequest(datagram) ==
    /\ Len(datagram) > 2 /\ SubSeq(datagram, 1, 2) = UShort(RRQ) /\ Last(datagram) = 0
    /\ \A i \in DOMAIN Fields(datagram) : ToSet(Fields(datagram)[i]) \subseteq Letters
    /\ Len(Fields(datagram)) >= 2 /\ Len(Fields(datagram)) % 2 = 0
    /\ Fields(datagram)[2] = OCTET

\* What such a request asks for: the last value of an option counts.
Reference(datagram) ==
    LET fields == Fields(datagram)
        names  == {i \in 3 .. Len(fields) : i % 2 = 1}
    IN  [kind |-> "request", filename |-> fields[1],
         options |-> [n \in {fields[i] : i \in names} |->
                        fields[Max({i \in names : fields[i] = n}) + 1]]]

\* handle_request takes a datagram for a read request just when it is one, and
\* reads in it what it says, whatever earlier datagrams left in the buffer.
ParsesTheRequest ==
    owner = "server" /\ count > 0 =>
        IF IsReadRequest(received) THEN outcome = Reference(received)
        ELSE outcome.kind = "error"

\* read_acknowledge parses the whole buffer, not the part it received: what it
\* reads in an ACK, or in an ERROR whose message is terminated, is what the
\* datagram says all the same, and nothing else is read as an ACK.
ReadsTheReply ==
    phase \in {"oack_read", "data_read"} =>
        LET own == read_acknowledge(received)
        IN  outcome.kind = "ack" \/ own.kind \in {"ack", "client_error"} => outcome = own

\* A datagram that the code expects to be built and sent: its bytes.
Bytes(m) ==
    IF m.kind = "oack"
      THEN UShort(OACK) \o FlattenSeq([i \in DOMAIN m.pairs |->
                                m.pairs[i][1] \o <<0>> \o m.pairs[i][2] \o <<0>>])
      ELSE UShort(ERROR) \o UShort(m.code) \o Texts[m.message] \o <<0>>

\* The first datagram a session builds in its zeroed buffer says what it is
\* meant to say, every text with its terminator, although put_string writes
\* the terminator after the place it reserved for it.
FirstDatagramReadsBack ==
    [][owner = "session" /\ phase = "new" /\ sent' # sent => sent' = Bytes(meant')]_vars

\* Every ERROR datagram ends with the terminator of its message.
ErrorTerminated == meant.kind = "error" => Last(sent) = 0
=============================================================================
