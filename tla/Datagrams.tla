----------------------------- MODULE Datagrams -----------------------------
(***************************************************************************)
(* The datagrams as bytes: the cursors of cursor/mod.rs, the parser of     *)
(* read requests, and the serialisation of OACK and ERROR datagrams.       *)
(*                                                                         *)
(* A cursor position is the number of bytes before it.  Texts are          *)
(* sequences of bytes; how the letters of a text are chosen is left to the *)
(* constants.                                                              *)
(***************************************************************************)
EXTENDS Integers, SequencesExt

CONSTANTS
    Letters,   \* the bytes a text may hold; the others are not UTF-8
    OCTET,     \* the text "octet"
    Texts      \* the text of every error message

RRQ   == 1
ACK   == 4
ERROR == 5
OACK  == 6

Byte == 0 .. 255

UShort(v) == <<v \div 256, v % 256>>
-----------------------------------------------------------------------------
(* ReadCursor *)

Ok(value, index) == [kind |-> "ok", value |-> value, index |-> index]
Eof     == [kind |-> "eof"]
Invalid == [kind |-> "invalid"]

extract_ushort(datagram, index) ==
    IF index + 2 > Len(datagram) THEN Eof
    ELSE Ok(256 * datagram[index + 1] + datagram[index + 2], index + 2)

extract_string(datagram, index) ==
    LET nuls == {k \in index + 1 .. Len(datagram) : datagram[k] = 0}
        text == SubSeq(datagram, index + 1, Min(nuls) - 1)
    IN  IF index >= Len(datagram) THEN Eof
        ELSE IF nuls = {} THEN Invalid
        ELSE IF Range(text) \subseteq Letters THEN Ok(text, Min(nuls))
        ELSE Invalid
-----------------------------------------------------------------------------
(* WriteCursor.  A cursor that a `?' has left behind is full. *)

Cursor(buffer) == [buffer |-> buffer, offset |-> 0, full |-> FALSE]

\* The bytes are written after the first `offset' ones.
copy_from_slice(buffer, offset, bytes) ==
    [k \in DOMAIN buffer |->
        IF k - offset \in DOMAIN bytes THEN bytes[k - offset] ELSE buffer[k]]

put_ushort(cursor, value) ==
    IF cursor.full \/ cursor.offset + 2 > Len(cursor.buffer) THEN [cursor EXCEPT !.full = TRUE]
    ELSE [cursor EXCEPT !.buffer = copy_from_slice(@, cursor.offset, UShort(value)),
                        !.offset = @ + 2]

\* Mutant: no place is reserved for the terminator.
Unterminated(text) == Len(text)

\* The bytes a text takes, its terminator included.
Reserved(text) == Len(text) + 1

\* The place reserved for the terminator, the last one before `end', keeps the
\* byte it held: the terminator goes to the place after it.  A text that leaves
\* no such place makes the code report BufferError, or panic when just that
\* place is missing; the buffers of the program are too large for either.
put_string(cursor, text) ==
    LET end == cursor.offset + Reserved(text)
    IN  IF cursor.full \/ end >= Len(cursor.buffer) THEN [cursor EXCEPT !.full = TRUE]
        ELSE [cursor EXCEPT
                !.buffer = copy_from_slice(copy_from_slice(@, cursor.offset, text), end, <<0>>),
                !.offset = end]
-----------------------------------------------------------------------------
(* TFTPError *)

Code(message) ==
    CASE message = "File not found"        -> 1
      [] message = "Access violation"      -> 2
      [] message = "Only RRQ is supported" -> 4
      [] OTHER                             -> 0

TFTPError(message) == [kind |-> "error", code |-> Code(message), message |-> message]
-----------------------------------------------------------------------------
(* ReadRequest::parse *)

BadFormat == TFTPError("Bad format")

\* HashMap::insert
insert(options, name, value) ==
    [n \in DOMAIN options \cup {name} |-> IF n = name THEN value ELSE options[n]]

\* A pass of the loop over the options: it starts at `index' with the options
\* read so far, unless the loop has ended.
parse_option(datagram, state) ==
    LET name  == extract_string(datagram, state.index)
        value == extract_string(datagram, name.index)
    IN  IF state.kind # "reading" THEN state
        ELSE IF name.kind = "eof" THEN [state EXCEPT !.kind = "ok"]
        ELSE IF name.kind # "ok" THEN [state EXCEPT !.kind = "error"]
        ELSE IF value.kind # "ok" THEN [state EXCEPT !.kind = "error"]
        ELSE [state EXCEPT !.index = value.index,
                           !.options = insert(@, name.value, value.value)]

\* Each pass reads at least two bytes: these passes are enough.
parse_options(datagram, start) ==
    LET passes[k \in 0 .. Len(datagram)] ==
            IF k = 0 THEN [kind |-> "reading", index |-> start, options |-> << >>]
            ELSE parse_option(datagram, passes[k - 1])
    IN  passes[Len(datagram)]

parse(datagram) ==
    LET opcode   == extract_ushort(datagram, 0)
        filename == extract_string(datagram, opcode.index)
        mode     == extract_string(datagram, filename.index)
        options  == parse_options(datagram, mode.index)
    IN  IF opcode.kind # "ok" THEN BadFormat
        ELSE IF opcode.value # RRQ THEN TFTPError("Only RRQ is supported")
        ELSE IF filename.kind # "ok" THEN TFTPError("Can't obtain filename")
        ELSE IF mode.kind # "ok" THEN BadFormat
        ELSE IF mode.value # OCTET
               THEN IF mode.value = << >> THEN BadFormat
                    ELSE TFTPError("Only octet mode is supported")
        ELSE IF options.kind # "ok" THEN BadFormat
        ELSE [kind |-> "request", filename |-> filename.value, options |-> options.options]
-----------------------------------------------------------------------------
(* TFTPError::serialize and OptionsAcknowledge::serialize *)

serialize_error(buffer, error) ==
    put_string(put_ushort(put_ushort(Cursor(buffer), ERROR), error.code), Texts[error.message])

serialize_oack(buffer, pairs) ==
    LET put[k \in 0 .. Len(pairs)] ==
            IF k = 0 THEN put_ushort(Cursor(buffer), OACK)
            ELSE put_string(put_string(put[k - 1], pairs[k][1]), pairs[k][2])
    IN  put[Len(pairs)]
=============================================================================
