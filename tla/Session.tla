------------------------------ MODULE Session ------------------------------
(***************************************************************************)
(* One read session of the server: the task `send` of peer_handler/mod.rs, *)
(* from the option negotiation to its return.  It owns a socket and an     *)
(* opened file, keeps a window of DATA datagrams read from the file, and   *)
(* retransmits the window until an acknowledgement moves it.               *)
(*                                                                         *)
(* `pc' names the place of the task between two awaits or loop heads:      *)
(*   negotiate  entry of negotiate_options                                 *)
(*   oack_send  head of the attempts loop of send_oack_reliably            *)
(*   oack_wait  read_acknowledge, called by send_oack_reliably             *)
(*   top        `while !done' of send_file                                 *)
(*   fill       `while to_send < window.size()' of send_file               *)
(*   send       the loop over the blocks of send_reliably                  *)
(*   wait       read_acknowledge, called by send_reliably                  *)
(*   ended      the task has returned                                      *)
(*                                                                         *)
(* The k-th block of the file is the number k; block `Blocks' is the short *)
(* one that ends it.  The bytes of a block are not modelled.               *)
(***************************************************************************)
EXTENDS Integers

CONSTANTS
    Modulus,        \* 2^16 in the code: block indexes are u16 and wrap around
    SEND_ATTEMPTS,  \* how often a window or an OACK is sent, 5 in the code
    Blocks,         \* DATA blocks in the opened file, the short last one included
    Requests        \* the option sets read requests may carry

(***************************************************************************)
(* An option of a request is {} when it is absent or its text is not a     *)
(* number, and {v} when it parses to v.                                    *)
(***************************************************************************)
RequestOptions == [timeout: SUBSET Nat, blksize: SUBSET Nat,
                   tsize: BOOLEAN, windowsize: SUBSET Nat]

ASSUME ConstantsAssumption ==
    /\ Modulus \in Nat /\ Modulus > 1
    /\ SEND_ATTEMPTS \in Nat \ {0}
    /\ Blocks \in Nat \ {0}
    /\ Requests \subseteq RequestOptions

VARIABLES
    pc,
    options,                  \* the options of the request being served
    window,                   \* negotiated windowsize: Window::size()
    attempt,                  \* attempt counter of the reliable sends
    last_acknowledged_index,
    last_read_index,
    to_send,                  \* blocks of the current window
    done,                     \* the last block has been read
    offset,                   \* blocks sent so far in the current attempt
    buffers,                  \* the slots of the Window
    file_pos,                 \* blocks consumed from opened_file
    result,                   \* how the task returned
    data,                     \* every DATA datagram handed to the socket
    control                   \* every OACK and ERROR datagram handed to the socket

negotiation == <<options, window>>
transfer    == <<last_acknowledged_index, last_read_index, done, buffers, file_pos>>
sent        == <<data, control>>
session     == <<pc, negotiation, attempt, transfer, to_send, offset, result, sent>>
-----------------------------------------------------------------------------
(* u16 arithmetic *)

Index == 0 .. Modulus - 1

\* Mutant: the index stays at its greatest value.
SaturatingAdd(a, b) == IF a + b < Modulus THEN a + b ELSE Modulus - 1

wrapping_add(a, b) == (a + b) % Modulus

wrapping_sub(a, b) == (a - b) % Modulus
-----------------------------------------------------------------------------
(* Option negotiation *)

BLOCK_SIZE_CAPS  == 8 .. Modulus - 1
ACK_TIMEOUT_CAPS == 1 .. 255
WINDOW_SIZE_CAPS == 1 .. Modulus - 1

\* X::find_in: the requested value when it lies within its caps.
find_in(option, caps) == option \cap caps

AcceptedTimeout(o) == find_in(o.timeout, ACK_TIMEOUT_CAPS)

AcceptedBlockSize(o) == find_in(o.blksize, BLOCK_SIZE_CAPS)

AcceptedWindow(o) == find_in(o.windowsize, WINDOW_SIZE_CAPS)

WindowSize(o) ==
    IF AcceptedWindow(o) = {} THEN 1 ELSE CHOOSE w \in AcceptedWindow(o) : TRUE

\* oack.has_options(); obtained says whether TSize::obtain succeeded.
has_options(o, obtained) ==
    \/ AcceptedTimeout(o) # {}
    \/ AcceptedBlockSize(o) # {}
    \/ o.tsize /\ obtained
    \/ AcceptedWindow(o) # {}
-----------------------------------------------------------------------------
(* The window *)

Datagram == [index: Index, block: 0 .. Blocks]

\* Mutant: one slot of the window is never used.
SlotOfSmallerWindow(index) == IF window = 1 THEN 0 ELSE index % (window - 1)

Slot(index) == index % window

\* Window::new: zeroed buffers.
NewWindow == [s \in 0 .. window - 1 |-> [index |-> 0, block |-> 0]]

window_index == wrapping_add(last_acknowledged_index, 1)
-----------------------------------------------------------------------------
Errors == {"Read file error occurred", "Send timeout occurred",
           "Unknown error occurred", "Received ACK from the past",
           "Unexpected non-zero ACK"}

Control == Errors \cup {"OACK"}

Results == {"none", "sent", "client_error", "read_error", "timeout", "network",
            "past_ack", "not_negotiated"}

\* The task returns r after firing the ERROR datagrams of `errors'.
Return(r, errors) ==
    /\ pc' = "ended"
    /\ result' = r
    /\ control' = control \cup errors
    /\ UNCHANGED <<negotiation, attempt, transfer, to_send, offset, data>>

Init ==
    /\ pc = "negotiate"
    /\ options \in Requests
    /\ window = 1
    /\ attempt = 0
    /\ last_acknowledged_index = 0
    /\ last_read_index = 0
    /\ to_send = 0
    /\ done = FALSE
    /\ offset = 0
    /\ buffers = NewWindow
    /\ file_pos = 0
    /\ result = "none"
    /\ data = {}
    /\ control = {}
-----------------------------------------------------------------------------
(* negotiate_options and send_oack_reliably *)

\* The code allocates the Window once the OACK is acknowledged; nothing looks at
\* it before, so the action that fixes its size allocates it.
Negotiate(obtained) ==
    /\ pc = "negotiate"
    /\ window' = WindowSize(options)
    /\ buffers' = NewWindow'
    /\ IF has_options(options, obtained)
         THEN pc' = "oack_send" /\ attempt' = 1
         ELSE pc' = "top" /\ UNCHANGED attempt
    /\ UNCHANGED <<options, last_acknowledged_index, last_read_index, to_send,
                   done, offset, file_pos, result, sent>>

\* The bytes of a repeated OACK are a subject of module Buffers.
SendOack ==
    /\ pc = "oack_send"
    /\ pc' = "oack_wait"
    /\ control' = control \cup {"OACK"}
    /\ UNCHANGED <<negotiation, attempt, transfer, to_send, offset, result, data>>

SendOackFails ==
    /\ pc = "oack_send"
    /\ Return("not_negotiated", {})

RecvOackAck(ack) ==
    /\ pc = "oack_wait"
    /\ IF ack = 0
         THEN /\ pc' = "top"
              /\ UNCHANGED <<negotiation, attempt, transfer, to_send, offset, result, sent>>
         ELSE Return("not_negotiated", {"Unexpected non-zero ACK"})

\* Mutant: the transfer starts although the OACK was never acknowledged.
OackTimeoutGoesOn ==
    /\ pc = "oack_wait"
    /\ pc' = IF attempt < SEND_ATTEMPTS THEN "oack_send" ELSE "top"
    /\ attempt' = IF attempt < SEND_ATTEMPTS THEN attempt + 1 ELSE attempt
    /\ UNCHANGED <<negotiation, transfer, to_send, offset, result, sent>>

OackTimeout ==
    /\ pc = "oack_wait"
    /\ IF attempt < SEND_ATTEMPTS
         THEN /\ pc' = "oack_send"
              /\ attempt' = attempt + 1
              /\ UNCHANGED <<negotiation, transfer, to_send, offset, result, sent>>
         ELSE Return("not_negotiated", {"Send timeout occurred"})

\* An ERROR datagram of the client, an unknown opcode or a socket error.
OackRefused ==
    /\ pc = "oack_wait"
    /\ Return("not_negotiated", {})
-----------------------------------------------------------------------------
(* send_file *)

\* Mutant: the loop does not end with the file.
LoopHeadGoesOn ==
    /\ pc = "top"
    /\ pc' = "fill"
    /\ to_send' = wrapping_sub(last_read_index, last_acknowledged_index)
    /\ UNCHANGED <<negotiation, attempt, transfer, offset, result, sent>>

LoopHead ==
    /\ pc = "top"
    /\ IF done
         THEN Return("sent", {})
         ELSE /\ pc' = "fill"
              /\ to_send' = wrapping_sub(last_read_index, last_acknowledged_index)
              /\ UNCHANGED <<negotiation, attempt, transfer, offset, result, sent>>

\* Mutant: the header of the block is written before the index is advanced.
PushBlockStaleIndex ==
    /\ pc = "fill"
    /\ to_send < window
    /\ last_read_index' = wrapping_add(last_read_index, 1)
    /\ file_pos' = file_pos + 1
    /\ buffers' = [buffers EXCEPT ![Slot(last_read_index')] =
                      [index |-> last_read_index, block |-> file_pos']]
    /\ to_send' = to_send + 1
    /\ IF file_pos' = Blocks
         THEN done' = TRUE /\ pc' = "send" /\ attempt' = 1 /\ offset' = 0
         ELSE UNCHANGED <<done, pc, attempt, offset>>
    /\ UNCHANGED <<negotiation, last_acknowledged_index, result, sent>>

PushBlock ==
    /\ pc = "fill"
    /\ to_send < window
    /\ last_read_index' = wrapping_add(last_read_index, 1)
    /\ file_pos' = file_pos + 1
    /\ buffers' = [buffers EXCEPT ![Slot(last_read_index')] =
                      [index |-> last_read_index', block |-> file_pos']]
    /\ to_send' = to_send + 1
    /\ IF file_pos' = Blocks
         THEN done' = TRUE /\ pc' = "send" /\ attempt' = 1 /\ offset' = 0
         ELSE UNCHANGED <<done, pc, attempt, offset>>
    /\ UNCHANGED <<negotiation, last_acknowledged_index, result, sent>>

\* The code has advanced last_read_index by then; the local dies with the task.
ReadFails ==
    /\ pc = "fill"
    /\ to_send < window
    /\ Return("read_error", {"Read file error occurred"})

WindowFull ==
    /\ pc = "fill"
    /\ to_send >= window
    /\ pc' = "send"
    /\ attempt' = 1
    /\ offset' = 0
    /\ UNCHANGED <<negotiation, transfer, to_send, result, sent>>
-----------------------------------------------------------------------------
(* send_reliably *)

SendBlock ==
    /\ pc = "send"
    /\ offset < to_send
    /\ data' = data \cup {buffers[Slot(wrapping_add(window_index, offset))]}
    /\ offset' = offset + 1
    /\ pc' = IF offset' = to_send THEN "wait" ELSE "send"
    /\ UNCHANGED <<negotiation, attempt, transfer, to_send, result, control>>

SendFails ==
    /\ pc = "send"
    /\ offset < to_send
    /\ Return("network", {"Unknown error occurred"})

\* Mutants of the guard: none, the block after the first one of the window, and
\* the block before it.
AcceptAny(ack) == TRUE

AcceptLater(ack) == ack > window_index

AcceptLast(ack) == ack >= last_acknowledged_index

\* Guard of `Ok(received_ack) if received_ack >= window_index'.
Acceptable(ack) == ack >= window_index

\* Mutant: any acknowledgement is taken for one of the whole window.
RecvAckOfWindow(ack) ==
    /\ pc = "wait"
    /\ IF Acceptable(ack)
         THEN /\ pc' = "top"
              /\ last_acknowledged_index' = last_read_index
              /\ UNCHANGED <<negotiation, attempt, last_read_index, to_send, done,
                             offset, buffers, file_pos, result, sent>>
         ELSE Return("past_ack", {"Received ACK from the past", "Unknown error occurred"})

RecvAck(ack) ==
    /\ pc = "wait"
    /\ IF Acceptable(ack)
         THEN /\ pc' = "top"
              /\ last_acknowledged_index' = ack
              /\ UNCHANGED <<negotiation, attempt, last_read_index, to_send, done,
                             offset, buffers, file_pos, result, sent>>
         ELSE Return("past_ack", {"Received ACK from the past", "Unknown error occurred"})

\* Mutant: the attempts are not counted.
AckTimeoutForEver ==
    /\ pc = "wait"
    /\ pc' = "send"
    /\ offset' = 0
    /\ UNCHANGED <<negotiation, attempt, transfer, to_send, result, sent>>

\* Mutant: the blocks are read again, from a file that only reads forward.
AckTimeoutReadsAgain ==
    /\ pc = "wait"
    /\ pc' = "fill"
    /\ to_send' = 0
    /\ last_read_index' = last_acknowledged_index
    /\ UNCHANGED <<negotiation, attempt, last_acknowledged_index, done, offset,
                   buffers, file_pos, result, sent>>

AckTimeout ==
    /\ pc = "wait"
    /\ IF attempt < SEND_ATTEMPTS
         THEN /\ pc' = "send"
              /\ attempt' = attempt + 1
              /\ offset' = 0
              /\ UNCHANGED <<negotiation, transfer, to_send, result, sent>>
         ELSE Return("timeout", {"Send timeout occurred"})

RecvClientError ==
    /\ pc = "wait"
    /\ Return("client_error", {})

\* An unknown opcode or a socket error.
RecvBroken ==
    /\ pc = "wait"
    /\ Return("network", {"Unknown error occurred"})
-----------------------------------------------------------------------------
\* Steps of the task that consume no datagram of the peer.
OwnStep ==
    \/ \E obtained \in BOOLEAN : Negotiate(obtained)
    \/ SendOack
    \/ SendOackFails
    \/ OackTimeout
    \/ LoopHead
    \/ PushBlock
    \/ ReadFails
    \/ WindowFull
    \/ SendBlock
    \/ SendFails
    \/ AckTimeout

\* Datagrams the task may receive at any time.  DatagramStream::recv drops a
\* runt datagram or one of another sender, and keeps waiting.
StrayStep ==
    \/ OackRefused
    \/ RecvClientError
    \/ RecvBroken

\* The acknowledgement n of the peer arrives.
AckStep(n) ==
    \/ RecvOackAck(n)
    \/ RecvAck(n)

SessionTypeOK ==
    /\ pc \in {"negotiate", "oack_send", "oack_wait", "top", "fill", "send", "wait", "ended"}
    /\ options \in Requests
    /\ window \in WINDOW_SIZE_CAPS
    /\ attempt \in 0 .. SEND_ATTEMPTS
    /\ last_acknowledged_index \in Index
    /\ last_read_index \in Index
    /\ to_send \in Index
    /\ done \in BOOLEAN
    /\ offset \in Index
    /\ buffers \in [0 .. window - 1 -> Datagram]
    /\ file_pos \in 0 .. Blocks
    /\ result \in Results
    /\ data \subseteq Datagram
    /\ control \subseteq Control
=============================================================================
