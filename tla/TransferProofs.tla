--------------------------- MODULE TransferProofs ---------------------------
(***************************************************************************)
(* Proofs about module Transfer, for every window size, file length,       *)
(* number of attempts and set of requests, and, in the last part, about    *)
(* TimelyTransfer.                                                         *)
(***************************************************************************)
EXTENDS TimelyTransfer, WellFoundedInduction, TLAPS

(***************************************************************************)
(* Arithmetic of the slots: indexes closer than the window use different   *)
(* slots.                                                                  *)
(***************************************************************************)

\* Reducing a number that is already below the modulus changes nothing.
LEMMA ModSmall ==
    ASSUME NEW m \in Nat, NEW x \in 0 .. m - 1
    PROVE  x % m = x
BY Z3

\* A remainder lies below the modulus: Slot yields a slot, u16 sums are u16.
LEMMA ModRange ==
    ASSUME NEW m \in Nat \ {0}, NEW x \in Int
    PROVE  x % m \in 0 .. m - 1
BY Z3

\* Two indexes less than w apart have different remainders modulo w, so that
\* Window::buffer gives them different slots.
LEMMA ModDistinct ==
    ASSUME NEW w \in Nat \ {0}, NEW a \in Nat, NEW b \in Nat, a < b, b - a < w
    PROVE  a % w # b % w
<1> DEFINE p == a \div w
           q == b \div w
<1>1. p \in Int /\ q \in Int
  OBVIOUS
<1>2. a = (w * p) + (a % w) /\ b = (w * q) + (b % w)
  OBVIOUS
<1>3. a % w \in Int /\ b % w \in Int
  OBVIOUS
<1> HIDE DEF p, q
<1>4. ASSUME a % w = b % w PROVE FALSE
  <2> DEFINE d == q - p
  <2>1. b - a = w * d
    <3>1. b - a = (w * q) - (w * p)
      BY <1>1, <1>2, <1>3, <1>4
    <3> QED BY <1>1, <3>1
  <2>2. d \in Int /\ w * d > 0 /\ w * d < w
    BY <1>1, <2>1
  <2> HIDE DEF d
  <2>3. d >= 1
    BY <2>2
  <2>4. w * d >= w
    BY <2>2, <2>3
  <2> QED BY <2>2, <2>4
<1> QED BY <1>4
-----------------------------------------------------------------------------
(***************************************************************************)
(* Type correctness.  What it needs beyond the types: the file position    *)
(* stays within the file because nothing is read once `done' is set, and   *)
(* the offset stays within the window because a send loop is entered with  *)
(* at least one block.                                                     *)
(***************************************************************************)
TypeInv ==
    /\ TypeOK
    /\ done <=> file_pos = Blocks
    /\ pc = "fill" => ~done
    /\ pc = "send" => offset < to_send
    /\ pc = "wait" => to_send > 0

\* The size that negotiate_options settles on is a legal window size.
LEMMA WindowSizeType ==
    ASSUME NEW o \in Requests
    PROVE  WindowSize(o) \in WINDOW_SIZE_CAPS
BY ConstantsAssumption DEF WindowSize, AcceptedWindow, find_in, WINDOW_SIZE_CAPS

\* u16 sums and differences are u16.
LEMMA WrappingType ==
    ASSUME NEW a \in Int, NEW b \in Int
    PROVE  wrapping_add(a, b) \in Index /\ wrapping_sub(a, b) \in Index
BY ConstantsAssumption, ModRange, a + b \in Int, a - b \in Int
   DEF wrapping_add, wrapping_sub, Index

\* Every index has a slot in the window.
LEMMA SlotType ==
    ASSUME window \in WINDOW_SIZE_CAPS, NEW i \in Int
    PROVE  Slot(i) \in 0 .. window - 1
<1>1. window \in Nat \ {0}
  BY ConstantsAssumption DEF WINDOW_SIZE_CAPS
<1> QED BY Zenon, <1>1, ModRange DEF Slot

\* The initial states are well typed.
LEMMA InitType == TransferInit => TypeInv
<1> SUFFICES ASSUME TransferInit PROVE TypeInv
  OBVIOUS
<1>1. buffers \in [0 .. window - 1 -> Datagram]
  BY ConstantsAssumption DEF TransferInit, Init, NewWindow, Datagram, Index
<1> QED BY <1>1, ConstantsAssumption
        DEF TransferInit, Init, TypeInv, TypeOK, SessionTypeOK, Index, WINDOW_SIZE_CAPS, Results

\* A return of the task, from wherever it is, keeps the types.
LEMMA ReturnType ==
    ASSUME TypeInv, NEW r \in Results, NEW errors \in SUBSET Control,
           Return(r, errors), UNCHANGED client
    PROVE  TypeInv'
BY SMTT(30) DEF TypeInv, TypeOK, SessionTypeOK, Return, negotiation, transfer, client,
       Datagram, Index, WINDOW_SIZE_CAPS

\* Every step of the session and of the client keeps the types.
LEMMA NextType == TypeInv /\ [Next]_vars => TypeInv'
<1> SUFFICES ASSUME TypeInv, [Next]_vars PROVE TypeInv'
  OBVIOUS
<1> USE ConstantsAssumption
    DEF TypeInv, TypeOK, SessionTypeOK, WINDOW_SIZE_CAPS, Datagram, Index
<1>1. CASE UNCHANGED vars
  BY <1>1 DEF vars, session, client, negotiation, transfer, sent
<1>2. CASE OwnStep /\ UNCHANGED client
  <2>1. ASSUME NEW obtained \in BOOLEAN, Negotiate(obtained) PROVE TypeInv'
    <3>1. window' \in WINDOW_SIZE_CAPS
      BY <2>1, WindowSizeType DEF Negotiate
    <3>2. buffers' \in [0 .. window' - 1 -> Datagram]
      BY <2>1 DEF Negotiate, NewWindow
    <3>3. /\ pc' \in {"oack_send", "top"} /\ pc = "negotiate"
          /\ attempt' \in 0 .. SEND_ATTEMPTS
      BY <2>1 DEF Negotiate
    <3>4. UNCHANGED <<options, last_acknowledged_index, last_read_index, to_send, done,
                      offset, file_pos, result, data, control, received, acks>>
      BY <1>2, <2>1 DEF Negotiate, client, sent
    <3> QED BY Zenon, <3>1, <3>2, <3>3, <3>4
  <2>2. CASE SendOack
    BY <1>2, <2>2 DEF SendOack, Control, client, negotiation, transfer
  <2>3. CASE SendOackFails
    BY <1>2, <2>3, ReturnType DEF SendOackFails, Results, Errors, Control
  <2>4. CASE OackTimeout
    <3>1. CASE attempt < SEND_ATTEMPTS
      <4>1. pc' = "oack_send" /\ attempt' \in 0 .. SEND_ATTEMPTS
        BY <2>4, <3>1 DEF OackTimeout
      <4>2. UNCHANGED <<negotiation, transfer, to_send, offset, result, sent, client>>
        BY <1>2, <2>4, <3>1 DEF OackTimeout
      <4> QED BY <4>1, <4>2 DEF client, negotiation, transfer, sent
    <3>2. CASE ~(attempt < SEND_ATTEMPTS)
      BY <1>2, <2>4, <3>2, ReturnType DEF OackTimeout, Results, Errors, Control
    <3> QED BY Zenon, <3>1, <3>2
  <2>5. CASE LoopHead
    <3>1. CASE done
      BY <1>2, <2>5, <3>1, ReturnType DEF LoopHead, Results, Errors, Control
    <3>2. CASE ~done
      <4>1. to_send' \in Index
        BY <2>5, <3>2, WrappingType DEF LoopHead
      <4> QED BY SMTT(30), <1>2, <2>5, <3>2, <4>1
              DEF LoopHead, client, negotiation, transfer, sent
    <3> QED BY Zenon, <3>1, <3>2
  <2>6. CASE PushBlock
    <3>1. last_read_index' \in Index
      BY <2>6, WrappingType DEF PushBlock
    <3>2. file_pos' \in 0 .. Blocks
      BY <2>6 DEF PushBlock
    <3>3. buffers' \in [0 .. window' - 1 -> Datagram]
      BY Zenon, <2>6, <3>1, <3>2 DEF PushBlock, negotiation
    <3>4. to_send' \in Index /\ to_send' > 0
      BY <2>6 DEF PushBlock
    <3>5. /\ done' \in BOOLEAN
          /\ done' <=> file_pos' = Blocks
          /\ pc' = "fill" => ~done'
          /\ pc' \in {"fill", "send"}
      BY Zenon, <2>6 DEF PushBlock
    <3>6. attempt' \in 0 .. SEND_ATTEMPTS /\ offset' \in Index
      BY SMTT(30), <2>6 DEF PushBlock
    <3>7. pc' = "send" => offset' < to_send'
      BY <2>6, <3>4 DEF PushBlock
    <3> QED BY Zenon, <1>2, <2>6, <3>1, <3>2, <3>3, <3>4, <3>5, <3>6, <3>7
            DEF PushBlock, client, negotiation, sent
  <2>7. CASE ReadFails
    BY <1>2, <2>7, ReturnType DEF ReadFails, Results, Errors, Control
  <2>8. CASE WindowFull
    BY <1>2, <2>8
       DEF WindowFull, client, negotiation, transfer, sent
  <2>9. CASE SendBlock
    <3>1. wrapping_add(window_index, offset) \in Int
      BY WrappingType DEF window_index
    <3>2. Slot(wrapping_add(window_index, offset)) \in 0 .. window - 1
      BY <3>1, SlotType
    <3>3. data' \subseteq Datagram
      BY <2>9, <3>2 DEF SendBlock
    <3> QED BY SMTT(30), <1>2, <2>9, <3>3
            DEF SendBlock, client, negotiation, transfer
  <2>10. CASE SendFails
    BY <1>2, <2>10, ReturnType DEF SendFails, Results, Errors, Control
  <2>11. CASE AckTimeout
    <3>1. CASE attempt < SEND_ATTEMPTS
      BY SMTT(30), <1>2, <2>11, <3>1
         DEF AckTimeout, client, negotiation, transfer, sent
    <3>2. CASE ~(attempt < SEND_ATTEMPTS)
      BY <1>2, <2>11, <3>2, ReturnType DEF AckTimeout, Results, Errors, Control
    <3> QED BY Zenon, <3>1, <3>2
  <2> QED BY Zenon, <1>2, <2>1, <2>2, <2>3, <2>4, <2>5, <2>6, <2>7, <2>8, <2>9, <2>10, <2>11
          DEF OwnStep
<1>3. CASE StrayStep /\ UNCHANGED client
  <2>1. CASE OackRefused
    BY Zenon, <1>3, <2>1, ReturnType DEF OackRefused, Results
  <2>2. CASE RecvClientError
    BY Zenon, <1>3, <2>2, ReturnType DEF RecvClientError, Results
  <2>3. CASE RecvBroken
    BY <1>3, <2>3, ReturnType DEF RecvBroken, Results, Errors, Control
  <2> QED BY Zenon, <1>3, <2>1, <2>2, <2>3 DEF StrayStep
<1>4. ASSUME NEW ack \in acks, AckStep(ack), UNCHANGED client PROVE TypeInv'
  <2>1. CASE RecvOackAck(ack) /\ ack = 0
    BY SMTT(30), <1>4, <2>1 DEF RecvOackAck, client, negotiation, transfer, sent
  <2>2. CASE RecvOackAck(ack) /\ ack # 0
    BY <1>4, <2>2, ReturnType DEF RecvOackAck, Results, Errors, Control
  <2>3. CASE RecvAck(ack) /\ Acceptable(ack)
    BY SMTT(30), <1>4, <2>3 DEF RecvAck, client, negotiation, sent
  <2>4. CASE RecvAck(ack) /\ ~Acceptable(ack)
    BY <1>4, <2>4, ReturnType DEF RecvAck, Results, Errors, Control
  <2> QED BY Zenon, <1>4, <2>1, <2>2, <2>3, <2>4 DEF AckStep
<1>5. ASSUME NEW datagram \in data, ClientAccept(datagram) PROVE TypeInv'
  <2>1. received' \in Seq(0 .. Blocks)
    BY <1>5 DEF ClientAccept
  <2> QED BY Zenon, <1>5, <2>1 DEF ClientAccept, session, negotiation, transfer, sent
<1>6. CASE ClientAcknowledge
  <2>1. acks' \subseteq Index
    <3>1. Len(received) % Modulus \in Index
      <4>1. Len(received) \in Int /\ Modulus \in Nat \ {0}
        OBVIOUS
      <4> QED BY Zenon, <4>1, ModRange
    <3> QED BY Zenon, <1>6, <3>1 DEF ClientAcknowledge
  <2> QED BY <1>6, <2>1 DEF ClientAcknowledge, session, negotiation, transfer, sent
<1> QED BY Zenon, <1>1, <1>2, <1>3, <1>4, <1>5, <1>6 DEF Next

\* Every reachable state is well typed: block indexes, counters and slots stay
\* within their widths, and the file is never read past its short block.
THEOREM TypeCorrect == Spec => []TypeOK
<1>1. TypeInv => TypeOK
  BY DEF TypeInv
<1> QED BY <1>1, InitType, NextType, PTL DEF Spec
-----------------------------------------------------------------------------
(***************************************************************************)
(* Safety of files that need no wrap-around of the block index.            *)
(*                                                                         *)
(* The invariant chains the counters of the two sides,                     *)
(*     last_acknowledged_index <= Len(received) <= last_read_index         *)
(*                             <= last_acknowledged_index + window,        *)
(* bounds what is on the wire by them, ties the slots to the blocks that   *)
(* are read and not acknowledged, and says that the loop comes back to its *)
(* head, and ends there, only with part of a window unacknowledged.        *)
(***************************************************************************)
NoWrap == Blocks < Modulus

Chain ==
    /\ last_read_index = file_pos
    /\ last_acknowledged_index <= Len(received)
    /\ Len(received) <= file_pos
    /\ file_pos - last_acknowledged_index <= window

Wire ==
    /\ \A a \in acks : a <= Len(received)
    /\ \A d \in data : d.index = d.block /\ d.block > 0 /\ d.block <= file_pos

Slots ==
    \A k \in last_acknowledged_index + 1 .. file_pos :
        buffers[Slot(k)] = [index |-> k, block |-> k]

Phase ==
    /\ pc \in {"negotiate", "oack_send", "oack_wait"} => file_pos = 0
    /\ pc \in {"fill", "send", "wait"} => to_send = file_pos - last_acknowledged_index
    /\ result = "sent" => pc = "ended"

Progress ==
    /\ pc = "top" => file_pos - last_acknowledged_index < window
    /\ result = "sent" => Blocks - last_acknowledged_index < window

SafeInv == Chain /\ Wire /\ Slots /\ Phase /\ Progress /\ ReceivedIsPrefix

\* What the proofs below use of the types.
LEMMA TypeFacts ==
    ASSUME TypeInv
    PROVE  /\ window \in Nat \ {0}
           /\ last_acknowledged_index \in Nat
           /\ to_send \in Nat /\ offset \in Nat
           /\ file_pos \in Nat /\ file_pos <= Blocks
           /\ received \in Seq(0 .. Blocks) /\ Len(received) \in Nat
           /\ \A a \in acks : a \in Nat
           /\ \A d \in data : d.index \in Nat /\ d.block \in Nat
           /\ buffers \in [0 .. window - 1 -> Datagram]
BY ConstantsAssumption
   DEF TypeInv, TypeOK, SessionTypeOK, WINDOW_SIZE_CAPS, Index, Datagram

\* Up to the length of the file u16 arithmetic is plain arithmetic.
LEMMA PlainIndexes ==
    ASSUME NoWrap, NEW a \in Nat, NEW b \in Nat
    PROVE  /\ a + b <= Blocks => wrapping_add(a, b) = a + b
           /\ b <= a /\ a <= Blocks => wrapping_sub(a, b) = a - b
           /\ a <= Blocks => a % Modulus = a
<1>1. ASSUME NEW x \in Nat, x <= Blocks PROVE x % Modulus = x
  BY <1>1, ModSmall, ConstantsAssumption DEF NoWrap
<1>2. a + b <= Blocks => (a + b) % Modulus = a + b
  BY <1>1
<1>3. b <= a /\ a <= Blocks => (a - b) % Modulus = a - b
  BY <1>1, ConstantsAssumption
<1> QED BY <1>1, <1>2, <1>3 DEF wrapping_add, wrapping_sub

\* The initial states satisfy the invariant.
LEMMA InitSafe == TransferInit => SafeInv
<1> SUFFICES ASSUME TransferInit PROVE SafeInv
  OBVIOUS
<1>1. Len(received) = 0
  BY DEF TransferInit
<1> QED BY <1>1 DEF TransferInit, Init, SafeInv, Chain, Wire, Slots, Phase, Progress,
                    ReceivedIsPrefix

\* A return that does not claim success keeps the invariant: it leaves the
\* counters, the window and the wire alone.
LEMMA ReturnSafe ==
    ASSUME SafeInv, NEW r, r # "sent", NEW errors, Return(r, errors), UNCHANGED client
    PROVE  SafeInv'
BY DEF SafeInv, Chain, Wire, Slots, Phase, Progress, ReceivedIsPrefix, Return,
       negotiation, transfer, client, Slot

\* A step that touches none of the counters, the slots and the wire keeps the
\* invariant, provided it keeps what is said of the place of the task.
LEMMA QuietSafe ==
    ASSUME SafeInv, Phase', Progress', UNCHANGED <<window, transfer, data, client>>
    PROVE  SafeInv'
BY DEF SafeInv, Chain, Wire, Slots, ReceivedIsPrefix, transfer, client, Slot

\* Every step of the task that consumes no datagram keeps the invariant.
LEMMA OwnStepSafe ==
    ASSUME NoWrap, TypeInv, TypeInv', SafeInv, OwnStep, UNCHANGED client
    PROVE  SafeInv'
<1> USE TypeFacts
<1>1. ASSUME NEW obtained \in BOOLEAN, Negotiate(obtained) PROVE SafeInv'
  <2>1. file_pos = 0 /\ last_acknowledged_index = 0 /\ Len(received) = 0
    BY <1>1 DEF Negotiate, SafeInv, Phase, Chain
  <2>2. /\ UNCHANGED <<file_pos, last_acknowledged_index, last_read_index, data, result, client>>
        /\ pc = "negotiate" /\ pc' \in {"oack_send", "top"}
    BY <1>1 DEF Negotiate, sent
  <2>3. UNCHANGED <<received, acks>> /\ window' \in Nat \ {0}
    BY <2>2, TypeInv' DEF client, TypeInv, TypeOK, SessionTypeOK, WINDOW_SIZE_CAPS
  <2>4. Chain' /\ Wire' /\ Slots' /\ ReceivedIsPrefix'
    BY <2>1, <2>2, <2>3 DEF SafeInv, Chain, Wire, Slots, ReceivedIsPrefix
  <2>5. Phase' /\ Progress'
    BY <2>1, <2>2, <2>3 DEF SafeInv, Phase, Progress
  <2> QED BY <2>4, <2>5 DEF SafeInv
<1>2. CASE SendOack
  BY <1>2, QuietSafe DEF SendOack, negotiation, transfer, client, SafeInv, Phase, Progress
<1>3. CASE SendOackFails
  BY <1>3, ReturnSafe DEF SendOackFails
<1>4. CASE OackTimeout
  <2>1. CASE attempt < SEND_ATTEMPTS
    BY <1>4, <2>1, QuietSafe
       DEF OackTimeout, negotiation, transfer, sent, client, SafeInv, Phase, Progress
  <2> QED BY <1>4, <2>1, ReturnSafe DEF OackTimeout
<1>5. CASE LoopHead
  <2>1. CASE ~done
    <3>1. to_send' = file_pos - last_acknowledged_index
      BY <1>5, <2>1, PlainIndexes DEF LoopHead, SafeInv, Chain
    <3> QED BY <1>5, <2>1, <3>1, QuietSafe
            DEF LoopHead, negotiation, transfer, sent, client, SafeInv, Phase, Progress
  <2>2. CASE done
    <3>1. Blocks - last_acknowledged_index < window
      BY <1>5, <2>2 DEF LoopHead, SafeInv, Progress, TypeInv
    <3> QED BY <1>5, <2>2, <3>1, QuietSafe
            DEF LoopHead, Return, negotiation, transfer, client, SafeInv, Phase, Progress
  <2> QED BY <2>1, <2>2
<1>6. CASE PushBlock
  <2> DEFINE k == file_pos + 1
  <2>1. /\ k <= Blocks
        /\ file_pos - last_acknowledged_index < window
        /\ last_acknowledged_index <= file_pos
    BY SMTT(30), <1>6, ConstantsAssumption DEF PushBlock, TypeInv, SafeInv, Chain, Phase
  <2>2. last_read_index' = k /\ file_pos' = k
    BY <1>6, <2>1, PlainIndexes DEF PushBlock, SafeInv, Chain
  <2>3. UNCHANGED <<window, last_acknowledged_index, data, result, received, acks>>
    BY <1>6 DEF PushBlock, negotiation, sent, client
  <2>4. Chain' /\ Wire' /\ ReceivedIsPrefix'
    BY <2>1, <2>2, <2>3 DEF SafeInv, Chain, Wire, ReceivedIsPrefix
  <2>5. Slots'
    <3>0. window \in WINDOW_SIZE_CAPS /\ k \in Int
      BY DEF TypeInv, TypeOK, SessionTypeOK
    <3>1. Slot(k) \in 0 .. window - 1
      BY <3>0, SlotType
    <3>2. buffers' = [buffers EXCEPT ![Slot(k)] = [index |-> k, block |-> k]]
      BY Zenon, <1>6, <2>2 DEF PushBlock
    <3>3. buffers'[Slot(k)] = [index |-> k, block |-> k]
      BY <3>1, <3>2
    <3>4. ASSUME NEW j \in last_acknowledged_index + 1 .. file_pos
          PROVE  buffers'[Slot(j)] = [index |-> j, block |-> j]
      <4>1. Slot(j) # Slot(k)
        <5>1. j \in Nat /\ k \in Nat /\ j < k /\ k - j < window
          BY <2>1
        <5> QED BY SMTT(30), <5>1, ModDistinct DEF Slot
      <4>2. Slot(j) \in 0 .. window - 1
        BY <3>0, SlotType, j \in Int
      <4> QED BY Zenon, <3>1, <3>2, <4>1, <4>2 DEF SafeInv, Slots
    <3>5. ASSUME NEW j \in last_acknowledged_index + 1 .. k
          PROVE  buffers'[Slot(j)] = [index |-> j, block |-> j]
      <4>1. j = k \/ j \in last_acknowledged_index + 1 .. file_pos
        OBVIOUS
      <4> QED BY <3>3, <3>4, <4>1
    <3> QED BY <2>2, <2>3, <3>5 DEF Slots, Slot
  <2>6. Phase' /\ Progress'
    BY SMTT(30), <1>6, <2>1, <2>2, <2>3 DEF PushBlock, SafeInv, Phase, Progress
  <2> QED BY <2>4, <2>5, <2>6 DEF SafeInv
<1>7. CASE ReadFails
  BY <1>7, ReturnSafe DEF ReadFails
<1>8. CASE WindowFull
  BY <1>8, QuietSafe
     DEF WindowFull, negotiation, transfer, sent, client, SafeInv, Phase, Progress
<1>9. CASE SendBlock
  <2> DEFINE k == last_acknowledged_index + 1 + offset
  <2>1. k \in last_acknowledged_index + 1 .. file_pos /\ k <= Blocks
    <3>1. offset < to_send
      BY <1>9 DEF SendBlock
    <3>2. to_send = file_pos - last_acknowledged_index
      BY <1>9 DEF SendBlock, SafeInv, Phase
    <3> QED BY <3>1, <3>2, ConstantsAssumption
  <2>2. wrapping_add(window_index, offset) = k
    <3>1. window_index = last_acknowledged_index + 1
      BY <2>1, PlainIndexes, ConstantsAssumption, last_acknowledged_index + 1 <= Blocks
         DEF window_index
    <3>2. last_acknowledged_index + 1 \in Nat /\ last_acknowledged_index + 1 + offset <= Blocks
      BY <2>1
    <3> QED BY <3>1, <3>2, PlainIndexes
  <2>3. data' = data \cup {[index |-> k, block |-> k]}
    BY Zenon, <1>9, <2>1, <2>2 DEF SendBlock, SafeInv, Slots
  <2>4. UNCHANGED <<window, last_acknowledged_index, last_read_index, file_pos, buffers,
                    to_send, result, received, acks>>
    BY <1>9 DEF SendBlock, negotiation, transfer, client
  <2>5. Chain' /\ Wire' /\ Slots' /\ ReceivedIsPrefix'
    BY SMTT(30), <2>1, <2>3, <2>4 DEF SafeInv, Chain, Wire, Slots, Slot, ReceivedIsPrefix
  <2>6. Phase' /\ Progress'
    BY <1>9, <2>4 DEF SendBlock, SafeInv, Phase, Progress
  <2> QED BY <2>5, <2>6 DEF SafeInv
<1>10. CASE SendFails
  BY <1>10, ReturnSafe DEF SendFails
<1>11. CASE AckTimeout
  <2>1. CASE attempt < SEND_ATTEMPTS
    BY <1>11, <2>1, QuietSafe
       DEF AckTimeout, negotiation, transfer, sent, client, SafeInv, Phase, Progress
  <2> QED BY ZenonT(30), <1>11, <2>1, ReturnSafe DEF AckTimeout
<1> QED BY <1>1, <1>2, <1>3, <1>4, <1>5, <1>6, <1>7, <1>8, <1>9, <1>10, <1>11 DEF OwnStep

\* An acknowledgement the session accepts is one the client sent, so that the
\* window moves forward and not beyond what the client holds.
LEMMA AckStepSafe ==
    ASSUME NoWrap, TypeInv, SafeInv, NEW ack \in acks, AckStep(ack), UNCHANGED client
    PROVE  SafeInv'
<1> USE TypeFacts
<1>1. CASE RecvOackAck(ack)
  <2>1. CASE ack = 0
    <3>1. file_pos = 0 => last_acknowledged_index = file_pos
      BY DEF SafeInv, Chain
    <3> QED BY <1>1, <2>1, <3>1, QuietSafe
            DEF RecvOackAck, negotiation, transfer, sent, client, SafeInv, Phase, Progress
  <2> QED BY ZenonT(30), <1>1, <2>1, ReturnSafe DEF RecvOackAck
<1>2. CASE RecvAck(ack) /\ Acceptable(ack)
  <2>1. to_send > 0 /\ to_send = file_pos - last_acknowledged_index
    BY <1>2 DEF RecvAck, TypeInv, SafeInv, Phase
  <2>2. window_index = last_acknowledged_index + 1
    <3>1. last_acknowledged_index + 1 <= Blocks
      BY <2>1, ConstantsAssumption
    <3> QED BY <3>1, PlainIndexes DEF window_index
  <2>3. ack > last_acknowledged_index /\ ack <= Len(received)
    BY <1>2, <2>2 DEF Acceptable, SafeInv, Wire
  <2>4. /\ UNCHANGED <<window, last_read_index, file_pos, buffers, data, result, received, acks>>
        /\ last_acknowledged_index' = ack /\ pc' = "top"
    BY <1>2 DEF RecvAck, negotiation, sent, client
  <2>5. Chain' /\ Wire' /\ Slots' /\ ReceivedIsPrefix'
    BY SMTT(30), <2>3, <2>4 DEF SafeInv, Chain, Wire, Slots, Slot, ReceivedIsPrefix
  <2>6. Phase' /\ Progress'
    BY <1>2, <2>3, <2>4 DEF RecvAck, SafeInv, Chain, Phase, Progress
  <2> QED BY <2>5, <2>6 DEF SafeInv
<1>3. CASE RecvAck(ack) /\ ~Acceptable(ack)
  BY <1>3, ReturnSafe DEF RecvAck
<1> QED BY <1>1, <1>2, <1>3 DEF AckStep

\* A datagram the client accepts is the next block of the file: datagrams are
\* numbered like the blocks they carry.
LEMMA ClientAcceptSafe ==
    ASSUME NoWrap, TypeInv, SafeInv, NEW datagram \in data, ClientAccept(datagram)
    PROVE  SafeInv'
<1> USE TypeFacts
<1> DEFINE n == Len(received)
<1>1. n < Blocks
  <2>1. SUFFICES ASSUME n = Blocks PROVE FALSE
    BY ConstantsAssumption DEF SafeInv, Chain
  <2>2. received # << >> /\ received[n] = Blocks
    BY <2>1, ConstantsAssumption DEF SafeInv, ReceivedIsPrefix
  <2> QED BY <2>2 DEF ClientAccept, Complete
<1>2. (n + 1) % Modulus = n + 1
  BY <1>1, PlainIndexes, ConstantsAssumption, n + 1 \in Nat, n + 1 <= Blocks
<1>3. datagram.block = n + 1 /\ n + 1 <= file_pos
  BY <1>2 DEF ClientAccept, SafeInv, Wire
<1>4. UNCHANGED <<pc, window, transfer, to_send, result, data, acks>>
  BY DEF ClientAccept, session, negotiation, sent
<1>5. received' = Append(received, n + 1) /\ Len(received') = n + 1
  BY <1>3 DEF ClientAccept
<1>6. ReceivedIsPrefix'
  <2>1. ASSUME NEW i \in 1 .. n + 1 PROVE received'[i] = i
    BY <1>5 DEF SafeInv, ReceivedIsPrefix
  <2> QED BY <1>5, <2>1 DEF ReceivedIsPrefix
<1>7. Chain' /\ Wire' /\ Slots'
  BY <1>3, <1>4, <1>5 DEF SafeInv, Chain, Wire, Slots, Slot, transfer
<1>8. Phase' /\ Progress'
  BY <1>1, <1>4, <1>5 DEF SafeInv, Phase, Progress, transfer
<1> QED BY <1>6, <1>7, <1>8 DEF SafeInv

\* Every step keeps the invariant.
LEMMA NextSafe ==
    ASSUME NoWrap, TypeInv, TypeInv', SafeInv, [Next]_vars
    PROVE  SafeInv'
<1>1. CASE UNCHANGED vars
  <2>1. UNCHANGED <<pc, window, transfer, to_send, result, data, client>>
    BY <1>1 DEF vars, session, negotiation, sent
  <2> QED BY <2>1, QuietSafe DEF SafeInv, Phase, Progress, transfer, client
<1>2. CASE OwnStep /\ UNCHANGED client
  BY <1>2, OwnStepSafe
<1>3. CASE StrayStep /\ UNCHANGED client
  BY ZenonT(30), <1>3, ReturnSafe DEF StrayStep, OackRefused, RecvClientError, RecvBroken
<1>4. ASSUME NEW ack \in acks, AckStep(ack), UNCHANGED client PROVE SafeInv'
  BY <1>4, AckStepSafe
<1>5. ASSUME NEW datagram \in data, ClientAccept(datagram) PROVE SafeInv'
  BY SMTT(30), <1>5, ClientAcceptSafe
<1>6. CASE ClientAcknowledge
  <2>1. UNCHANGED <<pc, window, transfer, to_send, result, data, received>>
    BY <1>6 DEF ClientAcknowledge, session, negotiation, sent
  <2>2. Len(received) % Modulus = Len(received)
    <3>1. Len(received) \in Nat /\ Len(received) <= Blocks
      BY TypeFacts, ConstantsAssumption DEF SafeInv, Chain
    <3> QED BY <3>1, PlainIndexes
  <2>3. Wire'
    BY <1>6, <2>1, <2>2, TypeFacts DEF ClientAcknowledge, SafeInv, Wire, transfer
  <2> QED BY Zenon, <2>1, <2>3
          DEF SafeInv, Chain, Slots, Slot, Phase, Progress, ReceivedIsPrefix, transfer
<1> QED BY <1>1, <1>2, <1>3, <1>4, <1>5, <1>6 DEF Next

\* The two invariants hold in every reachable state of a file without wrap-around.
LEMMA SafeInvariance ==
    ASSUME NoWrap
    PROVE  Spec => [](TypeInv /\ SafeInv)
<1>1. TransferInit => TypeInv /\ SafeInv
  BY InitType, InitSafe
<1>2. TypeInv /\ SafeInv /\ [Next]_vars => (TypeInv /\ SafeInv)'
  BY NextType, NextSafe
<1> QED BY <1>1, <1>2, PTL DEF Spec
-----------------------------------------------------------------------------
(***************************************************************************)
(* The results.                                                            *)
(***************************************************************************)

\* In terms of the invariant: what the session counts as acknowledged.
LEMMA PlainAcknowledged ==
    ASSUME NoWrap, TypeInv, SafeInv
    PROVE  /\ Unacknowledged = file_pos - last_acknowledged_index
           /\ Acknowledged = last_acknowledged_index
<1>1. /\ last_read_index = file_pos /\ file_pos \in Nat /\ file_pos <= Blocks
      /\ last_acknowledged_index \in Nat /\ last_acknowledged_index <= file_pos
  BY TypeFacts DEF SafeInv, Chain
<1>2. Unacknowledged = file_pos - last_acknowledged_index
  BY <1>1, PlainIndexes DEF Unacknowledged
<1> QED BY <1>1, <1>2 DEF Acknowledged

\* The assertions of send_file hold: a window is never larger than negotiated,
\* whatever acknowledgements are lost, repeated, delayed or reordered.
THEOREM WindowBoundHolds ==
    ASSUME NoWrap
    PROVE  Spec => []WindowBound
<1>1. TypeInv /\ SafeInv => WindowBound
  BY TypeFacts DEF SafeInv, Chain, Phase, WindowBound
<1> QED BY <1>1, SafeInvariance, PTL

\* The session drops a block from its window only if the client holds it.
THEOREM AcknowledgedIsReceivedHolds ==
    ASSUME NoWrap
    PROVE  Spec => []AcknowledgedIsReceived
<1>1. TypeInv /\ SafeInv => AcknowledgedIsReceived
  BY TypeFacts, PlainAcknowledged DEF SafeInv, Chain, AcknowledgedIsReceived
<1> QED BY <1>1, SafeInvariance, PTL

\* push_block never overwrites a block that may have to be sent again.
THEOREM WindowIntactHolds ==
    ASSUME NoWrap
    PROVE  Spec => []WindowIntact
<1>1. ASSUME TypeInv, SafeInv PROVE WindowIntact
  <2>1. SUFFICES ASSUME NEW i \in 1 .. file_pos - last_acknowledged_index
                 PROVE  LET index == wrapping_add(last_acknowledged_index, i)
                        IN  buffers[Slot(index)] =
                                [index |-> index, block |-> last_acknowledged_index + i]
    BY <1>1, PlainAcknowledged DEF WindowIntact
  <2>2. /\ i \in Nat
        /\ last_acknowledged_index + i \in last_acknowledged_index + 1 .. file_pos
        /\ last_acknowledged_index + i <= Blocks
    BY <1>1, <2>1, TypeFacts, ConstantsAssumption
  <2>3. wrapping_add(last_acknowledged_index, i) = last_acknowledged_index + i
    BY <1>1, <2>2, TypeFacts, PlainIndexes
  <2> QED BY <1>1, <2>2, <2>3 DEF SafeInv, Slots
<1>2. TypeInv /\ SafeInv => WindowIntact
  BY <1>1
<1> QED BY <1>2, SafeInvariance, PTL

\* The client assembles a prefix of the file.
THEOREM ReceivedIsPrefixHolds ==
    ASSUME NoWrap
    PROVE  Spec => []ReceivedIsPrefix
<1>1. SafeInv => ReceivedIsPrefix
  BY DEF SafeInv
<1> QED BY <1>1, SafeInvariance, PTL

\* The session never takes the newest acknowledgement of the client for an old one.
THEOREM FreshAckAcceptedHolds ==
    ASSUME NoWrap
    PROVE  Spec => []FreshAckAccepted
<1>1. ASSUME TypeInv, SafeInv, pc = "wait", Len(received) > Acknowledged
      PROVE  Acceptable(Len(received) % Modulus)
  <2>1. /\ last_acknowledged_index \in Nat /\ Len(received) \in Nat
        /\ last_acknowledged_index < Len(received) /\ Len(received) <= Blocks
    BY <1>1, TypeFacts, PlainAcknowledged, ConstantsAssumption DEF SafeInv, Chain
  <2>2. Len(received) % Modulus = Len(received)
    BY <2>1, PlainIndexes
  <2>3. window_index = last_acknowledged_index + 1
    <3>1. last_acknowledged_index + 1 <= Blocks
      BY <2>1, ConstantsAssumption
    <3> QED BY <2>1, <3>1, PlainIndexes DEF window_index
  <2> QED BY <2>1, <2>2, <2>3 DEF Acceptable
<1>2. TypeInv /\ SafeInv => FreshAckAccepted
  BY <1>1 DEF FreshAckAccepted
<1> QED BY <1>2, SafeInvariance, PTL

\* A session that sends one block at a time reports success only for a file
\* that the client holds as a whole.
THEOREM LockStepCompleteHolds ==
    ASSUME NoWrap
    PROVE  Spec => []LockStepComplete
<1>1. ASSUME TypeInv, SafeInv PROVE LockStepComplete
  <2>1. SUFFICES ASSUME window = 1, result = "sent" PROVE Complete
    BY DEF LockStepComplete, SentIsComplete
  <2>2. Len(received) = Blocks /\ Blocks \in Nat \ {0}
    BY <1>1, <2>1, TypeFacts, ConstantsAssumption DEF SafeInv, Chain, Progress
  <2> QED BY <1>1, <2>2, TypeFacts DEF Complete, SafeInv, ReceivedIsPrefix
<1>2. TypeInv /\ SafeInv => LockStepComplete
  BY <1>1
<1> QED BY <1>2, SafeInvariance, PTL

\* No acknowledgement moves the window back.
THEOREM ForwardOnlyHolds ==
    ASSUME NoWrap
    PROVE  Spec => ForwardOnly
<1>1. TypeInv /\ SafeInv => Acknowledged = last_acknowledged_index
  BY PlainAcknowledged
<1>2. (TypeInv /\ SafeInv)' => (Acknowledged = last_acknowledged_index)'
  BY <1>1, PTL
<1>3. ASSUME TypeInv, SafeInv, [Next]_vars
      PROVE  last_acknowledged_index' >= last_acknowledged_index
  <2>1. ASSUME NEW ack \in acks, RecvAck(ack), Acceptable(ack)
        PROVE  last_acknowledged_index' >= last_acknowledged_index
    <3>1. last_acknowledged_index + 1 <= Blocks
      <4>1. to_send > 0 /\ to_send = file_pos - last_acknowledged_index
        BY <1>3, <2>1 DEF RecvAck, TypeInv, SafeInv, Phase
      <4> QED BY <1>3, <4>1, TypeFacts, ConstantsAssumption
    <3>2. window_index = last_acknowledged_index + 1
      BY <1>3, <3>1, TypeFacts, PlainIndexes DEF window_index
    <3> QED BY <1>3, <2>1, <3>2, TypeFacts DEF RecvAck, Acceptable
  <2>2. CASE UNCHANGED last_acknowledged_index
    BY <1>3, <2>2, TypeFacts
  <2>3. ASSUME NEW ack \in acks, AckStep(ack), UNCHANGED client
        PROVE  \/ RecvAck(ack) /\ Acceptable(ack)
               \/ UNCHANGED last_acknowledged_index
    BY ZenonT(30), <2>3 DEF AckStep, RecvAck, RecvOackAck, Return, transfer
  <2>4. CASE OwnStep
    BY Zenon, <2>4, <2>2 DEF OwnStep, Negotiate, SendOack, SendOackFails, OackTimeout, LoopHead,
       PushBlock, ReadFails, WindowFull, SendBlock, SendFails, AckTimeout, Return, transfer
  <2>5. CASE StrayStep
    BY <2>5, <2>2 DEF StrayStep, OackRefused, RecvClientError, RecvBroken, Return, transfer
  <2>6. CASE ClientAcknowledge \/ (\E datagram \in data : ClientAccept(datagram))
    BY <2>6, <2>2 DEF ClientAcknowledge, ClientAccept, session, transfer
  <2>7. CASE UNCHANGED vars
    BY <2>7, <2>2 DEF vars, session, transfer
  <2> QED BY <1>3, <2>1, <2>2, <2>3, <2>4, <2>5, <2>6, <2>7 DEF Next
<1>4. /\ TypeInv /\ SafeInv /\ (TypeInv /\ SafeInv)' /\ [Next]_vars
      => [Sending /\ Sending' => Acknowledged' >= Acknowledged]_vars
  BY <1>1, <1>2, <1>3
<1> QED BY <1>4, SafeInvariance, PTL DEF Spec, ForwardOnly
-----------------------------------------------------------------------------
(***************************************************************************)
(* Transfer implements Delivery.  Every step of the session or the client  *)
(* is a step of Delivery or leaves its variables alone: what the session   *)
(* counts as acknowledged is last_acknowledged_index, before and after.    *)
(***************************************************************************)

\* A step that moves neither the client's blocks nor the session's counters,
\* and leaves the task running or ended as it was, is no step of Delivery.
LEMMA QuietDelivery ==
    ASSUME Acknowledged = last_acknowledged_index,
           Acknowledged' = last_acknowledged_index',
           UNCHANGED <<window, last_acknowledged_index, received, result>>,
           pc = "ended" <=> pc' = "ended"
    PROVE  UNCHANGED D!vars
BY DEF D!vars, Outcome

\* A return that does not claim success is a failure for Delivery.
LEMMA ReturnDelivery ==
    ASSUME Acknowledged = last_acknowledged_index,
           Acknowledged' = last_acknowledged_index',
           pc # "ended", NEW r, r # "sent", NEW errors, Return(r, errors), UNCHANGED client
    PROVE  D!Next
<1>1. UNCHANGED <<window, last_acknowledged_index, received>>
      /\ Outcome = "open" /\ Outcome' = "failed"
  BY DEF Return, negotiation, transfer, client, Outcome
<1> QED BY <1>1 DEF D!Next, D!Fail

\* A step of the task on its own.
LEMMA OwnStepDelivery ==
    ASSUME Acknowledged = last_acknowledged_index,
           Acknowledged' = last_acknowledged_index',
           TypeInv, SafeInv, TypeInv', OwnStep, UNCHANGED client
    PROVE  [D!Next]_(D!vars)
<1>1. ASSUME NEW obtained \in BOOLEAN, Negotiate(obtained) PROVE D!Next
  <2>1. received = << >>
    <3>1. Len(received) = 0
      BY <1>1, TypeFacts DEF Negotiate, SafeInv, Phase, Chain
    <3> QED BY <3>1, TypeFacts
  <2>2. window' \in Nat \ {0}
    BY ConstantsAssumption DEF TypeInv, TypeOK, SessionTypeOK, WINDOW_SIZE_CAPS
  <2>3. /\ UNCHANGED <<last_acknowledged_index, received, result>>
        /\ Outcome = "open" /\ Outcome' = "open"
    BY <1>1 DEF Negotiate, client, Outcome
  <2> QED BY <2>1, <2>2, <2>3 DEF D!Next, D!Agree
<1>2. CASE SendOack \/ WindowFull \/ SendBlock
  BY <1>2, QuietDelivery
     DEF SendOack, WindowFull, SendBlock, negotiation, transfer, client
<1>3. CASE PushBlock
  BY <1>3, QuietDelivery DEF PushBlock, negotiation, client
<1>4. CASE LoopHead /\ ~done
  BY <1>4, QuietDelivery DEF LoopHead, negotiation, transfer, client
<1>5. CASE LoopHead /\ done
  <2>1. Blocks - last_acknowledged_index < window
    BY <1>5 DEF LoopHead, TypeInv, SafeInv, Progress
  <2>2. /\ UNCHANGED <<window, last_acknowledged_index, received>>
        /\ Outcome = "open" /\ Outcome' = "sent"
    BY <1>5 DEF LoopHead, Return, negotiation, transfer, client, Outcome
  <2> QED BY <2>1, <2>2 DEF D!Next, D!Succeed
<1>6. CASE (OackTimeout \/ AckTimeout) /\ attempt < SEND_ATTEMPTS
  BY <1>6, QuietDelivery DEF OackTimeout, AckTimeout, negotiation, transfer, client
<1>7. CASE (OackTimeout \/ AckTimeout) /\ ~(attempt < SEND_ATTEMPTS)
  BY ZenonT(30), <1>7, ReturnDelivery DEF OackTimeout, AckTimeout
<1>8. CASE SendOackFails \/ ReadFails \/ SendFails
  BY ZenonT(30), <1>8, ReturnDelivery DEF SendOackFails, ReadFails, SendFails
<1> QED BY <1>1, <1>2, <1>3, <1>4, <1>5, <1>6, <1>7, <1>8 DEF OwnStep

\* The acknowledgement of the client arrives.
LEMMA AckStepDelivery ==
    ASSUME NoWrap, Acknowledged = last_acknowledged_index,
           Acknowledged' = last_acknowledged_index',
           TypeInv, SafeInv, NEW ack \in acks, AckStep(ack), UNCHANGED client
    PROVE  [D!Next]_(D!vars)
<1> USE TypeFacts
<1>1. CASE RecvOackAck(ack) /\ ack = 0
  BY <1>1, QuietDelivery DEF RecvOackAck, negotiation, transfer, client
<1>2. CASE RecvOackAck(ack) /\ ack # 0
  BY ZenonT(30), <1>2, ReturnDelivery DEF RecvOackAck
<1>3. CASE RecvAck(ack) /\ ~Acceptable(ack)
  BY ZenonT(30), <1>3, ReturnDelivery DEF RecvAck
<1>4. CASE RecvAck(ack) /\ Acceptable(ack)
  <2>1. to_send > 0 /\ to_send = file_pos - last_acknowledged_index
    BY <1>4 DEF RecvAck, TypeInv, SafeInv, Phase
  <2>2. window_index = last_acknowledged_index + 1
    <3>1. last_acknowledged_index + 1 <= Blocks
      BY <2>1, ConstantsAssumption
    <3> QED BY <3>1, PlainIndexes DEF window_index
  <2>3. ack \in last_acknowledged_index + 1 .. Len(received)
    BY <1>4, <2>2 DEF Acceptable, SafeInv, Wire
  <2>4. /\ UNCHANGED <<window, received>> /\ last_acknowledged_index' = ack
        /\ Outcome = "open" /\ Outcome' = "open"
    BY <1>4 DEF RecvAck, negotiation, client, Outcome
  <2> QED BY <2>3, <2>4 DEF D!Next, D!Confirm
<1> QED BY <1>1, <1>2, <1>3, <1>4 DEF AckStep

\* Every step is a step of Delivery, or none.
LEMMA NextDelivery ==
    ASSUME NoWrap, Acknowledged = last_acknowledged_index,
           Acknowledged' = last_acknowledged_index',
           TypeInv, SafeInv, TypeInv', [Next]_vars
    PROVE  [D!Next]_(D!vars)
<1>1. CASE UNCHANGED vars
  BY <1>1, QuietDelivery DEF vars, session, negotiation, transfer, client
<1>2. CASE OwnStep /\ UNCHANGED client
  BY <1>2, OwnStepDelivery
<1>3. CASE StrayStep /\ UNCHANGED client
  BY ZenonT(30), <1>3, ReturnDelivery DEF StrayStep, OackRefused, RecvClientError, RecvBroken
<1>4. ASSUME NEW ack \in acks, AckStep(ack), UNCHANGED client PROVE [D!Next]_(D!vars)
  BY <1>4, AckStepDelivery
<1>5. ASSUME NEW datagram \in data, ClientAccept(datagram) PROVE D!Next
  <2> USE TypeFacts
  <2> DEFINE n == Len(received)
  <2>1. n < Blocks
    <3>1. SUFFICES ASSUME n = Blocks PROVE FALSE
      BY ConstantsAssumption DEF SafeInv, Chain
    <3>2. received # << >> /\ received[n] = Blocks
      BY <3>1, ConstantsAssumption DEF SafeInv, ReceivedIsPrefix
    <3> QED BY <1>5, <3>2 DEF ClientAccept, Complete
  <2>2. (n + 1) % Modulus = n + 1
    BY <2>1, PlainIndexes, ConstantsAssumption, n + 1 \in Nat, n + 1 <= Blocks
  <2>3. datagram.block = n + 1 /\ n + 1 <= file_pos
    BY <1>5, <2>2 DEF ClientAccept, SafeInv, Wire
  <2>4. n < last_acknowledged_index + window
    BY <2>3 DEF SafeInv, Chain
  <2>5. /\ received' = Append(received, n + 1)
        /\ UNCHANGED <<window, last_acknowledged_index, pc, result>>
    BY <1>5, <2>3 DEF ClientAccept, session, negotiation, transfer
  <2> QED BY <2>1, <2>4, <2>5 DEF D!Next, D!Deliver, Outcome
<1>6. CASE ClientAcknowledge
  BY <1>6, QuietDelivery DEF ClientAcknowledge, session, negotiation, transfer
<1> QED BY <1>1, <1>2, <1>3, <1>4, <1>5, <1>6 DEF Next

\* The session and its client implement module Delivery, for every window size,
\* file length and number of attempts, whatever the network does to datagrams.
THEOREM ImplementsDeliveryHolds ==
    ASSUME NoWrap
    PROVE  Spec => ImplementsDelivery
<1>1. TypeInv /\ SafeInv => Acknowledged = last_acknowledged_index
  BY PlainAcknowledged
<1>2. (TypeInv /\ SafeInv)' => (Acknowledged = last_acknowledged_index)'
  BY <1>1, PTL
<1>3. TransferInit => D!Init
  <2> SUFFICES ASSUME TransferInit PROVE D!Init
    OBVIOUS
  <2>1. Acknowledged = last_acknowledged_index
    BY <1>1, InitType, InitSafe
  <2> QED BY <2>1 DEF TransferInit, Init, D!Init, Outcome
<1>4. TypeInv /\ SafeInv /\ (TypeInv /\ SafeInv)' /\ [Next]_vars => [D!Next]_(D!vars)
  BY <1>1, <1>2, NextDelivery
<1> QED BY <1>3, <1>4, SafeInvariance, PTL DEF Spec, ImplementsDelivery, D!Spec
-----------------------------------------------------------------------------
(***************************************************************************)
(* The OACK handshake, with or without wrap-around.                        *)
(***************************************************************************)
HandshakeInv ==
    /\ pc = "negotiate" => control = {}
    /\ pc \in {"negotiate", "oack_send", "oack_wait"} => data = {}
    /\ "OACK" \in control /\ (Sending \/ data # {}) => 0 \in acks

\* No DATA leaves before the client acknowledged the OACK.
THEOREM DataAfterOackAcknowledgedHolds == Spec => []DataAfterOackAcknowledged
<1>1. TransferInit => HandshakeInv
  BY DEF TransferInit, Init, HandshakeInv, Sending
<1>2. ASSUME HandshakeInv, [Next]_vars PROVE HandshakeInv'
  <2> USE DEF HandshakeInv, Sending
  <2>0. ASSUME NEW r, NEW errors, "OACK" \notin errors, Return(r, errors), UNCHANGED client
        PROVE  HandshakeInv'
    BY <1>2, <2>0 DEF Return, client
  <2>1. CASE OwnStep /\ UNCHANGED client
    <3>1. ASSUME NEW obtained \in BOOLEAN, Negotiate(obtained) PROVE HandshakeInv'
      BY <1>2, <2>1, <3>1 DEF Negotiate, sent, client
    <3>2. CASE SendOack
      BY <1>2, <2>1, <3>2 DEF SendOack, client
    <3>3. CASE OackTimeout \/ AckTimeout
      BY <1>2, <2>0, <2>1, <3>3 DEF OackTimeout, AckTimeout, sent, client
    <3>4. CASE LoopHead
      BY <1>2, <2>0, <2>1, <3>4 DEF LoopHead, sent, client
    <3>5. CASE PushBlock \/ WindowFull
      BY <1>2, <2>1, <3>5 DEF PushBlock, WindowFull, sent, client
    <3>6. CASE SendBlock
      BY <1>2, <2>1, <3>6 DEF SendBlock, client
    <3>7. CASE SendOackFails \/ ReadFails \/ SendFails
      BY <2>0, <2>1, <3>7 DEF SendOackFails, ReadFails, SendFails
    <3> QED BY <2>1, <3>1, <3>2, <3>3, <3>4, <3>5, <3>6, <3>7 DEF OwnStep
  <2>2. CASE StrayStep /\ UNCHANGED client
    BY <2>0, <2>2 DEF StrayStep, OackRefused, RecvClientError, RecvBroken
  <2>3. ASSUME NEW ack \in acks, AckStep(ack), UNCHANGED client PROVE HandshakeInv'
    <3>1. CASE RecvOackAck(ack) /\ ack = 0
      BY <1>2, <2>3, <3>1 DEF RecvOackAck, sent, client
    <3>2. CASE RecvAck(ack) /\ Acceptable(ack)
      BY <1>2, <2>3, <3>2 DEF RecvAck, sent, client
    <3> QED BY <2>0, <2>3, <3>1, <3>2 DEF AckStep, RecvOackAck, RecvAck
  <2>4. CASE ClientAcknowledge \/ (\E datagram \in data : ClientAccept(datagram))
    BY <1>2, <2>4 DEF ClientAcknowledge, ClientAccept, session, sent
  <2>5. CASE UNCHANGED vars
    BY <1>2, <2>5 DEF vars, session, sent, client
  <2> QED BY <1>2, <2>1, <2>2, <2>3, <2>4, <2>5 DEF Next
<1>3. HandshakeInv => DataAfterOackAcknowledged
  BY DEF HandshakeInv, DataAfterOackAcknowledged
<1> QED BY <1>1, <1>2, <1>3, PTL DEF Spec
-----------------------------------------------------------------------------
(***************************************************************************)
(* Why a session ends.  Every step of the task, whatever the client and    *)
(* the network do, lowers a rank in a well-founded order: first the stage  *)
(* of the session counts, then the blocks not yet acknowledged, the part   *)
(* of the loop of send_file, the blocks not yet read, the attempts left,   *)
(* and what an attempt still has to do.                                    *)
(***************************************************************************)
Stage ==
    CASE pc = "negotiate"                -> 3
      [] pc \in {"oack_send", "oack_wait"} -> 2
      [] Sending                         -> 1
      [] OTHER                           -> 0

Part == CASE pc = "top" -> 2 [] pc = "fill" -> 1 [] OTHER -> 0

Remaining == CASE pc = "oack_send" -> 1 [] pc = "send" -> to_send - offset [] OTHER -> 0

Rank == <<Stage, Blocks - last_acknowledged_index, Part, Blocks - file_pos,
          SEND_ATTEMPTS - attempt, Remaining>>

\* The lexicographic order of ranks.
Lower == LexProductOrdering(OpToRel(<, Nat), Nat, 6)

\* No descent in that order goes on for ever.
LEMMA LowerWellFounded == IsWellFoundedOn(Lower, [1 .. 6 -> Nat])
BY NatLessThanWellFounded, WFLexProductOrdering DEF Lower

\* One rank is lower than another at the first place where they differ.
LEMMA LowerAt ==
    ASSUME NEW r \in [1 .. 6 -> Nat], NEW s \in [1 .. 6 -> Nat], NEW j \in 1 .. 6,
           \A i \in 1 .. j - 1 : r[i] = s[i], r[j] < s[j]
    PROVE  <<r, s>> \in Lower
BY DEF Lower, LexProductOrdering, OpToRel

\* The rank is made of natural numbers.
LEMMA RankType ==
    TypeInv /\ SafeInv => Rank \in [1 .. 6 -> Nat]
<1> SUFFICES ASSUME TypeInv, SafeInv PROVE Rank \in [1 .. 6 -> Nat]
  OBVIOUS
<1>1. /\ last_acknowledged_index \in Nat /\ last_acknowledged_index <= Blocks
      /\ file_pos \in Nat /\ file_pos <= Blocks
  BY TypeFacts, ConstantsAssumption DEF SafeInv, Chain
<1>2. attempt \in Nat /\ attempt <= SEND_ATTEMPTS
  BY ConstantsAssumption DEF TypeInv, TypeOK, SessionTypeOK
<1>3. Stage \in Nat /\ Part \in Nat
  BY DEF Stage, Part
<1>4. Remaining \in Nat
  <2>1. pc = "send" => to_send - offset \in Nat
    BY TypeFacts DEF TypeInv
  <2> QED BY <2>1 DEF Remaining
<1>5. Blocks - last_acknowledged_index \in Nat /\ Blocks - file_pos \in Nat
      /\ SEND_ATTEMPTS - attempt \in Nat
  BY <1>1, <1>2, ConstantsAssumption
<1> QED BY <1>3, <1>4, <1>5 DEF Rank

\* What it takes for a step to lower the rank, number by number.
Descent ==
    \/ Stage' < Stage
    \/ /\ Stage' = Stage
       /\ last_acknowledged_index' > last_acknowledged_index
    \/ /\ Stage' = Stage
       /\ last_acknowledged_index' = last_acknowledged_index
       /\ Part' < Part
    \/ /\ Stage' = Stage
       /\ last_acknowledged_index' = last_acknowledged_index
       /\ Part' = Part
       /\ file_pos' > file_pos
    \/ /\ Stage' = Stage
       /\ last_acknowledged_index' = last_acknowledged_index
       /\ Part' = Part
       /\ file_pos' = file_pos
       /\ attempt' > attempt
    \/ /\ Stage' = Stage
       /\ last_acknowledged_index' = last_acknowledged_index
       /\ Part' = Part
       /\ file_pos' = file_pos
       /\ attempt' = attempt
       /\ Remaining' < Remaining

\* Such a step lowers the rank.
LEMMA DescentLowers ==
    ASSUME TypeInv, SafeInv, TypeInv', SafeInv', Descent
    PROVE  <<Rank', Rank>> \in Lower
<1>1. Rank \in [1 .. 6 -> Nat]
  BY RankType
<1>2. Rank' \in [1 .. 6 -> Nat]
  <2>1. (TypeInv /\ SafeInv)' => (Rank \in [1 .. 6 -> Nat])'
    BY RankType, PTL
  <2> QED BY <2>1
<1>3. PICK r \in [1 .. 6 -> Nat], s \in [1 .. 6 -> Nat] : r = Rank' /\ s = Rank
  BY <1>1, <1>2, Zenon
<1>4. /\ r[1] = Stage' /\ s[1] = Stage
      /\ r[2] = Blocks - last_acknowledged_index' /\ s[2] = Blocks - last_acknowledged_index
      /\ r[3] = Part' /\ s[3] = Part
      /\ r[4] = Blocks - file_pos' /\ s[4] = Blocks - file_pos
      /\ r[5] = SEND_ATTEMPTS - attempt' /\ s[5] = SEND_ATTEMPTS - attempt
      /\ r[6] = Remaining' /\ s[6] = Remaining
  BY <1>3 DEF Rank
<1>5. /\ last_acknowledged_index \in Int /\ last_acknowledged_index' \in Int
      /\ file_pos \in Int /\ file_pos' \in Int
      /\ attempt \in Int /\ attempt' \in Int
  BY ConstantsAssumption DEF TypeInv, TypeOK, SessionTypeOK, Index
<1>6. /\ last_acknowledged_index' > last_acknowledged_index => r[2] < s[2]
      /\ last_acknowledged_index' = last_acknowledged_index => r[2] = s[2]
      /\ file_pos' > file_pos => r[4] < s[4]
      /\ file_pos' = file_pos => r[4] = s[4]
      /\ attempt' > attempt => r[5] < s[5]
      /\ attempt' = attempt => r[5] = s[5]
  <2>1. PICK a \in Int, b \in Int, c \in Int, d \in Int, e \in Int, f \in Int :
           /\ a = last_acknowledged_index' /\ b = last_acknowledged_index
           /\ c = file_pos' /\ d = file_pos /\ e = attempt' /\ f = attempt
    BY <1>5, Zenon
  <2>2. PICK m \in Int, n \in Int : m = Blocks /\ n = SEND_ATTEMPTS
    BY ConstantsAssumption
  <2>3. /\ r[2] = m - a /\ s[2] = m - b /\ r[4] = m - c /\ s[4] = m - d
        /\ r[5] = n - e /\ s[5] = n - f
    BY <1>4, <2>1, <2>2, Zenon
  <2>4. (a > b => r[2] < s[2]) /\ (c > d => r[4] < s[4]) /\ (e > f => r[5] < s[5])
    BY <2>3
  <2> QED BY <2>1, <2>3, <2>4, Zenon
<1>7. \/ r[1] < s[1]
      \/ r[1] = s[1] /\ r[2] < s[2]
      \/ r[1] = s[1] /\ r[2] = s[2] /\ r[3] < s[3]
      \/ r[1] = s[1] /\ r[2] = s[2] /\ r[3] = s[3] /\ r[4] < s[4]
      \/ r[1] = s[1] /\ r[2] = s[2] /\ r[3] = s[3] /\ r[4] = s[4] /\ r[5] < s[5]
      \/ r[1] = s[1] /\ r[2] = s[2] /\ r[3] = s[3] /\ r[4] = s[4] /\ r[5] = s[5] /\ r[6] < s[6]
  BY <1>4, <1>6, Zenon DEF Descent
<1>8. \E j \in 1 .. 6 : (\A i \in 1 .. j - 1 : r[i] = s[i]) /\ r[j] < s[j]
  BY <1>7
<1>9. <<r, s>> \in Lower
  BY <1>8, LowerAt
<1> QED BY <1>3, <1>9

\* A return lowers the stage.
LEMMA ReturnDescends ==
    ASSUME NEW r, NEW errors, Return(r, errors), TypeInv, pc # "ended"
    PROVE  Descent
<1>1. Stage' = 0
  BY DEF Return, Stage, Sending
<1>2. Stage \in {1, 2, 3}
  BY DEF Stage, Sending, TypeInv, TypeOK, SessionTypeOK
<1> QED BY <1>1, <1>2 DEF Descent

\* So does every other step of the task: an accepted acknowledgement is of a
\* later block, and an attempt is counted.
LEMMA SessionDescends ==
    ASSUME NoWrap, TypeInv, SafeInv, [Next]_vars
    PROVE  UNCHANGED session \/ Descent
<1> USE DEF Stage, Part, Remaining, Sending
<1>1. CASE OwnStep
  <2>1. ASSUME NEW obtained \in BOOLEAN, Negotiate(obtained) PROVE Descent
    BY <2>1 DEF Negotiate, Descent
  <2>2. CASE SendOack
    BY <2>2 DEF SendOack, Descent, transfer
  <2>3. CASE OackTimeout
    <3>1. attempt \in Int
      BY ConstantsAssumption DEF TypeInv, TypeOK, SessionTypeOK
    <3>2. CASE attempt < SEND_ATTEMPTS
      <4>1. /\ pc = "oack_wait" /\ pc' = "oack_send" /\ attempt' = attempt + 1
            /\ UNCHANGED <<last_acknowledged_index, file_pos>>
        BY <2>3, <3>2, Zenon DEF OackTimeout, transfer
      <4> QED BY <3>1, <4>1 DEF Descent
    <3>3. CASE ~(attempt < SEND_ATTEMPTS)
      <4> HIDE DEF Stage, Part, Remaining, Sending
      <4> QED BY <2>3, <3>3, ReturnDescends, Zenon DEF OackTimeout
    <3> QED BY <3>2, <3>3
  <2>4. CASE LoopHead
    BY <2>4, ReturnDescends DEF LoopHead, Descent, transfer
  <2>5. CASE PushBlock
    BY <2>5, TypeFacts DEF PushBlock, Descent
  <2>6. CASE WindowFull
    BY <2>6 DEF WindowFull, Descent, transfer
  <2>7. CASE SendBlock
    BY <2>7, TypeFacts DEF SendBlock, Descent, transfer
  <2>8. CASE AckTimeout
    <3>1. attempt \in Int
      BY ConstantsAssumption DEF TypeInv, TypeOK, SessionTypeOK
    <3>2. CASE attempt < SEND_ATTEMPTS
      <4>1. /\ pc = "wait" /\ pc' = "send" /\ attempt' = attempt + 1
            /\ UNCHANGED <<last_acknowledged_index, file_pos>>
        BY <2>8, <3>2, Zenon DEF AckTimeout, transfer
      <4> QED BY <3>1, <4>1 DEF Descent
    <3>3. CASE ~(attempt < SEND_ATTEMPTS)
      <4> HIDE DEF Stage, Part, Remaining, Sending
      <4> QED BY <2>8, <3>3, ReturnDescends, Zenon DEF AckTimeout
    <3> QED BY <3>2, <3>3
  <2>9. CASE SendOackFails \/ ReadFails \/ SendFails
    BY <2>9, ReturnDescends DEF SendOackFails, ReadFails, SendFails
  <2> QED BY <1>1, <2>1, <2>2, <2>3, <2>4, <2>5, <2>6, <2>7, <2>8, <2>9 DEF OwnStep
<1>2. CASE StrayStep
  BY <1>2, ReturnDescends DEF StrayStep, OackRefused, RecvClientError, RecvBroken
<1>3. ASSUME NEW ack \in acks, AckStep(ack) PROVE Descent
  <2>1. CASE RecvOackAck(ack)
    <3>1. CASE ack = 0
      <4>1. pc = "oack_wait" /\ pc' = "top"
        BY <2>1, <3>1, Zenon DEF RecvOackAck
      <4> QED BY <4>1 DEF Descent
    <3>2. CASE ack # 0
      <4> HIDE DEF Stage, Part, Remaining, Sending
      <4> QED BY <2>1, <3>2, ReturnDescends, Zenon DEF RecvOackAck
    <3> QED BY <3>1, <3>2
  <2>2. CASE RecvAck(ack) /\ Acceptable(ack)
    <3>1. last_acknowledged_index + 1 <= Blocks
      <4>1. to_send > 0 /\ to_send = file_pos - last_acknowledged_index
        BY <2>2 DEF RecvAck, TypeInv, SafeInv, Phase
      <4> QED BY <4>1, TypeFacts, ConstantsAssumption
    <3>2. window_index = last_acknowledged_index + 1
      BY <3>1, TypeFacts, PlainIndexes DEF window_index
    <3>3. last_acknowledged_index' > last_acknowledged_index
      BY <2>2, <3>2, TypeFacts DEF RecvAck, Acceptable
    <3> QED BY <2>2, <3>3 DEF RecvAck, Descent
  <2>3. CASE RecvAck(ack) /\ ~Acceptable(ack)
    BY <2>3, ReturnDescends DEF RecvAck
  <2> QED BY <1>3, <2>1, <2>2, <2>3 DEF AckStep
<1>4. CASE ClientAcknowledge \/ (\E datagram \in data : ClientAccept(datagram))
  BY <1>4 DEF ClientAcknowledge, ClientAccept
<1>5. CASE UNCHANGED vars
  BY <1>5 DEF vars
<1> QED BY <1>1, <1>2, <1>3, <1>4, <1>5 DEF Next

\* Where a session is before it has ended there is a step for it to take: in
\* the loop over the blocks of send_reliably, the one place where a step of the
\* task has a further condition, a block is left to be sent.
LEMMA StepLeft == Spec => [](pc = "send" => offset < to_send)
<1>1. TypeInv => (pc = "send" => offset < to_send)
  BY DEF TypeInv
<1> QED BY <1>1, InitType, NextType, PTL DEF Spec

\* Every step of the task, whatever acknowledgements, errors and timeouts it
\* meets, lowers the rank of the session, in an order in which no descent goes
\* on for ever, while block indexes do not wrap around: the loops of send_file,
\* send_reliably and send_oack_reliably cannot go round and round.
THEOREM SessionDescendsAlways ==
    ASSUME NoWrap
    PROVE  /\ IsWellFoundedOn(Lower, [1 .. 6 -> Nat])
           /\ Spec => [](Rank \in [1 .. 6 -> Nat])
           /\ Spec => [][session' # session => <<Rank', Rank>> \in Lower]_vars
<1>1. Spec => [](Rank \in [1 .. 6 -> Nat])
  BY RankType, SafeInvariance, PTL
<1>2. TypeInv /\ SafeInv /\ (TypeInv /\ SafeInv)' /\ [Next]_vars
         => [session' # session => <<Rank', Rank>> \in Lower]_vars
  BY SessionDescends, DescentLowers, Zenon
<1>3. Spec => [][session' # session => <<Rank', Rank>> \in Lower]_vars
  BY <1>2, SafeInvariance, PTL DEF Spec
<1> QED BY <1>1, <1>3, LowerWellFounded
-----------------------------------------------------------------------------
(***************************************************************************)
(* Timely transfers.  Above, block indexes do not wrap around, whatever    *)
(* the network does; here they may wrap around any number of times, and    *)
(* the session sends one block at a time, as it does unless the client     *)
(* asks for more.                                                          *)
(***************************************************************************)

\* Every request gets a window of one block.
LockStep == \A o \in Requests : WindowSize(o) = 1

\* Every block read so far is acknowledged.
Settled == last_acknowledged_index = last_read_index

\* The last block read is not.
Pending == file_pos > 0 /\ last_acknowledged_index = (file_pos - 1) % Modulus

Counters ==
    /\ window = 1
    /\ last_read_index = file_pos % Modulus
    /\ buffers[0] = [index |-> file_pos % Modulus, block |-> file_pos]
    /\ \/ Settled /\ Len(received) = file_pos
       \/ Pending /\ Len(received) \in {file_pos - 1, file_pos}

Place ==
    /\ pc \in {"negotiate", "oack_send", "oack_wait"} => file_pos = 0
    /\ pc = "top" => Settled
    /\ pc = "fill" => to_send = IF Settled THEN 0 ELSE 1
    /\ pc \in {"send", "wait"} => Pending /\ to_send = 1

\* No more attempts than losses and a first one.
Attempts == pc \in {"oack_send", "oack_wait", "send", "wait"} => attempt <= losses + 1

\* A timely session ends with success or not at all.
NeverFails ==
    /\ result \in {"none", "sent"}
    /\ pc = "ended" <=> result = "sent"
    /\ result = "sent" => done /\ Settled

LockStepInv ==
    Counters /\ Place /\ Attempts /\ NeverFails /\ ReceivedIsPrefix /\ losses \in 0 .. MaxLosses
-----------------------------------------------------------------------------
(***************************************************************************)
(* Arithmetic of indexes that wrap around.                                 *)
(***************************************************************************)

\* The remainder of a number given as a multiple of the modulus and a rest.
LEMMA ModUnique ==
    ASSUME NEW m \in Nat \ {0}, NEW k \in Int, NEW r \in 0 .. m - 1
    PROVE  ((m * k) + r) % m = r
<1> DEFINE x == (m * k) + r
<1>a. x \in Int /\ x = (m * k) + r
  OBVIOUS
<1> HIDE DEF x
<1> DEFINE q == x \div m
           s == x % m
<1>b. q \in Int /\ x = (m * q) + s
  BY <1>a
<1>c. s \in 0 .. m - 1
  BY <1>a, ModRange
<1>1. q \in Int /\ s \in 0 .. m - 1 /\ (m * k) + r = (m * q) + s
  BY <1>a, <1>b, <1>c
<1> HIDE DEF q, s
<1> DEFINE d == q - k
<1>2. d \in Int /\ m * d = r - s
  <2>1. (m * q) - (m * k) = r - s /\ m * q \in Int /\ m * k \in Int
    BY <1>1
  <2>2. m * d = (m * q) - (m * k)
    BY <1>1
  <2> QED BY <1>1, <2>1, <2>2
<1>3. m * d < m /\ m * d > -m
  BY <1>1, <1>2
<1> HIDE DEF d
<1>4. d = 0
  <2>1. d >= 1 => m * d >= m
    BY <1>2
  <2>2. d <= -1 => m * d <= -m
    BY <1>2
  <2> QED BY <1>2, <1>3, <2>1, <2>2
<1>5. m * d = 0
  BY <1>4
<1> QED BY <1>1, <1>2, <1>5 DEF s, x

\* The index of a block and of the next one: last_read_index is advanced by a
\* wrapping addition, and the two differ by one, also across the wrap-around.
LEMMA ModNext ==
    ASSUME NEW m \in Nat, m > 1, NEW x \in Nat
    PROVE  /\ x % m \in 0 .. m - 1
           /\ ((x % m) + 1) % m = (x + 1) % m
           /\ (((x + 1) % m) - (x % m)) % m = 1
           /\ ((x % m) - (x % m)) % m = 0
           /\ x % m # (x + 1) % m
<1> DEFINE k == x \div m
           q == x % m
<1>1. k \in Int /\ q \in 0 .. m - 1 /\ x = (m * k) + q /\ m * k \in Int
  BY ModRange
<1> HIDE DEF k, q
<1>2. 0 % m = 0 /\ 1 % m = 1
  BY ModSmall
<1>3. CASE q + 1 < m
  <2>1. x + 1 = (m * k) + (q + 1) /\ q + 1 \in 0 .. m - 1 /\ m \in Nat \ {0}
    BY <1>1, <1>3
  <2>2. ((m * k) + (q + 1)) % m = q + 1
    BY <1>1, <2>1, ModUnique
  <2>3. (q + 1) % m = q + 1
    BY <2>1, ModSmall
  <2>4. (q + 1) - q = 1 /\ q - q = 0 /\ q # q + 1
    BY <1>1
  <2> QED BY <1>1, <1>2, <2>1, <2>2, <2>3, <2>4 DEF q
<1>4. CASE q + 1 = m
  <2>1. /\ x + 1 = (m * (k + 1)) + 0 /\ m = (m * 1) + 0 /\ 1 - m = (m * (-1)) + 1
        /\ 0 \in 0 .. m - 1 /\ 1 \in 0 .. m - 1 /\ m \in Nat \ {0}
        /\ k + 1 \in Int /\ 1 \in Int /\ -1 \in Int
    BY <1>1, <1>4
  <2>2. ((m * (k + 1)) + 0) % m = 0
    BY Zenon, <2>1, ModUnique
  <2>3. ((m * 1) + 0) % m = 0
    BY <2>1, ModUnique
  <2>4. ((m * (-1)) + 1) % m = 1
    BY <2>1, ModUnique
  <2>5. 0 - q = 1 - m /\ q - q = 0 /\ q # 0
    BY <1>1, <1>4
  <2>6. (x + 1) % m = 0 /\ (q + 1) % m = 0 /\ (0 - q) % m = 1
    BY ONLY <1>4, <2>1, <2>2, <2>3, <2>4, <2>5, Zenon
  <2>7. (q - q) % m = 0
    BY <1>2, <2>5
  <2> QED BY ONLY <1>1, <2>5, <2>6, <2>7, Zenon DEF q
<1> QED BY <1>1, <1>3, <1>4

\* What the session counts, when it sends one block at a time: Settled and
\* Pending exclude each other.
LEMMA LockStepCounts ==
    ASSUME TypeInv, last_read_index = file_pos % Modulus
    PROVE  /\ Settled => Unacknowledged = 0 /\ Acknowledged = file_pos
           /\ Pending => /\ ~Settled
                         /\ Unacknowledged = 1 /\ Acknowledged = file_pos - 1
                         /\ window_index = file_pos % Modulus
<1>1. file_pos \in Nat /\ Modulus \in Nat /\ Modulus > 1
  BY TypeFacts, ConstantsAssumption
<1>2. ASSUME Settled PROVE Unacknowledged = 0 /\ Acknowledged = file_pos
  <2>1. last_read_index \in Int /\ last_read_index - last_read_index = 0
    BY ConstantsAssumption DEF TypeInv, TypeOK, SessionTypeOK, Index
  <2>a. 0 % Modulus = 0
    BY <1>1, ModSmall
  <2>2. Unacknowledged = 0
    BY <1>2, <2>1, <2>a DEF Settled, Unacknowledged, wrapping_sub
  <2> QED BY <1>1, <2>2 DEF Acknowledged
<1>3. ASSUME Pending
      PROVE  /\ ~Settled
             /\ Unacknowledged = 1 /\ Acknowledged = file_pos - 1
             /\ window_index = file_pos % Modulus
  <2> DEFINE x == file_pos - 1
  <2>1. x \in Nat /\ x + 1 = file_pos /\ last_acknowledged_index = x % Modulus
    BY <1>1, <1>3 DEF Pending
  <2> HIDE DEF x
  <2>2. /\ ((x % Modulus) + 1) % Modulus = (x + 1) % Modulus
        /\ (((x + 1) % Modulus) - (x % Modulus)) % Modulus = 1
        /\ x % Modulus # (x + 1) % Modulus
    BY ONLY <1>1, <2>1, ModNext, ZenonT(60)
  <2>3. Unacknowledged = 1 /\ ~Settled /\ window_index = file_pos % Modulus
    BY <2>1, <2>2, Zenon DEF Unacknowledged, Settled, window_index, wrapping_sub, wrapping_add
  <2> QED BY <1>1, <2>3 DEF Acknowledged
<1> QED BY <1>2, <1>3
-----------------------------------------------------------------------------
(***************************************************************************)
(* The invariant.                                                          *)
(***************************************************************************)

\* Every timely step is a step of Transfer.
LEMMA TimelyStepIsTransferStep ==
    ASSUME [TimelyNext]_timelyVars
    PROVE  [Next]_vars
<1>1. CASE Undisturbed /\ UNCHANGED <<client, losses>>
  BY Zenon, <1>1 DEF Undisturbed, Next, OwnStep, client
<1>2. CASE LossTimeout
  BY <1>2 DEF LossTimeout, Next, OwnStep, client
<1>3. CASE TimelyAccept
  BY Zenon, <1>3 DEF TimelyAccept, Next
<1>4. CASE TimelyAck
  BY <1>4 DEF TimelyAck, Next, client
<1>5. CASE UNCHANGED timelyVars
  BY <1>5 DEF timelyVars
<1> QED BY <1>1, <1>2, <1>3, <1>4, <1>5 DEF TimelyNext, Next

\* The initial states.
LEMMA TimelyInitInv == TimelyInit => TypeInv /\ LockStepInv
<1> SUFFICES ASSUME TimelyInit PROVE TypeInv /\ LockStepInv
  OBVIOUS
<1>1. TypeInv
  BY InitType DEF TimelyInit
<1>2. Len(received) = 0 /\ 0 % Modulus = 0 /\ 0 \in 0 .. window - 1
  BY ModSmall, ConstantsAssumption DEF TimelyInit, TransferInit, Init
<1>3. buffers[0] = [index |-> 0, block |-> 0]
  BY <1>2 DEF TimelyInit, TransferInit, Init, NewWindow
<1>4. losses \in 0 .. MaxLosses
  BY SMTT(30), MaxLossesAssumption, ConstantsAssumption DEF TimelyInit
<1> QED BY <1>1, <1>2, <1>3, <1>4
        DEF TimelyInit, TransferInit, Init, LockStepInv, Counters, Place, Attempts, NeverFails,
            ReceivedIsPrefix, Settled

\* A step that leaves the counters, the slots and the client's blocks alone.
LEMMA QuietLockStep ==
    ASSUME LockStepInv, UNCHANGED <<window, transfer, received>>,
           Place', Attempts', NeverFails', losses' \in 0 .. MaxLosses
    PROVE  LockStepInv'
BY DEF LockStepInv, Counters, Settled, Pending, ReceivedIsPrefix, transfer

\* A step of the task that nothing disturbs.
LEMMA UndisturbedInv ==
    ASSUME LockStep, TypeInv, TypeInv', LockStepInv, Undisturbed, UNCHANGED <<client, losses>>
    PROVE  LockStepInv'
<1> USE TypeFacts
<1>1. CASE Negotiate(TRUE)
  <2>1. /\ window' = 1 /\ buffers' = [i \in 0 .. window' - 1 |-> [index |-> 0, block |-> 0]]
        /\ pc = "negotiate" /\ pc' \in {"oack_send", "top"}
        /\ pc' = "oack_send" => attempt' = 1
        /\ UNCHANGED <<last_acknowledged_index, last_read_index, file_pos, result, done, received, losses>>
    BY ONLY <1>1, LockStep, TypeInv, UNCHANGED <<client, losses>>, Zenon
       DEF Negotiate, NewWindow, LockStep, TypeInv, TypeOK, SessionTypeOK, client
  <2>2. file_pos = 0 /\ 0 % Modulus = 0
    BY <2>1, ModSmall, ConstantsAssumption DEF LockStepInv, Place
  <2>3. buffers'[0] = [index |-> 0, block |-> 0]
    BY <2>1
  <2>4. Settled /\ Len(received) = 0
    BY <2>2 DEF LockStepInv, Counters, Pending
  <2>5. Counters' /\ Place' /\ NeverFails' /\ ReceivedIsPrefix'
    BY <2>1, <2>2, <2>3, <2>4 DEF LockStepInv, Counters, Place, NeverFails, Settled, ReceivedIsPrefix
  <2>6. Attempts' /\ losses' \in 0 .. MaxLosses
    BY ONLY <2>1, LockStepInv, MaxLossesAssumption, ConstantsAssumption DEF LockStepInv, Attempts
  <2> QED BY <2>5, <2>6 DEF LockStepInv
<1> DEFINE Quiet == /\ UNCHANGED <<window, transfer, received, losses>>
                    /\ Place' /\ Attempts' /\ NeverFails'
<1>a. Quiet => LockStepInv'
  BY QuietLockStep DEF LockStepInv
<1>2. CASE SendOack
  <2>1. /\ UNCHANGED <<window, transfer, received, losses, attempt, result>>
        /\ pc = "oack_send" /\ pc' = "oack_wait"
    BY ONLY <1>2, UNCHANGED <<client, losses>> DEF SendOack, negotiation, client
  <2>2. Place' /\ Attempts' /\ NeverFails'
    BY ONLY <2>1, LockStepInv
       DEF LockStepInv, Place, Attempts, NeverFails, Settled, transfer
  <2> QED BY ONLY <1>a, <2>1, <2>2
<1>3. CASE LoopHead /\ ~done
  <2>1. /\ UNCHANGED <<window, transfer, received, losses, result>>
        /\ pc = "top" /\ pc' = "fill"
        /\ to_send' = wrapping_sub(last_read_index, last_acknowledged_index)
    BY ONLY <1>3, UNCHANGED <<client, losses>> DEF LoopHead, negotiation, client
  <2>2. Settled
    BY ONLY <2>1, LockStepInv DEF LockStepInv, Place
  <2>3. to_send' = 0
    <3>1. last_read_index = file_pos % Modulus
      BY ONLY LockStepInv DEF LockStepInv, Counters
    <3> QED BY ONLY <2>1, <2>2, <3>1, TypeInv, LockStepCounts DEF Unacknowledged
  <2>4. Place' /\ Attempts' /\ NeverFails'
    BY ONLY <2>1, <2>2, <2>3, LockStepInv
       DEF LockStepInv, Place, Attempts, NeverFails, Settled, transfer
  <2> QED BY ONLY <1>a, <2>1, <2>4
<1>4. CASE LoopHead /\ done
  <2>1. /\ UNCHANGED <<window, transfer, received, losses>>
        /\ pc = "top" /\ pc' = "ended" /\ result' = "sent" /\ done
    BY ONLY <1>4, UNCHANGED <<client, losses>> DEF LoopHead, Return, negotiation, client
  <2>2. Place' /\ Attempts' /\ NeverFails'
    BY ONLY <2>1, LockStepInv
       DEF LockStepInv, Place, Attempts, NeverFails, Settled, transfer
  <2> QED BY ONLY <1>a, <2>1, <2>2
<1>5. CASE WindowFull
  <2>1. /\ UNCHANGED <<window, transfer, received, losses, to_send, result>>
        /\ pc = "fill" /\ pc' = "send" /\ to_send >= window /\ attempt' = 1
    BY ONLY <1>5, UNCHANGED <<client, losses>> DEF WindowFull, negotiation, client
  <2>2. Pending /\ to_send = 1
    <3>1. window = 1 /\ to_send = IF Settled THEN 0 ELSE 1
      BY ONLY <2>1, LockStepInv DEF LockStepInv, Counters, Place
    <3>2. to_send = 1 /\ ~Settled
      BY ONLY <2>1, <3>1
    <3> QED BY ONLY <3>2, LockStepInv DEF LockStepInv, Counters
  <2>3. losses \in Nat
    BY MaxLossesAssumption, ConstantsAssumption DEF LockStepInv
  <2>4. Place' /\ Attempts' /\ NeverFails'
    BY ONLY <2>1, <2>2, <2>3, LockStepInv
       DEF LockStepInv, Place, Attempts, NeverFails, Settled, Pending, transfer
  <2> QED BY ONLY <1>a, <2>1, <2>4
<1>6. CASE SendBlock
  <2>1. /\ UNCHANGED <<window, transfer, received, losses, to_send, attempt, result>>
        /\ pc = "send" /\ pc' \in {"send", "wait"}
    BY ONLY <1>6, UNCHANGED <<client, losses>> DEF SendBlock, negotiation, client
  <2>2. Place' /\ Attempts' /\ NeverFails'
    BY ONLY <2>1, LockStepInv
       DEF LockStepInv, Place, Attempts, NeverFails, Settled, Pending, transfer
  <2> QED BY ONLY <1>a, <2>1, <2>2
<1>7. CASE PushBlock
  <2> DEFINE n == file_pos + 1
  <2>1. /\ window = 1 /\ to_send < 1 /\ pc = "fill" /\ file_pos' = n
        /\ last_read_index' = wrapping_add(last_read_index, 1) /\ to_send' = to_send + 1
        /\ buffers' = [buffers EXCEPT ![Slot(last_read_index')] =
                          [index |-> last_read_index', block |-> n]]
        /\ UNCHANGED <<window, last_acknowledged_index, result, received, losses>>
        /\ pc' \in {"fill", "send"} /\ (pc' = "send" => attempt' = 1)
    BY <1>7 DEF PushBlock, LockStepInv, Counters, negotiation, client
  <2>2. Settled /\ Len(received) = file_pos /\ to_send = 0 /\ last_read_index = file_pos % Modulus
    <3>1. to_send = IF Settled THEN 0 ELSE 1
      BY <2>1 DEF LockStepInv, Place
    <3>2. Settled /\ to_send = 0
      BY <2>1, <3>1
    <3> QED BY <3>2, LockStepCounts DEF LockStepInv, Counters
  <2>3. last_read_index' = n % Modulus /\ n % Modulus \in Int
    <3>1. ((file_pos % Modulus) + 1) % Modulus = (file_pos + 1) % Modulus
      BY ModNext, ConstantsAssumption, Zenon
    <3>2. n % Modulus \in Int
      <4>1. n \in Int /\ Modulus \in Nat \ {0}
        BY ConstantsAssumption
      <4> HIDE DEF n
      <4>2. n % Modulus \in 0 .. Modulus - 1
        BY ONLY <4>1, ModRange
      <4> QED BY <4>1, <4>2
    <3> QED BY <2>1, <2>2, <3>1, <3>2 DEF wrapping_add
  <2>4. buffers'[0] = [index |-> n % Modulus, block |-> n]
    <3> DEFINE k == n % Modulus
    <3>1. k \in Int /\ last_read_index' = k
      BY <2>3
    <3> HIDE DEF k
    <3>2. k % 1 = 0 /\ 0 \in DOMAIN buffers
      BY <2>1, <3>1
    <3>3. buffers' = [buffers EXCEPT ![0] = [index |-> k, block |-> n]]
      BY <2>1, <3>1, <3>2, Zenon DEF Slot
    <3> QED BY <3>2, <3>3 DEF k
  <2>5. n > 0 /\ n - 1 = file_pos /\ n \in Nat
    OBVIOUS
  <2> HIDE DEF n
  <2>6. Pending' /\ Len(received') = file_pos' - 1 /\ to_send' = 1
    BY <2>1, <2>2, <2>5 DEF Pending, Settled
  <2>7. ~Settled'
    <3>1. file_pos % Modulus # (file_pos + 1) % Modulus
      BY SMTT(30), ModNext, ConstantsAssumption
    <3> QED BY <2>1, <2>2, <2>3, <3>1 DEF Settled, n
  <2>8. Counters' /\ ReceivedIsPrefix'
    BY SMTT(30), <2>1, <2>3, <2>4, <2>6 DEF LockStepInv, Counters, ReceivedIsPrefix
  <2>9. Place' /\ NeverFails'
    BY <2>1, <2>6, <2>7 DEF LockStepInv, Place, NeverFails
  <2>10. Attempts' /\ losses' \in 0 .. MaxLosses
    BY <2>1, MaxLossesAssumption, ConstantsAssumption DEF LockStepInv, Attempts
  <2> QED BY ONLY <2>8, <2>9, <2>10, ZenonT(40) DEF LockStepInv
<1> QED BY ONLY Undisturbed, <1>1, <1>2, <1>3, <1>4, <1>5, <1>6, <1>7, Zenon DEF Undisturbed

\* A timeout, after which the session sends again what it sent before: losses
\* are few enough for it not to give up.
LEMMA LossTimeoutInv ==
    ASSUME TypeInv, LockStepInv, LossTimeout
    PROVE  LockStepInv'
<1>1. /\ losses \in Nat /\ losses' = losses + 1 /\ losses' \in 0 .. MaxLosses
      /\ MaxLosses < SEND_ATTEMPTS /\ MaxLosses \in Nat /\ UNCHANGED received
  <2>1. SEND_ATTEMPTS \in Nat /\ MaxLosses \in 0 .. SEND_ATTEMPTS - 1
    BY MaxLossesAssumption, ConstantsAssumption
  <2>2. losses \in 0 .. MaxLosses /\ losses < MaxLosses /\ losses' = losses + 1 /\ UNCHANGED received
    BY DEF LossTimeout, LockStepInv, client
  <2> QED BY ONLY <2>1, <2>2
<1>2. attempt <= losses + 1 /\ attempt \in Nat /\ SEND_ATTEMPTS \in Nat
  <2>1. pc \in {"oack_wait", "wait"}
    BY DEF LossTimeout, OackTimeout, AckTimeout
  <2>2. attempt <= losses + 1
    BY <2>1 DEF LockStepInv, Attempts
  <2>3. attempt \in Nat /\ SEND_ATTEMPTS \in Nat
    BY ConstantsAssumption DEF TypeInv, TypeOK, SessionTypeOK
  <2> QED BY <2>2, <2>3
<1>3. attempt < SEND_ATTEMPTS
  BY <1>1, <1>2
<1>4. /\ UNCHANGED <<window, transfer, to_send, result>> /\ attempt' = attempt + 1
      /\ \/ pc = "oack_wait" /\ pc' = "oack_send"
         \/ pc = "wait" /\ pc' = "send"
  BY <1>3 DEF LossTimeout, OackTimeout, AckTimeout, negotiation
<1>5. Place' /\ NeverFails'
  BY <1>4 DEF LockStepInv, Place, NeverFails, Settled, Pending, transfer
<1>6. Attempts'
  BY <1>1, <1>2, <1>4 DEF Attempts
<1> QED BY <1>1, <1>4, <1>5, <1>6, QuietLockStep

\* The client takes the block in the window: the next one it waits for, since
\* the index of the block it already has is another one.
LEMMA TimelyAcceptFacts ==
    ASSUME TypeInv, LockStepInv, TimelyAccept
    PROVE  /\ Pending /\ Len(received) = file_pos - 1
           /\ received' = Append(received, file_pos)
           /\ UNCHANGED session /\ UNCHANGED losses
<1> USE TypeFacts
<1>1. PICK datagram \in data \cap {buffers[s] : s \in DOMAIN buffers} : ClientAccept(datagram)
  BY DEF TimelyAccept
<1>2. window = 1 /\ DOMAIN buffers = {0}
  BY DEF LockStepInv, Counters
<1>3. datagram = [index |-> file_pos % Modulus, block |-> file_pos]
  BY <1>1, <1>2 DEF LockStepInv, Counters
<1>4. file_pos % Modulus = (Len(received) + 1) % Modulus /\ received' = Append(received, file_pos)
  BY <1>1, <1>3 DEF ClientAccept
<1>5. file_pos % Modulus # (file_pos + 1) % Modulus
  BY ModNext, ConstantsAssumption
<1>6. Len(received) # file_pos
  BY <1>4, <1>5
<1>7. Pending /\ Len(received) = file_pos - 1
  BY <1>6 DEF LockStepInv, Counters
<1> QED BY <1>1, <1>4, <1>7 DEF ClientAccept, TimelyAccept

\* ... so that it still holds a prefix of the file.
LEMMA TimelyAcceptInv ==
    ASSUME TypeInv, LockStepInv, TimelyAccept
    PROVE  LockStepInv'
<1> USE TypeFacts
<1>1. /\ Pending /\ Len(received) = file_pos - 1
      /\ received' = Append(received, file_pos)
      /\ UNCHANGED session /\ UNCHANGED losses
  BY TimelyAcceptFacts
<1>2. UNCHANGED <<pc, window, attempt, last_acknowledged_index, last_read_index, done, buffers,
                  file_pos, to_send, result>>
  BY <1>1 DEF session, negotiation, transfer
<1>3. /\ Len(received') = file_pos /\ received'[file_pos] = file_pos /\ file_pos \in Nat
      /\ \A i \in 1 .. file_pos - 1 : received'[i] = received[i]
  BY <1>1
<1>4. ReceivedIsPrefix'
  BY SMTT(30), <1>1, <1>3 DEF LockStepInv, ReceivedIsPrefix
<1>5. Counters'
  BY SMTT(30), <1>1, <1>2, <1>3 DEF LockStepInv, Counters, Pending
<1>6. Place' /\ Attempts' /\ NeverFails' /\ losses' \in 0 .. MaxLosses
  BY <1>1, <1>2 DEF LockStepInv, Place, Attempts, NeverFails, Settled, Pending
<1> QED BY <1>4, <1>5, <1>6 DEF LockStepInv

\* The acknowledgement that arrives is the one the session waits for.
LEMMA TimelyAckFacts ==
    ASSUME TypeInv, LockStepInv, TimelyAck
    PROVE  /\ pc' = "top" /\ UNCHANGED <<window, last_read_index, done, buffers, file_pos,
                                         result, received, losses>>
           /\ \/ pc = "oack_wait" /\ Settled /\ UNCHANGED last_acknowledged_index
              \/ /\ pc = "wait" /\ Pending /\ Len(received) = file_pos
                 /\ last_acknowledged_index' = last_read_index
<1> USE TypeFacts
<1>1. /\ UNCHANGED <<received, losses>> /\ AckStep(Len(received) % Modulus)
      /\ pc = "oack_wait" \/ Len(received) > Acknowledged
  BY DEF TimelyAck, client
<1>2. CASE pc = "oack_wait"
  <2>1. file_pos = 0 /\ 0 % Modulus = 0
    BY <1>2, ModSmall, ConstantsAssumption DEF LockStepInv, Place
  <2>2. Settled /\ Len(received) = 0
    BY <2>1 DEF LockStepInv, Counters, Pending
  <2>3. RecvOackAck(0)
    BY <1>1, <1>2, <2>1, <2>2 DEF AckStep, RecvAck
  <2> QED BY <1>1, <1>2, <2>2, <2>3 DEF RecvOackAck, negotiation, transfer
<1>3. CASE pc # "oack_wait"
  <2>1. RecvAck(Len(received) % Modulus) /\ pc = "wait"
    BY <1>1, <1>3 DEF AckStep, RecvAck, RecvOackAck
  <2>2. Pending /\ last_read_index = file_pos % Modulus
    BY <2>1 DEF LockStepInv, Place, Counters
  <2>3. Acknowledged = file_pos - 1 /\ window_index = file_pos % Modulus /\ ~Settled
    BY <2>2, LockStepCounts
  <2>4. Len(received) = file_pos
    BY <1>1, <1>3, <2>3 DEF LockStepInv, Counters
  <2>5. file_pos % Modulus \in Int
    BY ModRange, ConstantsAssumption
  <2>6. Acceptable(Len(received) % Modulus)
    BY <2>3, <2>4, <2>5 DEF Acceptable
  <2> QED BY <1>1, <2>1, <2>2, <2>4, <2>6 DEF RecvAck, negotiation
<1> QED BY <1>2, <1>3

\* ... and takes it back to the head of its loop.
LEMMA TimelyAckInv ==
    ASSUME TypeInv, LockStepInv, TimelyAck
    PROVE  LockStepInv'
<1> USE TypeFacts
<1>1. /\ pc' = "top" /\ UNCHANGED <<window, last_read_index, done, buffers, file_pos,
                                    result, received, losses>>
      /\ \/ pc = "oack_wait" /\ Settled /\ UNCHANGED last_acknowledged_index
         \/ /\ pc = "wait" /\ Pending /\ Len(received) = file_pos
            /\ last_acknowledged_index' = last_read_index
  BY TimelyAckFacts
<1>2. Settled' /\ Len(received) = file_pos
  <2>1. CASE pc = "oack_wait" /\ Settled /\ UNCHANGED last_acknowledged_index
    BY SMTT(30), <1>1, <2>1, LockStepCounts DEF LockStepInv, Counters, Settled
  <2> QED BY <1>1, <2>1 DEF Settled
<1>3. Counters' /\ ReceivedIsPrefix'
  BY <1>1, <1>2 DEF LockStepInv, Counters, ReceivedIsPrefix
<1>4. Place' /\ Attempts' /\ NeverFails' /\ losses' \in 0 .. MaxLosses
  BY <1>1, <1>2 DEF LockStepInv, Place, Attempts, NeverFails
<1> QED BY <1>3, <1>4 DEF LockStepInv

\* Every timely step.
LEMMA TimelyNextInv ==
    ASSUME LockStep, TypeInv, LockStepInv, [TimelyNext]_timelyVars
    PROVE  TypeInv' /\ LockStepInv'
<1>1. TypeInv'
  BY TimelyStepIsTransferStep, NextType
<1>2. CASE Undisturbed /\ UNCHANGED <<client, losses>>
  BY <1>1, <1>2, UndisturbedInv
<1>3. CASE (ClientAcknowledge /\ UNCHANGED losses) \/ UNCHANGED timelyVars
  <2>1. UNCHANGED <<pc, window, attempt, transfer, to_send, result, received, losses>>
    BY <1>3 DEF ClientAcknowledge, timelyVars, vars, session, negotiation, client
  <2>2. UNCHANGED <<last_acknowledged_index, last_read_index, done, buffers, file_pos>>
    BY <2>1 DEF transfer
  <2>3. Place' /\ Attempts' /\ NeverFails' /\ losses' \in 0 .. MaxLosses
    BY <2>1, <2>2 DEF LockStepInv, Place, Attempts, NeverFails, Settled, Pending
  <2> QED BY <1>1, <2>1, <2>3, QuietLockStep
<1> QED BY <1>1, <1>2, <1>3, LossTimeoutInv, TimelyAcceptInv, TimelyAckInv DEF TimelyNext

\* The inductive invariant.
LEMMA TimelyInvariance ==
    ASSUME LockStep
    PROVE  TimelySpec => [](TypeInv /\ LockStepInv)
<1>1. TypeInv /\ LockStepInv /\ [TimelyNext]_timelyVars => (TypeInv /\ LockStepInv)'
  BY TimelyNextInv
<1> QED BY <1>1, TimelyInitInv, PTL DEF TimelySpec
-----------------------------------------------------------------------------
(***************************************************************************)
(* The results.                                                            *)
(***************************************************************************)

\* Timely delivery restricts the network, the client and the losses, and adds
\* nothing: every timely behaviour is one of Transfer.
THEOREM TimelyImplementsTransfer == TimelySpec => Spec
<1>1. TimelyInit => TransferInit
  BY DEF TimelyInit
<1> QED BY <1>1, TimelyStepIsTransferStep, PTL DEF TimelySpec, Spec

\* One block at a time, the client assembles a prefix of the file however often
\* the block indexes wrap around.
THEOREM LockStepReceivedIsPrefix ==
    ASSUME LockStep
    PROVE  TimelySpec => []ReceivedIsPrefix
BY TimelyInvariance, PTL DEF LockStepInv

\* One block at a time, the comparison of send_reliably accepts the newest
\* acknowledgement also where the index wraps around.
THEOREM LockStepFreshAckAccepted ==
    ASSUME LockStep
    PROVE  TimelySpec => []FreshAckAccepted
<1>1. ASSUME TypeInv, LockStepInv, pc = "wait", Len(received) > Acknowledged
      PROVE  Acceptable(Len(received) % Modulus)
  <2>1. Pending /\ last_read_index = file_pos % Modulus
    BY <1>1 DEF LockStepInv, Place, Counters
  <2>2. Acknowledged = file_pos - 1 /\ window_index = file_pos % Modulus
    BY <1>1, <2>1, LockStepCounts
  <2>3. Len(received) = file_pos
    BY <1>1, <2>2, TypeFacts, LockStepCounts DEF LockStepInv, Counters
  <2>4. file_pos % Modulus \in Int
    BY <1>1, TypeFacts, ModRange, ConstantsAssumption
  <2> QED BY SMTT(30), <2>2, <2>3, <2>4 DEF Acceptable
<1>2. TypeInv /\ LockStepInv => FreshAckAccepted
  BY <1>1 DEF FreshAckAccepted
<1> QED BY <1>2, TimelyInvariance, PTL

\* A session that sends one block at a time and loses few datagrams never fails,
\* and reports success only when the client has the whole file, of any length.
THEOREM LockStepSucceeds ==
    ASSUME LockStep
    PROVE  TimelySpec => [](pc = "ended" => result = "sent" /\ Complete)
<1>1. ASSUME TypeInv, LockStepInv, pc = "ended" PROVE result = "sent" /\ Complete
  <2>1. result = "sent" /\ Settled /\ file_pos = Blocks
    BY SMTT(30), <1>1 DEF LockStepInv, NeverFails, TypeInv
  <2>2. Len(received) = Blocks /\ Blocks \in Nat \ {0}
    BY <1>1, <2>1, LockStepCounts, ConstantsAssumption DEF LockStepInv, Counters
  <2>3. received[Blocks] = Blocks /\ received # << >>
    BY <1>1, <2>2, TypeFacts DEF LockStepInv, ReceivedIsPrefix
  <2> QED BY <2>1, <2>2, <2>3 DEF Complete
<1>2. TypeInv /\ LockStepInv => (pc = "ended" => result = "sent" /\ Complete)
  BY <1>1
<1> QED BY <1>2, TimelyInvariance, PTL

\* What counts as acknowledged in every state of the invariant.
Count == Acknowledged = IF Settled THEN file_pos ELSE file_pos - 1

LEMMA LockStepCount == TypeInv /\ LockStepInv => Count
<1> SUFFICES ASSUME TypeInv, LockStepInv PROVE Count
  OBVIOUS
<1>1. last_read_index = file_pos % Modulus /\ (Settled \/ Pending)
  BY DEF LockStepInv, Counters
<1> QED BY <1>1, LockStepCounts DEF Count

\* A step that moves neither the client's blocks nor the count of the session.
LEMMA QuietLockStepDelivery ==
    ASSUME Acknowledged' = Acknowledged, UNCHANGED <<window, received, result>>,
           pc = "ended" <=> pc' = "ended"
    PROVE  UNCHANGED D!vars
BY DEF D!vars, Outcome

\* Every timely step is a step of Delivery or none.
LEMMA TimelyNextDelivery ==
    ASSUME LockStep, TypeInv, LockStepInv, TypeInv', LockStepInv', Count, Count',
           [TimelyNext]_timelyVars
    PROVE  [D!Next]_(D!vars)
<1> USE TypeFacts
<1>1. ASSUME UNCHANGED <<last_acknowledged_index, last_read_index, file_pos>>
      PROVE  Acknowledged' = Acknowledged
  BY SMTT(30), <1>1 DEF Acknowledged, Unacknowledged, wrapping_sub
<1>2. window = 1 /\ window' = 1
  BY DEF LockStepInv, Counters
<1>3. CASE Undisturbed /\ UNCHANGED <<client, losses>>
  <2>1. CASE Negotiate(TRUE) \/ SendOack \/ WindowFull \/ SendBlock \/ (LoopHead /\ ~done)
    <3>1. /\ UNCHANGED <<last_acknowledged_index, last_read_index, file_pos, received, result>>
          /\ pc # "ended" /\ pc' # "ended"
      BY ZenonT(40), <1>3, <2>1
         DEF Negotiate, SendOack, WindowFull, SendBlock, LoopHead, transfer, client
    <3> QED BY SMTT(30), <1>1, <1>2, <3>1, QuietLockStepDelivery
  <2>2. CASE LoopHead /\ done
    <3>1. /\ UNCHANGED <<last_acknowledged_index, last_read_index, file_pos, received>>
          /\ Outcome = "open" /\ Outcome' = "sent" /\ pc = "top"
      BY SMTT(30), <1>3, <2>2 DEF LoopHead, Return, transfer, client, Outcome
    <3>2. Acknowledged = Blocks
      BY <2>2, <3>1 DEF LockStepInv, Place, Count, TypeInv
    <3>3. Blocks - Acknowledged < window
      BY <1>2, <3>2, ConstantsAssumption
    <3> QED BY SMTT(30), <1>1, <1>2, <3>1, <3>3 DEF D!Next, D!Succeed
  <2>3. CASE PushBlock
    <3>1. /\ file_pos' = file_pos + 1 /\ UNCHANGED <<received, result, last_acknowledged_index>>
          /\ pc = "fill" /\ pc' # "ended" /\ to_send < 1
          /\ last_read_index' = wrapping_add(last_read_index, 1)
      BY <1>2, <1>3, <2>3 DEF PushBlock, client
    <3>2. Settled
      BY <3>1 DEF LockStepInv, Place
    <3>3. ~Settled'
      <4>1. file_pos % Modulus # (file_pos + 1) % Modulus
        BY ModNext, ConstantsAssumption
      <4>2. last_read_index = file_pos % Modulus /\ last_read_index' = file_pos' % Modulus
        BY DEF LockStepInv, Counters
      <4> QED BY <3>1, <3>2, <4>1, <4>2 DEF Settled
    <3>4. Acknowledged' = Acknowledged
      BY <3>1, <3>2, <3>3 DEF Count
    <3> QED BY <1>2, <3>1, <3>4, QuietLockStepDelivery
  <2> QED BY <1>3, <2>1, <2>2, <2>3 DEF Undisturbed
<1>4. CASE LossTimeout
  <2>1. result' # "timeout" /\ result' # "not_negotiated" /\ UNCHANGED client
    BY <1>4 DEF LockStepInv, NeverFails, LossTimeout
  <2>2. /\ UNCHANGED <<last_acknowledged_index, last_read_index, file_pos, received, result>>
        /\ pc # "ended" /\ pc' # "ended"
    BY <1>4, <2>1 DEF LossTimeout, OackTimeout, AckTimeout, Return, transfer, client
  <2> QED BY <1>1, <1>2, <2>2, QuietLockStepDelivery
<1>5. CASE TimelyAccept
  <2>1. /\ Pending /\ Len(received) = file_pos - 1
        /\ received' = Append(received, file_pos) /\ UNCHANGED session
    BY <1>5, TimelyAcceptFacts
  <2>2. /\ UNCHANGED <<last_acknowledged_index, last_read_index, file_pos>>
        /\ Outcome' = Outcome
    BY SMTT(30), <2>1 DEF session, transfer, Outcome
  <2>3. Acknowledged = file_pos - 1
    BY <2>1, LockStepCounts DEF LockStepInv, Counters
  <2>4. /\ Len(received) < Blocks /\ Len(received) < Acknowledged + window
        /\ Len(received) + 1 = file_pos
    BY <1>2, <2>1, <2>3, ConstantsAssumption
  <2> QED BY <1>1, <1>2, <2>1, <2>2, <2>4 DEF D!Next, D!Deliver
<1>6. CASE TimelyAck
  <2>1. /\ pc' = "top" /\ UNCHANGED <<last_read_index, file_pos, result, received>>
        /\ \/ pc = "oack_wait" /\ UNCHANGED last_acknowledged_index
           \/ /\ pc = "wait" /\ Pending /\ Len(received) = file_pos
              /\ last_acknowledged_index' = last_read_index
    BY <1>6, TimelyAckFacts
  <2>2. CASE pc = "oack_wait" /\ UNCHANGED last_acknowledged_index
    BY <1>1, <1>2, <2>1, <2>2, QuietLockStepDelivery
  <2>3. CASE /\ pc = "wait" /\ Pending /\ Len(received) = file_pos
             /\ last_acknowledged_index' = last_read_index
    <3>1. Acknowledged = file_pos - 1
      BY <2>3, LockStepCounts DEF LockStepInv, Counters
    <3>2. Acknowledged' = file_pos
      BY <2>1, <2>3 DEF Count, Settled
    <3>3. Acknowledged' \in Acknowledged + 1 .. Len(received)
      BY <2>3, <3>1, <3>2
    <3>4. Outcome = "open" /\ Outcome' = "open"
      BY <2>1, <2>3 DEF Outcome
    <3> QED BY SMTT(30), <1>2, <2>1, <3>3, <3>4 DEF D!Next, D!Confirm
  <2> QED BY <2>1, <2>2, <2>3
<1>7. CASE (ClientAcknowledge /\ UNCHANGED losses) \/ UNCHANGED timelyVars
  <2>1. /\ UNCHANGED <<last_acknowledged_index, last_read_index, file_pos, received, result>>
        /\ UNCHANGED pc
    BY <1>7 DEF ClientAcknowledge, timelyVars, vars, session, transfer, client
  <2> QED BY <1>1, <1>2, <2>1, QuietLockStepDelivery
<1> QED BY <1>3, <1>4, <1>5, <1>6, <1>7 DEF TimelyNext

\* One block at a time, the transfer implements module Delivery with indexes
\* that wrap around, too.
THEOREM LockStepImplementsDelivery ==
    ASSUME LockStep
    PROVE  TimelySpec => ImplementsDelivery
<1>1. (TypeInv /\ LockStepInv)' => Count'
  BY LockStepCount, PTL
<1>2. TimelyInit => D!Init
  <2> SUFFICES ASSUME TimelyInit PROVE D!Init
    OBVIOUS
  <2>1. Count
    BY TimelyInitInv, LockStepCount
  <2> QED BY <2>1 DEF TimelyInit, TransferInit, Init, D!Init, Outcome, Count, Settled
<1>3. /\ TypeInv /\ LockStepInv /\ (TypeInv /\ LockStepInv)' /\ [TimelyNext]_timelyVars
      => [D!Next]_(D!vars)
  BY <1>1, LockStepCount, TimelyNextDelivery
<1> QED BY <1>2, <1>3, TimelyInvariance, PTL DEF TimelySpec, ImplementsDelivery, D!Spec
=============================================================================
