------------------------------- MODULE Transfer -------------------------------
(***************************************************************************)
(* One connection of SocketNetwork (src/src/network/socket_network.cpp:    *)
(* 33-186), from send_message on one node to handle_incoming_message on    *)
(* the other: messages become bytes (Messages, DataFrame, Serializer), the *)
(* bytes a stream that TCP hands over in pieces of any size, and           *)
(* read_socket cuts the stream into messages again, in a buffer that grows *)
(* when it is full.  The sender may stop at any time, and what it has sent *)
(* may then be cut anywhere.                                               *)
(***************************************************************************)
EXTENDS Messages

CONSTANTS
    BufferSize,     \* size of msg_buffer at first, 1024
    Outboxes        \* the sequences of messages one node sends the other

ASSUME OutboxesAssumption == \A o \in Outboxes : o \in Seq(Message)
ASSUME BufferSizeAssumption == BufferSize \in Nat /\ BufferSize >= HeaderSize

VARIABLES
    outbox,         \* what the sender has to send
    num_sent,       \* how much of that it has sent
    sender,         \* "up", "crashed" in a serialize, or "stopped"
    stream,         \* the bytes on their way
    msg_buffer,     \* the first msg_buffer_index bytes of msg_buffer
    msg_buffer_size,
    reader,         \* where the network thread is in read_socket
    handled,        \* the messages given to handle_incoming_message
    overrun         \* a Serializer has written past its buffer

vars == <<outbox, num_sent, sender, stream, msg_buffer, msg_buffer_size, reader,
          handled, overrun>>

-----------------------------------------------------------------------------
IsSegment(m) == "set" \in DOMAIN m

\* The message that is serialized: send_message fills in the two ends.
Outgoing(m) ==
    [f \in (DOMAIN m \ {"set"}) \cup {"sender", "target"} \cup (IF IsSegment(m) THEN {"value"} ELSE {}) |->
        CASE f = "sender"                  -> 0
          [] f = "target"                  -> 1
          [] f = "value" /\ IsSegment(m)   -> Convert(m.set)
          [] OTHER                         -> m[f]]

Init ==
    /\ outbox \in Outboxes
    /\ num_sent = 0
    /\ sender = "up"
    /\ stream = <<>>
    /\ msg_buffer = <<>>
    /\ msg_buffer_size = BufferSize
    /\ reader = "poll"
    /\ handled = <<>>
    /\ overrun = FALSE

HasNullString(m) == IsSegment(m) /\ ~ Serializable(Convert(m.set))

\* send_message, under connection_lock: the message is on its way as a whole.
Send ==
    /\ sender = "up" /\ num_sent < Len(outbox)
    /\ ~ HasNullString(outbox[num_sent + 1])
    /\ LET m       == Outgoing(outbox[num_sent + 1])
           message == Serialize(MessageValues(m))
       IN  /\ stream' = stream \o message.bytes
           /\ overrun' = (overrun \/ message.overrun
                            \/ (IsKeyed(m) /\ Serialize(KeyedValues(m)).overrun))
    /\ num_sent' = num_sent + 1
    /\ UNCHANGED <<outbox, sender, msg_buffer, msg_buffer_size, reader, handled>>

\* A string that was missing in the file: serialize calls a null pointer.
SendNullString ==
    /\ sender = "up" /\ num_sent < Len(outbox)
    /\ HasNullString(outbox[num_sent + 1])
    /\ sender' = "crashed"
    /\ UNCHANGED <<outbox, num_sent, stream, msg_buffer, msg_buffer_size, reader,
                   handled, overrun>>

\* The sender closes the connection or its process ends.
Stop ==
    /\ sender = "up"
    /\ sender' = "stopped"
    /\ \E k \in 0 .. Len(stream) : stream' = SubSeq(stream, 1, k)
    /\ UNCHANGED <<outbox, num_sent, msg_buffer, msg_buffer_size, reader, handled, overrun>>

\* Faulty: as much is read as the whole buffer holds.
ReadSocketWhole ==
    /\ reader = "poll" /\ stream # <<>>
    /\ LET size == IF Len(msg_buffer) = msg_buffer_size
                   THEN msg_buffer_size * msg_buffer_size ELSE msg_buffer_size
       IN  \E k \in 1 .. Min({Len(stream), size}) :
                /\ msg_buffer' = msg_buffer \o SubSeq(stream, 1, k)
                /\ stream' = SubSeq(stream, k + 1, Len(stream))
                /\ msg_buffer_size' = size
    /\ reader' = "loop"
    /\ UNCHANGED <<outbox, num_sent, sender, handled, overrun>>

\* read_socket up to its loop: grow the buffer if it is full, read what there is.
ReadSocket ==
    /\ reader = "poll" /\ stream # <<>>
    /\ LET size == IF Len(msg_buffer) = msg_buffer_size
                   THEN msg_buffer_size * msg_buffer_size ELSE msg_buffer_size
       IN  \E k \in 1 .. Min({Len(stream), size - Len(msg_buffer)}) :
                /\ msg_buffer' = msg_buffer \o SubSeq(stream, 1, k)
                /\ stream' = SubSeq(stream, k + 1, Len(stream))
                /\ msg_buffer_size' = size
    /\ reader' = "loop"
    /\ UNCHANGED <<outbox, num_sent, sender, handled, overrun>>

\* read returns 0: close_connection, which empties the buffer.
ReadClosed ==
    /\ reader = "poll" /\ stream = <<>> /\ sender # "up"
    /\ reader' = "closed"
    /\ msg_buffer' = <<>>
    /\ UNCHANGED <<outbox, num_sent, sender, stream, msg_buffer_size, handled, overrun>>

\* The bytes that follow the header in the buffer, and how many it promises.
BytesAfterHeader == Len(msg_buffer) - HeaderSize
PayloadPromised  == GetHeader(NewDeserializer(msg_buffer)).size

\* Faulty: one message is taken from a piece, the rest is thrown away.
TakeMessageOnly ==
    /\ reader = "loop" /\ BytesAfterHeader >= 0
    /\ PayloadPromised <= BytesAfterHeader
    /\ msg_buffer' = <<>>
    /\ UNCHANGED <<outbox, num_sent, sender, stream, msg_buffer_size, reader, overrun>>

\* A whole message is in the buffer, alone or with more behind it.  Where the
\* next one starts is read from the header after its deletion (151, 158): that
\* is the size, because the decoding has just made the same header in the block
\* that was freed.
TakeMessage ==
    /\ reader = "loop" /\ BytesAfterHeader >= 0
    /\ PayloadPromised <= BytesAfterHeader
    /\ msg_buffer' = SubSeq(msg_buffer, HeaderSize + PayloadPromised + 1, Len(msg_buffer))
    /\ UNCHANGED <<outbox, num_sent, sender, stream, msg_buffer_size, reader, overrun>>

\* One iteration of the loop: decode the message and handle it.
Interpret == TakeMessage /\ handled' = Append(handled, GetMessage(msg_buffer))

\* The loop ends: nothing is left, or more of the payload must be read.  With a
\* part of a header it does not end, and nothing it does brings the rest.
LeaveLoop ==
    /\ reader = "loop"
    /\ \/ msg_buffer = <<>>
       \/ BytesAfterHeader >= 0 /\ PayloadPromised > BytesAfterHeader
    /\ reader' = "poll"
    /\ UNCHANGED <<outbox, num_sent, sender, stream, msg_buffer, msg_buffer_size,
                   handled, overrun>>

NetworkThread == ReadSocket \/ ReadClosed \/ Interpret \/ LeaveLoop

Next == Send \/ SendNullString \/ Stop \/ NetworkThread

Spec == Init /\ [][Next]_vars

\* What a step of the sender's thread does to the sender: Next lets it do one of
\* the two.  Like TakeMessage it is enabled without the coding of a message.
SenderThread ==
    /\ sender = "up" /\ num_sent < Len(outbox)
    /\ \/ num_sent' = num_sent + 1 /\ UNCHANGED sender
       \/ sender' = "crashed" /\ UNCHANGED num_sent

\* The operating system runs the sender's thread and the network thread.
FairSpec == /\ Spec
            /\ WF_<<sender, num_sent>>(SenderThread)
            /\ WF_<<msg_buffer, reader>>(ReadSocket \/ ReadClosed \/ TakeMessage \/ LeaveLoop)

-----------------------------------------------------------------------------
TypeOK ==
    /\ num_sent \in 0 .. Len(outbox)
    /\ sender \in {"up", "crashed", "stopped"}
    /\ msg_buffer_size \in Nat /\ Len(msg_buffer) <= msg_buffer_size
    /\ reader \in {"poll", "loop", "closed"}
    /\ overrun \in BOOLEAN

\* What is handled is what was sent, in order and without a gap, each message
\* with all it carries, wherever TCP cuts the stream, whatever follows a
\* message in the buffer when it is decoded, and also when the sender dies:
\* the sizes the messages promise are the sizes they have.
HandledAsSent ==
    /\ Len(handled) <= num_sent
    /\ \A i \in DOMAIN handled : handled[i] = Outgoing(outbox[i])

\* The rows of a segment on the node that stores it, as map reads them from a
\* copy, are the entries of the file, with 0 or false for those missing.
RowsArrive ==
    \A i \in DOMAIN handled : IsSegment(outbox[i]) =>
        LET rows == MappedRows(CopyOf(handled[i].value))
            set  == outbox[i].set
        IN  /\ Len(rows) = Len(set[1].entries)
            /\ \A r \in DOMAIN rows, c \in DOMAIN set :
                  rows[r][c] = IF set[c].entries[r] = Missing THEN Default(set[c].type)
                               ELSE set[c].entries[r][1]

Fits(values) == \A v \in DOMAIN values : Len(values[v]) <= LongestValue

\* Every value of a message fits a buffer that is grown once.  The payload of a
\* Put, Reply or WaitAndGet, which is copied as one value, is measured by the
\* buffer its header has left.
MessageFits(m) ==
    IF IsKeyed(m)
    THEN LET size == Serialize(HeaderValues(m)).size
         IN  /\ Fits(KeyedValues(m)) /\ Fits(HeaderValues(m))
             /\ HeaderSize + PayloadSize(m) <= size * size
    ELSE Fits(MessageValues(m))

\* No Serializer writes past its buffer, although set_generic grows it only once
\* and then copies whatever its length: whatever the messages, as long as none
\* is out of proportion.
NoOverrun ==
    (\A i \in DOMAIN outbox : ~ HasNullString(outbox[i]) => MessageFits(Outgoing(outbox[i])))
        => ~ overrun

\* The reader is caught in its loop, with a part of a header.
Spinning == reader = "loop" /\ Len(msg_buffer) \in 1 .. HeaderSize - 1

\* Everything sent is handled in the end unless the sender stops, sends a
\* missing string, or a piece of the stream ends in a header: a whole message
\* is never left in the buffer ("Read the buffer until we can't interpret
\* anymore messages from this", socket_network.cpp:128).
EverythingHandled ==
    <>(Len(handled) = Len(outbox) \/ sender # "up" \/ Spinning)
=============================================================================
