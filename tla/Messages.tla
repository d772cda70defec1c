------------------------------- MODULE Messages -------------------------------
(***************************************************************************)
(* The messages of eau2 (src/src/messages/serial.cpp) as bytes: a header   *)
(* with the kind, the sender, the target, an id and the size of what       *)
(* follows, and a payload: a key with a value (Put, Reply) or alone        *)
(* (WaitAndGet), a text (Status), an address (Register) or the table of    *)
(* addresses (Directory).                                                  *)
(***************************************************************************)
EXTENDS DataFrame

CONSTANTS
    AddressBytes,   \* sizeof(struct sockaddr_in), 16
    NoHome          \* the home id of the key of a distributed value, (size_t) -1

ASSUME AddressAssumption == AddressBytes \in Nat \ {0}

\* The messages a node sends, before send_message fills in the two ends: a
\* segment made from a file has the file in place of its value.
KeyOf(homes) == [home : homes, name : Text]
Address      == [address : Seq(STRING) \ {<<>>}, port : Nat]
Message ==
    [kind : {"Put", "Reply"}, id : Nat, key : KeyOf(Nat \ {NoHome}), set : File]
    \cup [kind : {"Put"}, id : Nat, key : KeyOf({NoHome}),
          value : [types : Seq(ColumnTypes), nrows : Nat]]
    \cup [kind : {"WaitAndGet"}, id : Nat, key : KeyOf(Nat)]
    \cup [kind : {"Status"}, id : Nat, msg : Text]
    \cup [kind : {"Register"}, id : Nat, address : STRING, port : Nat]
    \cup [kind : {"Directory"}, id : Nat, directory : Seq(Address)]

MsgKind    == {"Put", "Reply", "WaitAndGet", "Status", "Register", "Directory"}
HeaderSize == IntSize + 4 * SizeT

-----------------------------------------------------------------------------
KeyValues(key) == <<SizeBytes(key.home)>> \o StringValues(key.name)

GetKey(d) ==
    LET home == GetSizeT(d)
        name == GetString(home)
    IN  [name EXCEPT !.val = [home |-> home.val, name |-> name.val]]

\* A distributed value travels as its schema and its number of rows.
DistributedValueValues(v) ==
    <<SizeBytes(Len(v.types)), SizeBytes(v.nrows)>> \o [c \in DOMAIN v.types |-> CharBytes(v.types[c])]

GetDistributedValue(d) ==
    LET ncols == GetSizeT(d)
        nrows == GetSizeT(ncols)
        types == GetMany(GetChar, nrows, ncols.val)
    IN  [types EXCEPT !.val = [types |-> types.val, nrows |-> nrows.val]]

-----------------------------------------------------------------------------
\* A Directory: one address and port for each connection; no address where
\* nothing is connected.
NewDirectory(max) == [i \in 1 .. max |-> [address |-> Null, port |-> 0]]

AddConnection(dir, i, address, port) ==
    IF dir[i].address = Null THEN [dir EXCEPT ![i] = [address |-> address, port |-> port]]
    ELSE dir

RemoveConnection(dir, i) == [dir EXCEPT ![i] = [address |-> Null, port |-> 0]]

Shown(address) == IF address = Null THEN <<>> ELSE address

DirectoryValues(dir) ==
    <<SizeBytes(Len(dir))>> \o [i \in DOMAIN dir |-> SizeBytes(dir[i].port)] \o
    FlattenSeq([i \in DOMAIN dir |-> StringValues(Shown(dir[i].address))])

\* The payload size Directory::serialize works out before it writes.
DirectoryBytes(dir) ==
    SizeT + FoldLeft(LAMBDA n, e : n + SizeT + StringBytes(Shown(e.address)), 0, dir)

GetDirectory(d) ==
    LET max       == GetSizeT(d)
        ports     == GetMany(GetSizeT, max, max.val)
        addresses == GetMany(GetString, ports, max.val)
    IN  [addresses EXCEPT !.val =
            [i \in 1 .. max.val |->
                [address |-> IF addresses.val[i] = <<>> THEN Null ELSE addresses.val[i],
                 port    |-> ports.val[i]]]]

-----------------------------------------------------------------------------
\* The values of a payload.  A Put or Reply is first made in a Serializer of
\* its own (the send operations of SocketNetworkMessageManager) and then
\* copied into the message as one value.
KeyedValues(m) ==
    CASE m.kind = "WaitAndGet" -> KeyValues(m.key)
      [] m.kind = "Put" /\ m.key.home = NoHome ->
            KeyValues(m.key) \o DistributedValueValues(m.value)
      [] OTHER -> KeyValues(m.key) \o DataFrameValues(m.value)

IsKeyed(m) == m.kind \in {"Put", "Reply", "WaitAndGet"}

PayloadValues(m) ==
    CASE m.kind = "Status"    -> StringValues(m.msg)
      [] m.kind = "Register"  -> <<Bytes("address", m.address, AddressBytes), SizeBytes(m.port)>>
      [] m.kind = "Directory" -> DirectoryValues(m.directory)
      [] OTHER                -> <<Serialize(KeyedValues(m)).bytes>>

\* The size each serialize puts into the header.
PayloadSize(m) ==
    CASE m.kind = "Status"    -> StringBytes(m.msg)
      [] m.kind = "Register"  -> AddressBytes + SizeT
      [] m.kind = "Directory" -> DirectoryBytes(m.directory)
      [] OTHER                -> Len(Serialize(KeyedValues(m)).bytes)

\* Message::serialize and that of the kind.
HeaderValues(m) ==
    <<EnumBytes(m.kind), SizeBytes(m.sender), SizeBytes(m.target), SizeBytes(m.id),
      SizeBytes(PayloadSize(m))>>

MessageValues(m) == HeaderValues(m) \o PayloadValues(m)

\* deserialize_as_message_header, for bytes that hold a header.
GetHeader(d) ==
    LET Field(i) == GetSizeT([d EXCEPT !.off = @ + IntSize + i * SizeT]).val
    IN  [kind |-> GetEnum(d).val, sender |-> Field(0), target |-> Field(1),
         id |-> Field(2), size |-> Field(3)]

\* What handle_put, get_requested_dataframe and handle_waitandget make of the
\* payload of a message of the first kinds.
GetKeyed(kind, d) ==
    LET key   == GetKey(d)
        value == IF kind = "Put" /\ key.val.home = NoHome THEN GetDistributedValue(key)
                 ELSE GetDataFrame(key)
    IN  IF kind = "WaitAndGet" THEN [key |-> key.val]
        ELSE [key |-> key.val, value |-> value.val]

\* The constructor of the message's class, given all the bytes that follow the
\* header: it reads as many of them as it needs.
GetPayload(kind, bytes) ==
    LET d == NewDeserializer(SubSeq(bytes, HeaderSize + 1, Len(bytes)))
        address == Get(d, "address", AddressBytes, "?")
    IN  CASE kind = "Status"    -> [msg |-> GetString(d).val]
          [] kind = "Register"  -> [address |-> address.val, port |-> GetSizeT(address).val]
          [] kind = "Directory" -> [directory |-> GetDirectory(d).val]
          [] OTHER              -> GetKeyed(kind, d)

\* deserialize_as_message.
GetMessage(bytes) ==
    LET header  == GetHeader(NewDeserializer(bytes))
        payload == GetPayload(header.kind, bytes)
        fields  == {"kind", "sender", "target", "id"}
    IN  [f \in fields \cup DOMAIN payload |-> IF f \in fields THEN header[f] ELSE payload[f]]
=============================================================================
