----------------------------- MODULE MCTransfer -----------------------------
(* Messages of every kind, alone, in pairs and three in a row: segments of   *)
(* every column type with and without missing entries, a directory with an   *)
(* empty slot.  The widths are scaled down and keep their order.             *)
EXTENDS Transfer

name == <<"k">>
file == <<[type |-> "S", entries |-> << << <<"a", "b">> >>, << <<>> >> >>],
          [type |-> "I", entries |-> << <<7>>, Missing>>]>>
flags == <<[type |-> "B", entries |-> <<Missing, <<TRUE>> >>],
           [type |-> "F", entries |-> << <<5>>, <<6>> >>]>>
gap  == <<[type |-> "S", entries |-> << << <<"a">> >>, Missing>>]>>

PutSegment == [kind |-> "Put", id |-> 0, key |-> [home |-> 1, name |-> name], set |-> file]
PutGap     == [kind |-> "Put", id |-> 0, key |-> [home |-> 1, name |-> name], set |-> gap]
PutValue   == [kind |-> "Put", id |-> 0, key |-> [home |-> NoHome, name |-> name],
               value |-> [types |-> <<"S", "I">>, nrows |-> 2]]
Ask        == [kind |-> "WaitAndGet", id |-> 0, key |-> [home |-> 1, name |-> name]]
Answer     == [kind |-> "Reply", id |-> 0, key |-> [home |-> 1, name |-> name], set |-> flags]
Note       == [kind |-> "Status", id |-> 0, msg |-> <<"o", "k">>]
SignOn     == [kind |-> "Register", id |-> 0, address |-> "n1", port |-> 3]
Table      == [kind |-> "Directory", id |-> 0,
               directory |-> RemoveConnection(
                   AddConnection(AddConnection(NewDirectory(2), 1, <<"r">>, 1), 2, <<"s">>, 2), 2)]

MCOutboxes == {<<SignOn, Table>>, <<Table, Note>>, <<PutSegment>>, <<PutValue, Ask>>,
               <<Answer, Ask>>, <<Ask, PutGap>>, <<Note, SignOn, Ask>>}
=============================================================================
