------------------------------ MODULE DataFrame ------------------------------
(***************************************************************************)
(* The local dataframes of eau2 (src/src/dataframe/): columns of one type  *)
(* each, rows added to them and copied out of them, CopyWriter, the coding *)
(* of a segment as bytes, and the rows SorerWriter makes of the columns a  *)
(* .sor parser has found.                                                  *)
(***************************************************************************)
EXTENDS Serializer

ColumnTypes == {"B", "I", "F", "S"}     \* ColumnType_t

\* What fills a cell nobody has set: push_back in fill_row, r.set in SorerWriter.
Default(type) == CASE type = "B" -> FALSE
                   [] type = "S" -> Null
                   [] OTHER      -> 0

-----------------------------------------------------------------------------
\* A DataFrame made from a schema, the sequence of its columns' types.
NewDataFrame(types) ==
    [types |-> types, cols |-> [c \in DOMAIN types |-> <<>>], nrows |-> 0]

AddColumn(df, type, values) ==
    [types |-> Append(df.types, type),
     cols  |-> Append(df.cols, values),
     nrows |-> Max({df.nrows, Len(values)})]

\* A column's entry idx, counted from 0 as in the code, and a column with
\* another value there (DF_Column::get and set).
Cell(col, idx)         == col[idx + 1]
SetCell(col, idx, val) == [col EXCEPT ![idx + 1] = val]

\* A column after as many push_back as make it length entries long.
Padded(col, type, length) ==
    col \o [k \in 1 .. Max({0, length - Len(col)}) |-> Default(type)]

\* fill_row: pad every column up to row idx, then set it there.
FillRow(df, idx, row) ==
    [df EXCEPT !.cols  = [c \in DOMAIN df.cols |->
                            SetCell(Padded(df.cols[c], df.types[c], idx + 1), idx, row[c])],
               !.nrows = Max({@, idx + 1})]

AddRow(df, row) == FillRow(df, df.nrows, row)

CopyRow(df, r) == [c \in DOMAIN df.types |-> Cell(df.cols[c], r)]

\* What map hands its Rower, in order.
MappedRows(df) == [r \in 1 .. df.nrows |-> CopyRow(df, r - 1)]

\* from_visitor with a CopyWriter, as wait_and_get_df copies a local segment.
CopyOf(df) ==
    LET visited[curr_row \in 0 .. df.nrows] ==
            IF curr_row = 0 THEN NewDataFrame(df.types)
            ELSE AddRow(visited[curr_row - 1], CopyRow(df, curr_row - 1))
    IN  visited[df.nrows]

-----------------------------------------------------------------------------
\* DataFrame::serialize dereferences every string.
Serializable(df) ==
    \A c \in DOMAIN df.types : df.types[c] = "S" => Null \notin Range(df.cols[c])

ValueBytes(type, v) == CASE type = "B" -> <<BoolBytes(v)>>
                         [] type = "I" -> <<IntBytes(v)>>
                         [] type = "F" -> <<DoubleBytes(v)>>
                         [] OTHER      -> StringValues(v)

\* The values DataFrame::serialize sets: the columns one after the other.
DataFrameValues(df) ==
    LET Column(c) == <<EnumBytes(df.types[c])>> \o
                     FlattenSeq([r \in 1 .. df.nrows |->
                                    ValueBytes(df.types[c], Cell(df.cols[c], r - 1))])
    IN  <<SizeBytes(Len(df.types)), SizeBytes(df.nrows)>> \o
        FlattenSeq([c \in DOMAIN df.types |-> Column(c)])

GetValue(type, d) == CASE type = "B" -> GetBool(d)
                       [] type = "I" -> GetInt(d)
                       [] type = "F" -> GetDouble(d)
                       [] OTHER      -> GetString(d)

\* One iteration of its loop: the type of a column, its values, add_column.
ReadColumn(acc, nrows) ==
    LET type   == GetEnum(acc.d)
        values == GetMany(LAMBDA e : GetValue(type.val, e), type, nrows)
    IN  [d |-> values, df |-> AddColumn(acc.df, type.val, values.val)]

\* deserialize_as_dataframe.
GetDataFrame(d) ==
    LET ncols == GetSizeT(d)
        nrows == GetSizeT(ncols)
        read[c \in 0 .. ncols.val] ==
            IF c = 0 THEN [d |-> nrows, df |-> NewDataFrame(<<>>)]
            ELSE ReadColumn(read[c - 1], nrows.val)
    IN  [read[ncols.val].d EXCEPT !.val = read[ncols.val].df]

-----------------------------------------------------------------------------
\* The columns of a parsed .sor file: a type, which the parser may leave
\* "UNKNOWN", and the entries, <<value>> each, or Missing where there is none.
Missing == <<>>

\* What a parsed file holds if a type was found for every column.
Entry(type) ==
    {Missing} \cup [1 .. 1 -> CASE type = "B" -> BOOLEAN
                               [] type = "S" -> Text
                               [] OTHER      -> Int]
ColumnOf(type) == [type : {type}, entries : Seq(Entry(type))]
File == {set \in Seq(ColumnOf("B") \cup ColumnOf("I") \cup ColumnOf("F") \cup ColumnOf("S")) :
            set # <<>> /\ \A c \in DOMAIN set : Len(set[c].entries) = Len(set[1].entries)}

\* parse: a column of unknown type has no place in the schema.
SorerSchema(set) ==
    LET schema[c \in 0 .. Len(set)] ==
            IF c = 0 THEN <<>>
            ELSE IF set[c].type = "UNKNOWN" THEN schema[c - 1]
            ELSE Append(schema[c - 1], set[c].type)
    IN  schema[Len(set)]

\* Faulty: the row of a column that has entries is taken from the one before.
SorerRowMissingSkipped(set, r) ==
    [c \in DOMAIN SorerSchema(set) |->
        LET entries == SelectSeq(set[c].entries, LAMBDA e : e # Missing)
        IN  IF r + 1 <= Len(entries) THEN entries[r + 1][1] ELSE Default(set[c].type)]

\* SorerWriter::visit sets column c of the row from column c of the file; that
\* is right if no column is left out of the schema.
SorerRow(set, r) ==
    [c \in DOMAIN SorerSchema(set) |->
        IF set[c].entries[r + 1] = Missing THEN Default(set[c].type)
        ELSE set[c].entries[r + 1][1]]

\* convert: the rows of the file become those of the value, here one segment.
Convert(set) ==
    LET visited[r \in 0 .. Len(set[1].entries)] ==
            IF r = 0 THEN NewDataFrame(SorerSchema(set))
            ELSE AddRow(visited[r - 1], SorerRow(set, r - 1))
    IN  visited[Len(set[1].entries)]
=============================================================================
