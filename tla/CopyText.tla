------------------------------ MODULE CopyText ------------------------------
(***************************************************************************)
(* How a TSV dump becomes Postgres COPY text (src/sources/imdb.rs): the    *)
(* reader's records, the skipped header and short rows, NULLs, booleans    *)
(* and escapes. A text is a sequence of characters; "H" stands for the     *)
(* header's first column name. A nullable value is a set of at most one.   *)
(***************************************************************************)
EXTENDS Integers, Sequences

CONSTANTS Characters,   \* that a dump may hold
          Columns,      \* a dataset's columns
          Booleans      \* those of its columns that are booleans
VARIABLE dump           \* as far as it has been read

ASSUME CopyTextAssumption ==
  /\ Columns \in Nat \ {0} /\ Booleans \subseteq 1..Columns

Concat(parts) ==
  LET upTo[n \in 0..Len(parts)] == IF n = 0 THEN <<>> ELSE upTo[n - 1] \o parts[n]
  IN  upTo[Len(parts)]

\* The pieces so far, after a character that separates two or belongs to the last.
CutAt(pieces, ch, seps) ==
  IF ch \in seps THEN Append(pieces, <<>>)
  ELSE [pieces EXCEPT ![Len(pieces)] = Append(@, ch)]

\* A text cut at every separator.
Cut(text, seps) ==
  LET pieces[n \in 0..Len(text)] == IF n = 0 THEN << <<>> >> ELSE CutAt(pieces[n - 1], text[n], seps)
  IN  pieces[Len(text)]

\* tsv_reader: no quoting, any number of fields, empty lines skipped.
Records(text) ==
  LET lines == Cut(text, {"\n", "\r"})
  IN  Concat([i \in DOMAIN lines |-> IF lines[i] = <<>> THEN <<>> ELSE <<Cut(lines[i], {"\t"})>>])

\* The load loop: the header row and short rows are skipped.
Loaded(records) ==
  LET header(i) == i = 1 /\ records[i][1] = <<"H">>
      skipped(i) == header(i) \/ Len(records[i]) < Columns
  IN  Concat([i \in DOMAIN records |-> IF skipped(i) THEN <<>> ELSE <<records[i]>>])

Field(raw) == IF raw \in {<<>>, <<"\\", "N">>} THEN {} ELSE {raw}
BoolField(raw) ==
  CASE raw = <<"0">> -> {<<"f">>}
    [] raw = <<"1">> -> {<<"t">>}
    [] OTHER -> {}

\* to_copy_fields.
CopyFields(record) ==
  [i \in 1..Columns |-> IF i \in Booleans THEN BoolField(record[i]) ELSE Field(record[i])]

\* Mutant of EscapeChar: only what would break the framing is escaped.
EscapeFraming(ch) ==
  CASE ch = "\t" -> <<"\\", "t">>
    [] ch = "\n" -> <<"\\", "n">>
    [] ch = "\r" -> <<"\\", "r">>
    [] OTHER -> <<ch>>

EscapeChar(ch) ==
  CASE ch = "\\" -> <<"\\", "\\">>
    [] ch = "\t" -> <<"\\", "t">>
    [] ch = "\n" -> <<"\\", "n">>
    [] ch = "\r" -> <<"\\", "r">>
    [] OTHER -> <<ch>>

EscapeCopy(value) == Concat([i \in DOMAIN value |-> EscapeChar(value[i])])

Join(parts, sep) ==
  Concat([i \in DOMAIN parts |-> IF i = 1 THEN parts[i] ELSE <<sep>> \o parts[i]])

CopyField(f) == IF f = {} THEN <<"\\", "N">> ELSE EscapeCopy(CHOOSE v \in f : TRUE)
CopyLine(fields) == Join([i \in DOMAIN fields |-> CopyField(fields[i])], "\t")

\* The rows of a dump, and what is sent to the server for it.
Rows(text) == Loaded(Records(text))
Stream(text) ==
  Concat([i \in DOMAIN Rows(text) |-> CopyLine(CopyFields(Rows(text)[i])) \o <<"\n">>])

(***************************************************************************)
(* What the server reads: lines, fields, `\N`, and escapes.                *)
(***************************************************************************)
Plain(ch) == CASE ch = "t" -> "\t" [] ch = "n" -> "\n" [] ch = "r" -> "\r" [] OTHER -> ch
ReadChar(s, ch) ==
  IF s.esc THEN [out |-> Append(s.out, Plain(ch)), esc |-> FALSE]
  ELSE IF ch = "\\" THEN [out |-> s.out, esc |-> TRUE]
  ELSE [out |-> Append(s.out, ch), esc |-> FALSE]
Reading(raw) ==
  LET read[n \in 0..Len(raw)] ==
        IF n = 0 THEN [out |-> <<>>, esc |-> FALSE] ELSE ReadChar(read[n - 1], raw[n])
  IN  read[Len(raw)]
Unescaped(raw) == Reading(raw).out

Value(raw) == IF raw = <<"\\", "N">> THEN {} ELSE {Unescaped(raw)}
Fields(line) == LET parts == Cut(line, {"\t"}) IN [i \in DOMAIN parts |-> Value(parts[i])]
CopiedIn(stream) ==
  LET lines == Cut(stream, {"\n"}) IN [i \in 1..(Len(lines) - 1) |-> Fields(lines[i])]

(***************************************************************************)
(* A dump, read character by character, and another.                       *)
(***************************************************************************)
CopyInit == dump = <<>>
Read == \E ch \in Characters : dump' = Append(dump, ch)
Finish == dump' = <<>>
CopySpec == CopyInit /\ [][Read \/ Finish]_dump

\* Whatever a dump holds, the table gets one row per data line with every column,
\* and each column's value, backslashes and `\N` lookalikes included ("so embedded
\* control chars in a title can never break the row framing").
CopyLossless ==
  CopiedIn(Stream(dump)) = [i \in DOMAIN Rows(dump) |-> CopyFields(Rows(dump)[i])]
=============================================================================
