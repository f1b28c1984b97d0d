----------------------------- MODULE CsvExport -----------------------------
(***************************************************************************)
(* exportCsv and exportStructuredPrompts (daemon/src/exporters/            *)
(* export_csv.cpp): rows written through a text stream to a device, and,   *)
(* if the device is a file, split into parts when one exceeds a limit. The *)
(* two functions differ in the rows a note gives and in the header; rows   *)
(* stands for all the rows of one export.                                  *)
(*                                                                         *)
(* A text is a sequence of character classes: the quote, the delimiter,    *)
(* the two line ends and any other, each one byte. The byte order mark and *)
(* the header line are one symbol each, of their own size.                 *)
(*                                                                         *)
(* QTextStream holds text back and hands it on when it is flushed, or when *)
(* its buffer is full, which is taken to happen at any time; a file holds  *)
(* back what is written to it directly, until it is flushed or closed. A   *)
(* write to a file may fail, or put only a part of the text on the device, *)
(* and the export does not look. The caller of src/ passes a QBuffer,      *)
(* which is never split and never fails; any caller may pass a file.       *)
(***************************************************************************)
EXTENDS Integers, SequencesExt

CONSTANTS
  Fields,     \* the texts a field may have
  Columns,    \* number of fields of a row
  MaxRows,    \* bound on the number of rows
  HeaderSize, \* bytes of the header line
  Limit       \* 10 * 1024 * 1024 bytes in the code

Chars == {"quote", "delimiter", "newline", "return", "other"}
BomSize == 3

ASSUME CsvAssumption ==
  /\ Fields \subseteq Seq(Chars)
  /\ Columns \in Nat \ {0} /\ MaxRows \in Nat
  /\ HeaderSize \in Nat \ {0}
  /\ Limit \in Nat /\ Limit >= BomSize

VARIABLES
  rows,    \* the rows of the export, as the note store has them
  isFile,  \* qobject_cast<QFile *>(output) is not null
  parts,   \* what the device holds; of a file, in all the parts so far
  kept,    \* what the file holds back: the mark, or what it could not write
  buffer,  \* what the stream holds back
  failed,  \* the status of the stream is WriteFailed
  written, \* bytesWritten
  next,    \* the row to write
  stage,   \* "rows", "over" the limit, "returned" or "killed"
  hole     \* history: a part was opened although the one before had failed

deviceVars == <<parts, kept, buffer, failed>>
vars == <<rows, isFile, deviceVars, written, next, stage, hole>>

\* The state after line 76: output->pos() counts the mark but not the header,
\* which the stream still has.
Init ==
  /\ rows \in UNION {[1..n -> [1..Columns -> Fields]] : n \in 0..MaxRows}
  /\ isFile \in BOOLEAN
  /\ kept = IF isFile THEN <<"bom">> ELSE <<>>
  /\ parts = IF isFile THEN << <<>> >> ELSE << <<"bom">> >>
  /\ buffer = <<"header">> /\ failed = FALSE /\ hole = FALSE
  /\ written = BomSize
  /\ next = 1 /\ stage = "rows"

-----------------------------------------------------------------------------
(* escapeCsvField, and a row.                                              *)

\* '"' is replaced by """", which the compiler reads as two empty literals
\* side by side: the empty string.
WithoutQuotes(field) ==
  FlattenSeq([i \in DOMAIN field |->
                IF field[i] = "quote" THEN <<>> ELSE <<field[i]>>])

NeedsQuotesUnlessReturn(field) ==                                \* mutant
  {"quote", "delimiter", "newline"} \cap ToSet(field) # {}
NeedsQuotes(field) ==
  {"quote", "delimiter", "newline", "return"} \cap ToSet(field) # {}

EscapeCsvField(field) ==
  IF NeedsQuotes(field)
  THEN <<"quote">> \o WithoutQuotes(field) \o <<"quote">>
  ELSE WithoutQuotes(field)

\* fields.join(delimiter), and the end of the line.
Joined(fields) ==
  FlattenSeq([i \in DOMAIN fields |->
                IF i = 1 THEN fields[1] ELSE <<"delimiter">> \o fields[i]])
Line(row) ==
  Joined([i \in 1..Columns |-> EscapeCsvField(row[i])]) \o <<"newline">>

-----------------------------------------------------------------------------
(* The stream and the device.                                              *)

OnDevice(text) == [parts EXCEPT ![Len(parts)] = @ \o text]

\* The stream hands a text to the device: all that was held back before it
\* goes as well.
Flushed(text) == parts' = OnDevice(kept \o text) /\ kept' = <<>>

\* The buffer is full: all of it, or, between stream << line and << '\n', all
\* but the end of the line, goes to the device. (Every 1000 rows the code
\* flushes it as well.) A stream that has failed writes no more.
Spill ==
  /\ stage \in {"rows", "over"} /\ buffer # <<>> /\ ~failed
  /\ \/ Flushed(buffer) /\ buffer' = <<>>
     \/ /\ Last(buffer) = "newline"
        /\ Flushed(Front(buffer)) /\ buffer' = <<"newline">>
  /\ UNCHANGED <<rows, isFile, failed, written, next, stage, hole>>

\* The device takes only the first n of the symbols of a text.
Takes(text, n) ==
  /\ parts' = OnDevice(SubSeq(text, 1, n))
  /\ kept' = SubSeq(text, n + 1, Len(text))

\* One of these writes fails, the last flush of a part included. The stream
\* has let go of the text, and the file may try what is left of it once more.
WriteFails ==
  /\ stage \in {"rows", "over"} /\ buffer # <<>> /\ ~failed /\ isFile
  /\ \E n \in 0..(Len(kept \o buffer) - 1) : Takes(kept \o buffer, n)
  /\ buffer' = <<>> /\ failed' = TRUE
  /\ UNCHANGED <<rows, isFile, written, next, stage, hole>>

OverTheDouble(size) == isFile /\ size > 2 * Limit                \* mutant
Over(size) == isFile /\ size > Limit

WriteRow ==
  /\ stage = "rows" /\ next <= Len(rows)
  /\ LET line == Line(rows[next])
     IN  /\ buffer' = buffer \o line
         /\ written' = written + Len(line)
         /\ stage' = IF Over(written + Len(line)) THEN "over" ELSE "rows"
  /\ next' = next + 1
  /\ UNCHANGED <<rows, isFile, parts, kept, failed, hole>>

\* openNextFile: the mark is written to the file, the header to the stream.
Opens ==
  /\ kept' = <<"bom">>
  /\ written' = BomSize /\ stage' = "rows" /\ failed' = FALSE
  /\ UNCHANGED <<rows, isFile, next>>

\* flush, close and openNextFile.
SplitSameName ==                                                 \* mutant
  /\ stage = "over" /\ ~failed
  /\ parts' = << <<>> >> /\ buffer' = <<"header">> /\ Opens
  /\ UNCHANGED hole
Split ==
  /\ stage = "over" /\ ~failed
  /\ parts' = Append(OnDevice(kept \o buffer), <<>>) /\ buffer' = <<"header">>
  /\ Opens
  /\ UNCHANGED hole

\* The same with a stream that has failed: what it holds is not flushed. close
\* lets the file try again, and setDevice clears the status of the stream but
\* not its text, which goes to the new part, between the mark and the header.
SplitAfterFailure ==
  /\ stage = "over" /\ failed
  /\ \E n \in 0..Len(kept) : parts' = Append(OnDevice(SubSeq(kept, 1, n)), <<>>)
  /\ buffer' = Append(buffer, "header") /\ Opens
  /\ hole' = TRUE

\* openNextFile cannot open the file: the export returns, and says nothing.
SplitFails ==
  /\ stage = "over" /\ stage' = "returned"
  /\ IF failed
     THEN /\ \E n \in 0..Len(kept) : Takes(kept, n)
          /\ UNCHANGED buffer
     ELSE Flushed(buffer) /\ buffer' = <<>>
  /\ UNCHANGED <<rows, isFile, failed, written, next, hole>>

Finish ==
  /\ stage = "rows" /\ next > Len(rows) /\ stage' = "returned"
  /\ IF failed
     THEN UNCHANGED <<parts, kept, buffer>>
     ELSE Flushed(buffer) /\ buffer' = <<>>
  /\ UNCHANGED <<rows, isFile, failed, written, next, hole>>

\* The daemon is killed; what the device has stays.
Killed ==
  /\ stage \in {"rows", "over"}
  /\ stage' = "killed"
  /\ UNCHANGED <<rows, isFile, deviceVars, written, next, hole>>

Next ==
  \/ Spill \/ WriteFails \/ WriteRow
  \/ Split \/ SplitAfterFailure \/ SplitFails \/ Finish \/ Killed

Spec == Init /\ [][Next]_vars

-----------------------------------------------------------------------------
(* A reader of RFC 4180: the rows of a text, one character at a time. It   *)
(* expects the mark and the header at the start, and nowhere else.         *)

\* Between two fields, in a plain one, in a quoted one, or after a quote in a
\* quoted one (its end, or the first of the two that stand for one).
Reader(mode, field, fields, read) ==
  [mode |-> mode, field |-> field, fields |-> fields, rows |-> read]

ReaderStart == Reader("mark", <<>>, <<>>, <<>>)
Ends(r) == Reader("between", <<>>, Append(r.fields, r.field), r.rows)
EndsRow(r) ==
  Reader("between", <<>>, <<>>, Append(r.rows, Append(r.fields, r.field)))
Adds(r, c, mode) == Reader(mode, Append(r.field, c), r.fields, r.rows)
Turns(r, mode) == Reader(mode, r.field, r.fields, r.rows)

Reads(r, c) ==
  CASE r.mode = "malformed" -> r
    [] r.mode = "mark" -> Turns(r, IF c = "bom" THEN "header" ELSE "malformed")
    [] r.mode = "header" ->
         Turns(r, IF c = "header" THEN "between" ELSE "malformed")
    [] r.mode = "quoted" ->
         IF c = "quote" THEN Turns(r, "after") ELSE Adds(r, c, "quoted")
    [] r.mode = "after" /\ c = "quote" -> Adds(r, c, "quoted")
    [] r.mode = "between" /\ c = "quote" -> Turns(r, "quoted")
    [] r.mode \in {"between", "plain", "after"} /\ c = "delimiter" -> Ends(r)
    [] r.mode \in {"between", "plain", "after"} /\ c = "newline" -> EndsRow(r)
    [] r.mode \in {"between", "plain"} /\ c = "other" -> Adds(r, c, "plain")
    [] OTHER -> Turns(r, "malformed")

\* A reader in state r, after it has read the text.
After(r, text) ==
  LET at[i \in 0..Len(text)] == IF i = 0 THEN r ELSE Reads(at[i - 1], text[i])
  IN  at[Len(text)]

\* What a reader gets from texts, one after the other.
RowsOf(texts) ==
  FlattenSeq([i \in DOMAIN texts |-> After(ReaderStart, texts[i]).rows])
ReadBack == RowsOf(parts)

-----------------------------------------------------------------------------
(* Properties.                                                             *)

Readable(n) == [i \in 1..n |-> [k \in 1..Columns |-> WithoutQuotes(rows[i][k])]]

\* No write failed, up to now.
Intact == ~failed /\ ~hole

\* An export that returns, and of which no write failed, has put every row that
\* it came to on the device, across all splits, none twice, and each with its
\* fields told apart: no delimiter or line end in a field breaks the row. That
\* the quotes in the fields are gone is not what the export should do; see
\* FieldsKept.
RowsReadBack == stage = "returned" /\ Intact => ReadBack = Readable(next - 1)

\* Whenever the daemon is killed, and when writes fail, a reader finds the
\* first rows of the export and no broken one, whatever the stream held back,
\* unless the export opened one more part after a failure.
AlwaysAPrefix == ~hole => IsPrefix(ReadBack, Readable(next - 1))

\* What the guide for contributors says of the export, in the words of RFC 4180:
\* a reader has every field again as the note store has it.
FieldsKept == stage = "returned" /\ Intact => ReadBack = SubSeq(rows, 1, next - 1)

SymbolSize(c) ==
  CASE c = "bom" -> BomSize [] c = "header" -> HeaderSize [] OTHER -> 1
SizeOf(text) ==
  Len(FlattenSeq([i \in DOMAIN text |->
                    [byte \in 1..SymbolSize(text[i]) |-> text[i]]]))

\* The parts of a file are split at the limit, give or take the header, which
\* is not counted, and a row: one that was closed is larger than the limit, if
\* all of its writes succeeded, and no part is larger than that by more than
\* the longest row.
SplitAtLimit ==
  LET excess(i) == SizeOf(parts[i]) - HeaderSize - Limit
  IN  isFile /\ ~hole =>
        /\ \A i \in 1..(Len(parts) - 1) : excess(i) > 0
        /\ \A i \in DOMAIN parts :
             excess(i) > 0 =>
               \E k \in DOMAIN rows : excess(i) <= Len(Line(rows[k]))
=============================================================================
