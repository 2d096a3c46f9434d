------------------------------ MODULE DatacRows ------------------------------
(***************************************************************************)
(* parseDatacRows: the rows of a .datac file, read line by line.  A row    *)
(* may take one line or several; its fields are collected in rowBuf, which *)
(* a blank line, the end of the table, or a line that begins with a key    *)
(* rowBuf already has turns into a row.                                    *)
(*                                                                         *)
(* rowBuf is text.  Two things about the text matter: whether "key:" is    *)
(* found somewhere in it, also at the end of a longer key or in a value,   *)
(* and where a quote opens, because a comma in quotes ends no field.       *)
(***************************************************************************)
EXTENDS Integers, Sequences, FiniteSets, SequencesExt

CONSTANTS
  Keys,      \* the keys of fields
  TailOf     \* <<k, l>>: key l ends with the letters of key k

(* A field of the text: whether its value has an odd number of quote       *)
(* characters (an apostrophe in a quoted word), and the keys whose "key:"  *)
(* the value contains.                                                     *)
Field == [key : Keys, odd : BOOLEAN, says : SUBSET Keys]

(* A line opens a table, closes it, is blank, has fields, or, outside of a *)
(* table, is part of a schema.  The line that opens may have fields.  A    *)
(* document is its lines, and the rows its author wrote.                   *)
Line == [kind : {"open", "close", "blank", "fields", "schema"}, fields : Seq(Field)]

VARIABLES
  doc,      \* the file
  at,       \* the number of the line that getline returns next
  inBlock,  \* inside of a table
  rowBuf,   \* the fields of the row that is being collected
  rows      \* the rows so far: sequences of [key, whole], where `whole`
            \* says that the value is this field's and no more

vars == <<doc, at, inBlock, rowBuf, rows>>

NoDocument == [lines |-> <<>>, rows |-> <<>>]
(* The call of parseDatacRows, and between two of them.                    *)
Parses(d) ==
  /\ doc' = d
  /\ at' = 1
  /\ inBlock' = FALSE
  /\ rowBuf' = <<>>
  /\ rows' = <<>>
Idle == doc = NoDocument /\ at = 0 /\ inBlock = FALSE /\ rowBuf = <<>> /\ rows = <<>>

Lines == doc.lines
Here == Lines[at]
Reads(kind) == at <= Len(Lines) /\ Here.kind = kind

-----------------------------------------------------------------------------
(* flushRow: rowBuf is split at the commas outside of quotes.  A field     *)
(* begins a part if an even number of odd fields precede it; otherwise it  *)
(* is taken for more of the value before it.                               *)
InQuotes(buf, i) == Cardinality({j \in 1..(i - 1) : buf[j].odd}) % 2 = 1

Row ==
  LET starts == SetToSortSeq({i \in 1..Len(rowBuf) : ~InQuotes(rowBuf, i)}, <)
  IN [n \in 1..Len(starts) |->
        [key   |-> rowBuf[starts[n]].key,
         whole |-> starts[n] + 1 \in ToSet(starts) \cup {Len(rowBuf) + 1}]]

Flushed == IF rowBuf = <<>> THEN rows ELSE Append(rows, Row)

(* "tablename {", with or without fields; other lines are no table's.      *)
Outside ==
  /\ ~inBlock
  /\ at <= Len(Lines)
  /\ \/ /\ Here.kind = "open"
        /\ inBlock' = TRUE
        /\ rowBuf' = IF Here.fields = <<>> THEN rowBuf ELSE Here.fields
     \/ /\ Here.kind # "open"
        /\ UNCHANGED <<inBlock, rowBuf>>
  /\ at' = at + 1
  /\ UNCHANGED <<doc, rows>>

(* "}": the table is over.                                                 *)
Close ==
  /\ inBlock /\ Reads("close")
  /\ rows' = Flushed
  /\ rowBuf' = <<>>
  /\ inBlock' = FALSE
  /\ at' = at + 1
  /\ UNCHANGED doc

Blank ==
  /\ inBlock /\ Reads("blank")
  /\ rows' = Flushed
  /\ rowBuf' = <<>>
  /\ at' = at + 1
  /\ UNCHANGED <<doc, inBlock>>

(* rowBuf.find(key + ":")                                                  *)
Occurs(k) == \E i \in 1..Len(rowBuf) : <<k, rowBuf[i].key>> \in TailOf
                                         \/ k \in rowBuf[i].says

(* A line of fields goes on with the row, or starts one.                   *)
Fields ==
  /\ inBlock /\ Reads("fields")
  /\ \/ /\ Occurs(Here.fields[1].key)
        /\ rows' = Flushed
        /\ rowBuf' = Here.fields
     \/ /\ ~Occurs(Here.fields[1].key)
        /\ rowBuf' = rowBuf \o Here.fields
        /\ UNCHANGED rows
  /\ at' = at + 1
  /\ UNCHANGED <<doc, inBlock>>

(* The end of the file ends the last row.                                  *)
EndOfFile ==
  /\ at = Len(Lines) + 1
  /\ rows' = Flushed
  /\ rowBuf' = <<>>
  /\ at' = at + 1
  /\ UNCHANGED <<doc, inBlock>>

Next == Outside \/ Close \/ Blank \/ Fields \/ EndOfFile

Finished == at = Len(Lines) + 2

-----------------------------------------------------------------------------
(* Properties.                                                             *)

(* A file the parser is made for: its rows begin with the same key, quotes *)
(* come in pairs, and "key:" is found in a row only where the key stands.  *)
Clean(d) ==
  /\ \A n \in 1..Len(d.rows) : d.rows[n][1].key = d.rows[1][1].key
  /\ \A n \in 1..Len(d.rows) : \A i, j \in 1..Len(d.rows[n]) :
       /\ ~d.rows[n][i].odd
       /\ i < j => /\ <<d.rows[n][j].key, d.rows[n][i].key>> \notin TailOf
                   /\ d.rows[n][j].key \notin d.rows[n][i].says

(* Every row is what its author wrote: its fields and no others, in order, *)
(* with their own values ("returns rows as lists of (key, formatted-value) *)
(* pairs").  It does not hold of a file that is not clean: see the README. *)
Whole(r) == [i \in 1..Len(r) |-> [key |-> r[i].key, whole |-> TRUE]]
AuthorsRows(d) == [n \in 1..Len(d.rows) |-> Whole(d.rows[n])]
=============================================================================
