---------------------------- MODULE PgTextArray ----------------------------
(***************************************************************************)
(* The text of a Postgres TEXT[] column, as cpp/db/alert_store.cpp writes    *)
(* and reads it, and as the server reads and prints it.  A string is a       *)
(* sequence of characters, of which only the five that the syntax gives a    *)
(* meaning to are told apart.                                                *)
(***************************************************************************)
EXTENDS Sequences, SequencesExt

Quote == "quote"
Backslash == "backslash"
Comma == "comma"
Braced(text) == <<"open">> \o text \o <<"close">>
Special == {Quote, Backslash, Comma, "open", "close"}

Escaped(item) == FlattenSeq([k \in DOMAIN item |->
  IF item[k] \in {Quote, Backslash} THEN <<Backslash, item[k]>> ELSE <<item[k]>>])
Quoted(item) == <<Quote>> \o Escaped(item) \o <<Quote>>

Joined(items) == FlattenSeq([k \in DOMAIN items |->
  IF k = 1 THEN items[k] ELSE <<Comma>> \o items[k]])

ToPgTextArray(items) == Braced(Joined([k \in DOMAIN items |-> Quoted(items[k])]))

\* The server: the array a literal denotes (one of those the program can mean, or none),
\* and what array_out prints: an element is quoted only where it must be.
ArrayIn(literal, Known) == {items \in Known :
  literal = Braced(Joined([k \in DOMAIN items |-> <<Quote>> \o Escaped(items[k]) \o <<Quote>>]))}
ArrayOut(items) == Braced(Joined([k \in DOMAIN items |->
  IF items[k] = <<>> \/ \E c \in Special : c \in Range(items[k]) THEN Quoted(items[k]) ELSE items[k]]))

\* One character of the scan: an element is pushed where it ends.
Scan(s, c) ==
  CASE s.mode = "between" /\ c = Comma     -> s
    [] s.mode = "between" /\ c = Quote     -> [s EXCEPT !.mode = "quoted"]
    [] s.mode = "between"                  -> [s EXCEPT !.mode = "plain", !.element = <<c>>]
    [] s.mode = "plain" /\ c = Comma       -> [items |-> Append(s.items, s.element), element |-> <<>>, mode |-> "between"]
    [] s.mode = "quoted" /\ c = Backslash  -> [s EXCEPT !.mode = "escaped"]
    [] s.mode = "quoted" /\ c = Quote      -> [items |-> Append(s.items, s.element), element |-> <<>>, mode |-> "between"]
    [] OTHER -> [s EXCEPT !.element = Append(@, c), !.mode = IF s.mode = "escaped" THEN "quoted" ELSE @]

Scanned(text) == FoldLeft(Scan, [items |-> <<>>, element |-> <<>>, mode |-> "between"], text)

FromPgTextArray(text) ==
  IF Len(text) < 2 \/ Head(text) # "open" \/ Last(text) # "close" THEN <<>>
  ELSE LET s == Scanned(SubSeq(text, 2, Len(text) - 1))
       IN  IF s.mode = "between" THEN s.items ELSE Append(s.items, s.element)
=============================================================================
