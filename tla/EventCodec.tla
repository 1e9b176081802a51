----------------------------- MODULE EventCodec -----------------------------
(***************************************************************************)
(* The payload of a Kafka message (cpp/ingestion/event_codec.cpp): an event   *)
(* as a flat JSON object, and its hand-written parser.  A text is a sequence  *)
(* of characters; what nothing looks into (a key with its quotes and its colon,  *)
(* the name of a side) counts as one.  encode() writes no white space.        *)
(***************************************************************************)
EXTENDS Naturals, Sequences, SequencesExt, TLC

Quote == "quote"
Backslash == "backslash"
Newline == "newline"
Digits == {"0", "1", "2", "-", "."}

\* The fields that encode() writes, in order; the numbers among them; the enumerations.
FieldsOf(type) ==
  IF type = "order"
  THEN <<"order_id", "account_id", "instrument_id", "side", "price", "qty", "order_type",
         "timestamp_ns", "status", "venue", "orig_order_id">>
  ELSE <<"trade_id", "order_id", "account_id", "instrument_id", "side", "price", "qty",
         "timestamp_ns", "counterparty_account_id", "venue">>
Numbers == {"price", "qty", "timestamp_ns"}
Enumerated == [side |-> {"Buy", "Sell"}, order_type |-> {"Limit", "Market"},
               status |-> {"New", "Cancelled", "Replaced"}]

\* Fault: only the quote is escaped.
EscapedQuote(value) == FlattenSeq([k \in DOMAIN value |->
  IF value[k] = Quote THEN <<Backslash, Quote>> ELSE <<value[k]>>])

\* escape_json
Escaped(value) == FlattenSeq([k \in DOMAIN value |->
  CASE value[k] \in {Quote, Backslash} -> <<Backslash, value[k]>>
    [] value[k] = Newline -> <<Backslash, "n">>
    [] OTHER -> <<value[k]>>])

Member(key, value) ==
  <<key>> \o IF key \in Numbers THEN value ELSE <<Quote>> \o Escaped(value) \o <<Quote>>

Encode(event) ==
  LET fields == FieldsOf(event.type)
  IN <<"{">> \o Member("type", <<event.type>>)
       \o FlattenSeq([k \in DOMAIN fields |-> <<",">> \o Member(fields[k], event.fields[fields[k]])])
       \o <<"}">>

-----------------------------------------------------------------------------
\* FlatJsonParser, a character at a time.

Keys == {"type"} \cup Range(FieldsOf("order")) \cup Range(FieldsOf("execution"))
Read(s, characters, mode) == [s EXCEPT !.text = @ \o characters, !.mode = mode]
Stored(s, mode) == [s EXCEPT !.fields = (s.key :> s.text) @@ @, !.mode = mode]

Scan(s, c) ==
  CASE s.mode = "open"   /\ c = "{" -> [s EXCEPT !.mode = "first"]
    [] s.mode = "first"  /\ c = "}" -> [s EXCEPT !.mode = "done"]
    [] s.mode \in {"first", "member"} /\ c \in Keys -> [s EXCEPT !.key = c, !.text = <<>>, !.mode = "value"]
    [] s.mode = "value"  /\ c = Quote -> [s EXCEPT !.mode = "string"]
    [] s.mode \in {"value", "number"} /\ c \in Digits -> Read(s, <<c>>, "number")
    [] s.mode \in {"number", "after"} /\ c = "," -> Stored(s, "member")
    [] s.mode \in {"number", "after"} /\ c = "}" -> Stored(s, "done")
    [] s.mode = "string" /\ c = Backslash -> [s EXCEPT !.mode = "escape"]
    [] s.mode = "string" /\ c = Quote -> [s EXCEPT !.mode = "after"]
    [] s.mode = "string" -> Read(s, <<c>>, "string")
    [] s.mode = "escape" /\ c \in {Quote, Backslash} -> Read(s, <<c>>, "string")
    [] s.mode = "escape" /\ c = "n" -> Read(s, <<Newline>>, "string")
    [] s.mode = "escape" -> Read(s, <<Backslash, c>>, "string")
    [] s.mode = "done" -> s
    [] OTHER -> [s EXCEPT !.mode = "error"]

\* The state after the whole text, as a set of one.
Parsed(text) ==
  LET after[k \in Nat] ==
        IF k = 0 THEN {[mode |-> "open", key |-> "none", text |-> <<>>, fields |-> <<>>]}
        ELSE {Scan(s, text[k]) : s \in after[k - 1]}
  IN after[Len(text)]

\* decode() throws unless every field of the type is there and every enumeration is known.
Complete(s) ==
  /\ s.mode = "done" /\ "type" \in DOMAIN s.fields
  /\ s.fields["type"] \in {<<"order">>, <<"execution">>}
  /\ LET names == Range(FieldsOf(s.fields["type"][1]))
     IN /\ names \subseteq DOMAIN s.fields
        /\ \A f \in names \cap DOMAIN Enumerated : \E v \in Enumerated[f] : s.fields[f] = <<v>>

\* The event a payload holds, if any.
Decode(text) ==
  {[type |-> s.fields["type"][1],
    fields |-> [f \in Range(FieldsOf(s.fields["type"][1])) |-> s.fields[f]]] :
     s \in {p \in Parsed(text) : Complete(p)}}
=============================================================================
