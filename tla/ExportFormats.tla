---------------------------- MODULE ExportFormats ----------------------------
(***************************************************************************)
(* The formats of audit export: the lines format_cef and format_leef make  *)
(* of a record, and how they are read.  A text is a sequence of symbols    *)
(* and a key is one symbol; a record has <<>> where it has no policies or  *)
(* no trace, and its actor is <<>> or the fields' three values.            *)
(***************************************************************************)
EXTENDS Naturals, Sequences, SequencesExt, FiniteSetsExt

Substitute(text, symbol, by) ==
    FlattenSeq([i \in DOMAIN text |-> IF text[i] = symbol THEN by ELSE <<text[i]>>])

EscapeBackslashLast(text) ==
    Substitute(Substitute(Substitute(text, "=", <<"\\", "=">>), "\\", <<"\\", "\\">>),
               "\n", <<" ">>)
Escape(text) ==
    Substitute(Substitute(Substitute(text, "\\", <<"\\", "\\">>), "=", <<"\\", "=">>),
               "\n", <<" ">>)

Outcome(record) == IF record.effect = <<"allow">> THEN <<"Success">> ELSE <<"Failure">>

\* A field that is there when its value is.
Given(key, value) == IF value = <<>> THEN <<>> ELSE <<<<key, value>>>>
ActorFields(record, keys) ==
    [i \in DOMAIN record.actor |-> <<keys[i], record.actor[i]>>]

\* format_cef, without the header and the labels.
CefFields(record) ==
    <<<<"src", record.principal>>, <<"suser", record.principal>>, <<"act", record.action>>,
      <<"outcome", Outcome(record)>>, <<"cs1", record.effect>>,
      <<"cs2", record.policies>>, <<"cs3", record.resource>>>>
    \o ActorFields(record, <<"cs4", "cs5", "cs6">>)

\* format_leef, without the header and the time.
LeefFields(record) ==
    <<<<"usrName", record.principal>>, <<"action", record.action>>,
      <<"outcome", Outcome(record)>>, <<"src", record.resource>>>>
    \o Given("agentguardPolicy", record.policies) \o Given("traceId", record.trace)
    \o ActorFields(record, <<"actor", "credential", "actAs">>)

FieldsOf(format, record) == IF format = "cef" THEN CefFields(record) ELSE LeefFields(record)

Format(format, record) ==
    LET fields == FieldsOf(format, record)
    IN  FlattenSeq([i \in DOMAIN fields |->
                       <<" ", fields[i][1], "=">> \o Escape(fields[i][2])])

\* How such a line is read: a backslash makes the next symbol a plain one, and an
\* equals sign that is not plain ends a key and begins a value.
Symbols(line) ==
    LET Backslashes(i) ==   \* right before i
            Max({n \in 0..(i - 1) : \A j \in (i - n)..(i - 1) : line[j] = "\\"})
        IsPlain(i) == Backslashes(i) % 2 = 1
        read == SelectSeq([i \in DOMAIN line |-> i], LAMBDA i : line[i] # "\\" \/ IsPlain(i))
    IN  [k \in DOMAIN read |-> <<line[read[k]], IsPlain(read[k])>>]

ReadFields(line) ==
    LET symbols == Symbols(line)
        marks == SelectSeq([i \in DOMAIN symbols |-> i],
                           LAMBDA i : symbols[i] = <<"=", FALSE>>)
        End(k) == IF k = Len(marks) THEN Len(symbols) ELSE marks[k + 1] - 3
    IN  [k \in DOMAIN marks |->
            <<symbols[marks[k] - 1][1],
              [i \in 1..(End(k) - marks[k]) |-> symbols[marks[k] + i][1]]>>]

OnOneLine(text) == Substitute(text, "\n", <<" ">>)

-----------------------------------------------------------------------------
\* audit export: the fields of a CEF or LEEF line read back to the record's
\* values, with a space for a line feed and anything else as it is (escape).
FieldsReadBack(records) ==
    \A record \in records, format \in {"cef", "leef"} :
        LET fields == FieldsOf(format, record)
        IN  ReadFields(Format(format, record)) =
                [i \in DOMAIN fields |-> <<fields[i][1], OnOneLine(fields[i][2])>>]
=============================================================================
