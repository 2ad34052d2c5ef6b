------------------------ MODULE TransferFormats -------------------------
(***************************************************************************)
(* What the three plaintext formats do to an account: the text that an     *)
(* export writes and the accounts that an import makes of it.  A text is a *)
(* sequence of characters: those that a format treats specially, and any   *)
(* others.  "lt;", "amp;" and "quot;" are the ends of XML entities and     *)
(* "Email" is the word that marks an address in the notes, typed by a user *)
(* or written by an escape alike; "separator" is the line between two 1PIF *)
(* records; ">" and the apostrophe are treated as "<" and the quotation    *)
(* mark are.  Time stamps, headers and the file's mode are left out.       *)
(***************************************************************************)
EXTENDS Integers, SequencesExt, Subsequences

CONSTANT Chars      \* the characters of the texts

ASSUME CharsAssumption ==
    {"comma", "quote", "newline", "<", "&", "lt;", "amp;", "quot;",
     "backslash", "n", "brace", "Email", "separator"} \subseteq Chars

Formats == {"csv", "xml", "1pif"}
Columns == <<"name", "user", "password", "email", "website", "notes">>
\* An account's texts.
Text == Seq(Chars)
Record == [name : Text, user : Text, password : Text,
           email : Text, website : Text, notes : Text]
Empty == [name |-> <<>>, user |-> <<>>, password |-> <<>>,
          email |-> <<>>, website |-> <<>>, notes |-> <<>>]

Mapped(Op(_), s) == [i \in DOMAIN s |-> Op(s[i])]
Has(text, c) == Contains(text, c)
Escaped(text, escape) ==
    FlattenSeq([i \in DOMAIN text |->
        IF text[i] \in DOMAIN escape THEN escape[text[i]] ELSE <<text[i]>>])
PairAt(text, i, pair) == i < Len(text) /\ <<text[i], text[i + 1]>> = pair
HasPair(text, pair) == \E i \in DOMAIN text : PairAt(text, i, pair)
\* find: the text has the run somewhere.
Occurs(run, text) ==
    \E i \in 0..(Len(text) - Len(run)) : \A j \in 1..Len(run) : text[i + j] = run[j]

\* Every occurrence of the pair becomes one c, from the left.
Collapsed(text, pair, c) ==
    LET step[i \in 0..Len(text)] ==
            IF i = 0 THEN [out |-> <<>>, skip |-> FALSE]
            ELSE LET s == step[i - 1] IN
                 IF s.skip THEN [s EXCEPT !.skip = FALSE]
                 ELSE IF PairAt(text, i, pair)
                      THEN [out |-> Append(s.out, c), skip |-> TRUE]
                      ELSE [s EXCEPT !.out = Append(@, text[i])]
    IN step[Len(text)].out

\* The notes of XML and 1PIF carry the email address.
WithEmail(a) ==
    IF a.email = <<>> THEN a.notes
    ELSE <<"Email">> \o a.email
         \o (IF a.notes = <<>> THEN <<>> ELSE <<"newline", "newline">> \o a.notes)
SplitNotes(a, notes) ==
    LET blanks == {i \in DOMAIN notes : PairAt(notes, i, <<"newline", "newline">>)}
        first == Min(blanks)
    IN IF notes = <<>> \/ Head(notes) # "Email" THEN [a EXCEPT !.notes = notes]
       ELSE IF blanks = {} THEN [a EXCEPT !.email = Tail(notes)]
       ELSE [a EXCEPT !.email = SubSeq(notes, 2, first - 1),
                      !.notes = SubSeq(notes, first + 2, Len(notes))]
-----------------------------------------------------------------------------
(* CSV *)

\* Only a comma or a line break makes a field quoted.
CsvField_BareQuotes(text) ==
    IF Has(text, "comma") \/ Has(text, "newline")
    THEN <<"quote">> \o Escaped(text, [quote |-> <<"quote", "quote">>]) \o <<"quote">>
    ELSE text
CsvField(text) ==
    IF \E c \in {"comma", "quote", "newline"} : Has(text, c)
    THEN <<"quote">> \o Escaped(text, [quote |-> <<"quote", "quote">>]) \o <<"quote">>
    ELSE text
CsvLine(a) ==
    FlattenSeq([i \in DOMAIN Columns |->
        CsvField(a[Columns[i]]) \o (IF i < Len(Columns) THEN <<"comma">> ELSE <<"newline">>)])
\* getline ends a line at every line break, also within quotation marks, and
\* the last one where the file ends.
Lines(text) ==
    LET step[i \in 0..Len(text)] ==
            IF i = 0 THEN [lines |-> <<>>, line |-> <<>>]
            ELSE LET s == step[i - 1] IN
                 IF text[i] = "newline" THEN [lines |-> Append(s.lines, s.line), line |-> <<>>]
                 ELSE [s EXCEPT !.line = Append(@, text[i])]
        end == step[Len(text)]
    IN IF end.line = <<>> THEN end.lines ELSE Append(end.lines, end.line)

UnescapeCsv(text) ==
    IF text # <<>> /\ Head(text) = "quote" /\ Last(text) = "quote"
    THEN Collapsed(SubSeq(text, 2, Len(text) - 1), <<"quote", "quote">>, "quote")
    ELSE text
CsvFields(line) ==
    LET scan[i \in 0..Len(line)] ==
            IF i = 0 THEN [fields |-> <<>>, current |-> <<>>, quoted |-> FALSE, skip |-> FALSE]
            ELSE LET s == scan[i - 1] IN
                 IF s.skip THEN [s EXCEPT !.skip = FALSE]
                 ELSE IF line[i] = "quote" /\ s.quoted /\ PairAt(line, i, <<"quote", "quote">>)
                 THEN [s EXCEPT !.current = Append(@, "quote"), !.skip = TRUE]
                 ELSE IF line[i] = "comma" /\ ~s.quoted
                 THEN [s EXCEPT !.fields = Append(@, UnescapeCsv(s.current)), !.current = <<>>]
                 ELSE [s EXCEPT !.current = Append(@, line[i]),
                                !.quoted = IF line[i] = "quote" THEN ~@ ELSE @]
        end == scan[Len(line)]
    IN Append(end.fields, UnescapeCsv(end.current))
CsvAccount(fields) ==
    [f \in DOMAIN Empty |->
        LET i == CHOOSE k \in DOMAIN Columns : Columns[k] = f
        IN IF i <= Len(fields) THEN fields[i] ELSE <<>>]
FromCsv(text) ==
    LET rows == Mapped(CsvFields, Lines(text))
        usable(fields) == Len(fields) >= 3 /\ fields[1] # <<>> /\ fields[3] # <<>>
        kept == AtPositions(rows, {i \in DOMAIN rows : usable(rows[i])})
    IN [k \in DOMAIN kept |-> CsvAccount(kept[k])]
-----------------------------------------------------------------------------
(* KeePass XML *)

EntityEnd == [c \in {"<", "&", "quote"} |->
                IF c = "<" THEN "lt;" ELSE IF c = "&" THEN "amp;" ELSE "quot;"]
EscapeXml(text) == Escaped(text, [c \in DOMAIN EntityEnd |-> <<"&", EntityEnd[c]>>])
\* The ampersand is undone first, and what it makes is undone again.
UnescapeXml_AmpFirst(text) ==
    LET amp == Collapsed(text, <<"&", "amp;">>, "&")
        lt == Collapsed(amp, <<"&", "lt;">>, "<")
    IN Collapsed(lt, <<"&", "quot;">>, "quote")
UnescapeXml(text) ==
    LET lt == Collapsed(text, <<"&", "lt;">>, "<")
        amp == Collapsed(lt, <<"&", "amp;">>, "&")
    IN Collapsed(amp, <<"&", "quot;">>, "quote")

\* An entry: its keys and values; website and notes only when there are any.
XmlEntry(a) ==
    LET values == [a EXCEPT !.notes = WithEmail(a)]
        present == {"name", "user", "password"}
                   \cup {f \in {"website", "notes"} : values[f] # <<>>}
    IN [f \in present |-> EscapeXml(values[f])]
\* Every key is taken to be there.
FromXmlEntry(entry) ==
    LET values == [f \in DOMAIN entry |-> UnescapeXml(entry[f])]
        a == [f \in DOMAIN Empty |-> IF f \in DOMAIN values THEN values[f] ELSE <<>>]
    IN SplitNotes([a EXCEPT !.notes = <<>>], a.notes)
-----------------------------------------------------------------------------
(* 1Password *)

EscapeJson(text) ==
    Escaped(text, [quote |-> <<"backslash", "quote">>,
                   backslash |-> <<"backslash", "backslash">>,
                   newline |-> <<"backslash", "n">>])
\* The string up to the first quotation mark that no backslash precedes.
ParseJson(text) ==
    LET unescaped == [n |-> "newline"]
        scan[i \in 0..Len(text)] ==
            IF i = 0 THEN [out |-> <<>>, escape |-> FALSE, closed |-> FALSE]
            ELSE LET s == scan[i - 1] IN
                 IF s.closed THEN s
                 ELSE IF s.escape
                 THEN [s EXCEPT !.escape = FALSE,
                                !.out = Append(@, IF text[i] \in DOMAIN unescaped
                                                  THEN unescaped[text[i]] ELSE text[i])]
                 ELSE IF text[i] = "backslash" THEN [s EXCEPT !.escape = TRUE]
                 ELSE IF text[i] = "quote" THEN [s EXCEPT !.closed = TRUE]
                 ELSE [s EXCEPT !.out = Append(@, text[i])]
    IN scan[Len(text)].out
\* The keys that are searched for in the whole record, so that a value in front
\* of one in which it can be read, between quotation marks, hides it.
KeyOf == [website |-> <<"url">>, notes |-> <<"notesPlain">>]
Quoted(key) == <<"quote">> \o key \o <<"quote">>
HiddenBy(f) == {"name", "user", "password"} \cup (IF f = "notes" THEN {"website"} ELSE {})

PifRecord(a) ==
    LET values == [a EXCEPT !.notes = WithEmail(a)]
        present == {"name", "user", "password"}
                   \cup {f \in {"website", "notes"} : values[f] # <<>>}
    IN [f \in present |-> Append(EscapeJson(values[f]), "quote")]
\* Entities are undone in every record that an export of this program wrote.
LegacyText(text) == UnescapeXml(text)
Hidden(record, f) ==
    \E g \in HiddenBy(f) \cap DOMAIN record :
        Occurs(Quoted(KeyOf[f]), <<"quote">> \o record[g])
FindKey(record, f) ==
    IF f \notin DOMAIN record \/ (f \in DOMAIN KeyOf /\ Hidden(record, f))
    THEN <<>> ELSE ParseJson(record[f])
\* The object around the designation begins at the last brace before it.
FindDesignated(record, f) ==
    IF f \notin DOMAIN record \/ Has(record[f], "brace") THEN <<>> ELSE ParseJson(record[f])
FromPifRecord(record) ==
    LET found(f) == LegacyText(IF f \in {"user", "password"}
                               THEN FindDesignated(record, f) ELSE FindKey(record, f))
        a == [Empty EXCEPT !.name = found("name"), !.user = found("user"),
                           !.password = found("password"), !.website = found("website")]
    IN SplitNotes(a, found("notes"))
-----------------------------------------------------------------------------
Written(format, accounts) ==
    CASE format = "csv" -> FlattenSeq(Mapped(CsvLine, accounts))
      [] format = "xml" -> Mapped(XmlEntry, accounts)
      [] format = "1pif" -> Mapped(PifRecord, accounts)
\* What is on the disk of an account in the middle of which writing failed, that
\* an import can make something of: any part of a CSV line, no XML entry that is
\* not closed, and of a 1PIF record the fields that are complete.
Torn(format, a) ==
    CASE format = "csv" -> {SubSeq(CsvLine(a), 1, n) : n \in 0..(Len(CsvLine(a)) - 1)}
      [] format = "xml" -> {<<>>}
      [] format = "1pif" ->
            {<<>>} \cup {<<[f \in part \cap DOMAIN PifRecord(a) |-> PifRecord(a)[f]]>> :
                part \in {{"name"}, {"name", "user"}, {"name", "user", "password"},
                         {"name", "user", "password", "website"}, DOMAIN PifRecord(a)}}
\* A line of the file with the separator in it ends a record and is none.
Separated(record) == \E f \in DOMAIN record : Has(record[f], "separator")
Unseparated(records) == AtPositions(records, {i \in DOMAIN records : ~Separated(records[i])})
WithNames(accounts) == AtPositions(accounts, {i \in DOMAIN accounts : accounts[i].name # <<>>})
Read(format, text) ==
    CASE format = "csv" -> FromCsv(text)
      [] format = "xml" -> Mapped(FromXmlEntry, text)
      [] format = "1pif" -> WithNames(Mapped(FromPifRecord, Unseparated(text)))
-----------------------------------------------------------------------------
(* What each format promises, stated without its escapes. *)

\* A text is the key of f, or ends with a quotation mark and the key.
Spells(a, f) ==
    f \in DOMAIN KeyOf
    /\ \E g \in HiddenBy(f) : IsSuffix(<<"quote">> \o KeyOf[f], <<"quote">> \o a[g])
NotesAreNotes(a) ==
    IF a.email = <<>> THEN a.notes = <<>> \/ Head(a.notes) # "Email" ELSE ~Has(a.email, "newline")

\* The accounts that a format can carry.
Carries(format, a) ==
    CASE format = "csv" ->
            /\ a.name # <<>> /\ a.password # <<>>
            /\ \A f \in DOMAIN a : ~Has(a[f], "newline") /\ ~HasPair(a[f], <<"quote", "quote">>)
      [] format = "xml" ->
            /\ NotesAreNotes(a)
            /\ \A f \in DOMAIN a : ~HasPair(a[f], <<"&", "quot;">>)
      [] format = "1pif" ->
            /\ a.name # <<>> /\ NotesAreNotes(a)
            /\ ~Has(a.user, "brace") /\ ~Has(a.password, "brace")
            /\ ~Spells(a, "website") /\ ~Spells(a, "notes")
            /\ \A f \in DOMAIN a : ~Has(a[f], "separator")
            /\ \A f \in DOMAIN a, c \in DOMAIN EntityEnd : ~HasPair(a[f], <<"&", EntityEnd[c]>>)

\* The accounts that an import makes one account of, whatever it does to them.
Counted(format, a) ==
    CASE format = "csv" -> a.name # <<>> /\ a.password # <<>>
      [] format = "xml" -> TRUE
      [] format = "1pif" -> a.name # <<>> /\ \A f \in DOMAIN a : ~Has(a[f], "separator")

=============================================================================
