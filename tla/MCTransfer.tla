--------------------------- MODULE MCTransfer ---------------------------
(* A small instance of Transfer for TLC: vaults of one account in which one *)
(* text is any one of at most two characters, or a longer one in which      *)
(* escapes meet, and vaults of two such accounts.  Only notes have more     *)
(* than one line, as in the window's entries.                               *)
EXTENDS Transfer

Typed == {"x", "comma", "quote", "newline", "<", "&", "lt;", "amp;", "quot;",
          "backslash", "brace", "Email"}
Short == {<<>>} \cup {<<c>> : c \in Typed} \cup (Typed \X Typed)
Long == {<<"quote", "comma", "quote">>, <<"quote", "x", "quote">>,
         <<"quote", "quote", "quote">>, <<"comma", "quote", "quote">>,
         <<"&", "amp;", "quot;">>, <<"&", "amp;", "lt;">>, <<"&", "&", "quot;">>,
         <<"x", "newline", "x", "comma", "x", "comma", "x">>,
         <<"x", "newline", "newline", "x">>, <<"backslash", "backslash", "quote">>,
         <<"x", "quote", "url">>, <<"backslash", "quote", "notesPlain">>,
         <<"quote", "url", "quote">>, <<"x", "separator", "x">>}
Keys == {<<"url">>, <<"notesPlain">>}
MCChars == Typed \cup {"n", "separator", "url", "notesPlain"}
x == <<"x">>
OneLine == {t \in Short \cup Long \cup Keys : ~Has(t, "newline")}
Plain == [Empty EXCEPT !.name = x, !.user = x, !.password = x, !.website = x]
Accounts ==
    {[Plain EXCEPT ![f] = t] : f \in {"name", "user", "password"}, t \in OneLine}
    \cup {[Plain EXCEPT !.notes = t] : t \in Short \cup Long}
    \cup {[Plain EXCEPT !.email = t, !.notes = n] : t \in OneLine, n \in {<<>>, x}}
Odd == {[Plain EXCEPT !.password = t] : t \in Long \cap OneLine}
    \cup {[Plain EXCEPT !.notes = t] : t \in Long \cup {<<"Email">>}}
MCContents == {<<>>} \cup {<<a>> : a \in Accounts} \cup (Odd \X (Odd \cup {Plain}))
MCLater == {<<>>}
MCCut == {<<[Plain EXCEPT !.password = t]>> : t \in OneLine} \cup {<<a>> : a \in Odd}
    \cup (Odd \X {Plain})
=============================================================================
