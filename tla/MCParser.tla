------------------------------- MODULE MCParser -------------------------------
(* Parser on short texts and on every edit of one token of theirs.           *)
EXTENDS Parser, SequencesExt

\* A function body around some statements, and a declaration after it.
InFunction(body) ==
  <<"fn", ":", "void", "ident", "(", ")", "{">> \o body \o
  <<"}", "const", "ident", ":", "int", "=", "lit", ";">>

Text(tokens_, pieces) == [tokens |-> tokens_, pieces |-> pieces]

Declarations ==
  {Text(<<"import", "ident", ".", "ident", "as", "ident", ";",
          "import", "ident", ";", "pfn", ":", "result", "ident", ".", "ident", "ident",
          "(", "ident", ":", "ptr", "int", ",", "ident", ":", "result", "slice", "u8", ")",
          "{", "}">>, 3),
   Text(<<"pstruct", "ident", "{", "ident", ":", "int", "[", "lit", "]", ";",
          "ident", ":", "ident", ";", "}", "pconst", "ident", ":", "int", "=", "lit", ";">>, 2)}

Bodies ==
  {Text(<<"let", "mut", "ident", ":", "int", "=", "lit", ";", "ident", "=", "ident", ";",
          "return", ";">>, 5),
   Text(<<"try", "ident", "=", "ident", "(", ")", ";", "defer", "free", "ident", ";",
          "free", "ident", ";">>, 5),
   Text(<<"if", "ident", "{", "return", "lit", ";", "}", "else", "if", "ident",
          "{", "}", "else", "{", "ident", "(", "lit", ",", "ident", ")", ";", "}">>, 5),
   Text(<<"while", "ident", "{", "}", "loop", "{", "}", "zone", "{", "}",
          "for", "ident", ":", "int", "in", "lit", "..", "ident", "{", "}">>, 6),
   Text(<<"defer", "ident", "(", ")", ";", "deref", "ident", "=", "ident", "*", "lit", "+", "ident",
          "&&", "!", "ident", ";">>, 4),
   Text(<<"ident", ".", "ok", "=", "ok", "if", "ident", "{", "lit", "}", "else", "{", "err", "}", ";",
          "ident", "[", "ident", "]", "=", "ident", "[", "lit", "..", "]", ";">>, 4),
   Text(<<"ident", "=", "ident", "{", "ident", ":", "[", "lit", ",", "lit", "]", ",", "ident",
          ":", "[", "lit", ";", "lit", "]", "}", ";",
          "return", "(", "zalloc", "ident", ")", ";">>, 4)}

Texts ==
  Declarations \cup {Text(InFunction(b.tokens), b.pieces) : b \in Bodies}

Input(seq, pieces, edit) ==
  [tokens |-> Append(seq, "eof"), pieces |-> pieces, edit |-> edit]

\* Not the ';' of a repeated array element, which a literal follows.
EndsStatement(seq, i) == seq[i] = ";" /\ (i < Len(seq) => seq[i + 1] # "lit")

\* The texts themselves, and with one token left out.
Shortened ==
  UNION {{Input(t.tokens, t.pieces, "none")} \cup
         {Input(RemoveAt(t.tokens, i), t.pieces,
                IF EndsStatement(t.tokens, i) THEN "semicolon" ELSE "other")
            : i \in DOMAIN t.tokens}
         : t \in Texts}

\* With one token put in.
Stray == {"ident", "lit", "ptr", ";", "}", "fn"}

Lengthened ==
  UNION {{Input(InsertAt(t.tokens, i, k), t.pieces, "other") :
            i \in DOMAIN t.tokens, k \in Stray} : t \in Texts}

\* With the '}' that closes a block or a struct left out.
MissingBrace ==
  UNION {{Input(RemoveAt(t.tokens, i), t.pieces, "other") :
            i \in {j \in DOMAIN t.tokens : t.tokens[j] = "}"}} : t \in Texts}

Edited == Shortened \cup Lengthened
====
