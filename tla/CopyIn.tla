------------------------------- MODULE CopyIn -------------------------------
(***************************************************************************)
(* Which simple queries are a COPY ... FROM STDIN (src/duplex/copy-in.ts). *)
(* A text is a sequence of characters, and the phrase itself, between      *)
(* blanks, is one of them: COPY_FROM_STDIN.                                *)
(***************************************************************************)
EXTENDS Naturals, Sequences

SPACE == 32
NEWLINE == 10
QUOTE == 39
DOUBLE_QUOTE == 34
SEMICOLON == 59
DOLLAR == 36
DASH == 45
SLASH == 47
STAR == 42
BACKSLASH == 92
PLACEHOLDER == 63
LETTER_E == 69        \* a letter, and the prefix of an escape string
LETTER == 65          \* any other letter
COPY_FROM_STDIN == 1

Letters == {LETTER_E, LETTER}
isIdentifierGlue(ch) == ch \in Letters \cup {DOLLAR}

\* '' past either end, as charAt.
CharAt(text, i) == IF i \in DOMAIN text THEN text[i] ELSE SPACE
Two(text, i, a, b) == CharAt(text, i) = a /\ CharAt(text, i + 1) = b

-----------------------------------------------------------------------------
(* Where the region that opens before position i ends: the position after.  *)

LineEnd(text, i) ==
    CHOOSE end \in i..(Len(text) + 1) :
        /\ \A k \in i..(end - 1) : text[k] # NEWLINE
        /\ end <= Len(text) => text[end] = NEWLINE

\* Comments nest.
CommentEnd(text, i) ==
    LET end[j \in Nat, depth \in Nat] ==
            IF j > Len(text) \/ depth = 0 THEN j
            ELSE IF Two(text, j, SLASH, STAR) THEN end[j + 2, depth + 1]
            ELSE IF Two(text, j, STAR, SLASH) THEN end[j + 2, depth - 1]
            ELSE end[j + 1, depth]
    IN  end[i, 1]

\* A doubled mark is part of the literal; a backslash escapes where it may.
LiteralEnd(text, i, mark, escaping) ==
    LET end[j \in Nat] ==
            IF j > Len(text) THEN j
            ELSE IF (escaping /\ text[j] = BACKSLASH) \/ Two(text, j, mark, mark) THEN end[j + 2]
            ELSE IF text[j] = mark THEN j + 1
            ELSE end[j + 1]
    IN  end[i]

\* The $tag$ that opens at i; <<>> if none does.
DollarTag(text, i) ==
    LET ends == {j \in (i + 1)..Len(text) : text[j] = DOLLAR
                   /\ \A k \in (i + 1)..(j - 1) : text[k] \in Letters}
    IN  IF ends = {} THEN <<>> ELSE SubSeq(text, i, CHOOSE j \in ends : TRUE)

DollarEnd(text, i, tag) ==
    LET found == {j \in i..(Len(text) - Len(tag) + 1) : SubSeq(text, j, j + Len(tag) - 1) = tag}
    IN  IF found = {} THEN Len(text) + 1
        ELSE (CHOOSE j \in found : \A k \in found : j <= k) + Len(tag)

\* Mutant of EscapeString: the E that ends a word opens an escape string.
EscapeAnywhere(text, i) == Two(text, i, LETTER_E, QUOTE)

\* An E not glued to the word before it opens an escape string.
EscapeString(text, i) == /\ Two(text, i, LETTER_E, QUOTE)
                         /\ ~isIdentifierGlue(CharAt(text, i - 1))

\* Comments become a blank, quoted regions a placeholder.
stripQuotedAndComments(text) ==
    LET strip[i \in Nat] ==
            LET tag == DollarTag(text, i)
            IN  IF i > Len(text) THEN <<>>
                ELSE IF Two(text, i, DASH, DASH) THEN <<SPACE>> \o strip[LineEnd(text, i)]
                ELSE IF Two(text, i, SLASH, STAR) THEN <<SPACE>> \o strip[CommentEnd(text, i + 2)]
                ELSE IF EscapeString(text, i)
                THEN <<PLACEHOLDER>> \o strip[LiteralEnd(text, i + 2, QUOTE, TRUE)]
                ELSE IF text[i] \in {QUOTE, DOUBLE_QUOTE}
                THEN <<PLACEHOLDER>> \o strip[LiteralEnd(text, i + 1, text[i], FALSE)]
                ELSE IF text[i] = DOLLAR /\ ~isIdentifierGlue(CharAt(text, i - 1)) /\ tag # <<>>
                THEN <<PLACEHOLDER>> \o strip[DollarEnd(text, i + Len(tag), tag)]
                ELSE <<text[i]>> \o strip[i + 1]
    IN  strip[1]

-----------------------------------------------------------------------------
\* The statements of a stripped text that are not blank.
Blank(ch) == ch \in {SPACE, NEWLINE}
Statements(stripped) ==
    LET cuts == {i \in 0..(Len(stripped) + 1) :
                    i \in {0, Len(stripped) + 1} \/ stripped[i] = SEMICOLON}
        Next(i) == CHOOSE j \in cuts : j > i /\ \A k \in cuts : k > i => j <= k
    IN  {s \in {[from |-> i + 1, to |-> Next(i) - 1] : i \in cuts \ {Len(stripped) + 1}} :
            \E k \in s.from..s.to : ~Blank(stripped[k])}

\* Its first word is COPY, and FROM STDIN follows.
isCopyInStatement(stripped, s) ==
    \E k \in s.from..s.to : /\ stripped[k] = COPY_FROM_STDIN
                            /\ \A j \in s.from..(k - 1) : stripped[j] \notin Letters

sniffCopyIn(text) ==
    LET stripped == stripQuotedAndComments(text)
        statements == Statements(stripped)
    IN  IF \A s \in statements : ~isCopyInStatement(stripped, s) THEN "not-copy-in"
        ELSE IF \A s, u \in statements : s = u THEN "capture" ELSE "reject-multi"

-----------------------------------------------------------------------------
(* PostgreSQL's lexer, for comparison: it reads tokens, longest first, and  *)
(* refuses a whole text that has a stray character or an open region.       *)

WordEnd(text, i) ==
    CHOOSE j \in i..(Len(text) + 1) :
        /\ \A k \in i..(j - 1) : text[k] \in Letters \cup {DOLLAR}
        /\ CharAt(text, j) \notin Letters \cup {DOLLAR}

Lex(text) ==
    LET literal(from, escaping) == LiteralEnd(text \o <<SPACE>>, from, QUOTE, escaping)
        lex[i \in Nat] ==
            LET on(end, tokens) == IF end > Len(text) + 1 THEN <<"invalid">>
                                   ELSE tokens \o lex[end]
                ch == CharAt(text, i)
                tag == DollarTag(text, i)
            IN  IF i > Len(text) THEN <<>>
                ELSE IF Blank(ch) THEN lex[i + 1]
                ELSE IF Two(text, i, DASH, DASH) THEN lex[LineEnd(text, i)]
                ELSE IF Two(text, i, SLASH, STAR)
                THEN on(CommentEnd(text \o <<SPACE>>, i + 2), <<>>)
                ELSE IF Two(text, i, LETTER_E, QUOTE) THEN on(literal(i + 2, TRUE), <<"literal">>)
                ELSE IF ch \in Letters THEN on(WordEnd(text, i), <<"word">>)
                ELSE IF ch = QUOTE THEN on(literal(i + 1, FALSE), <<"literal">>)
                ELSE IF ch = DOUBLE_QUOTE
                THEN on(LiteralEnd(text \o <<SPACE>>, i + 1, DOUBLE_QUOTE, FALSE), <<"word">>)
                ELSE IF ch = DOLLAR /\ tag # <<>>
                THEN on(DollarEnd(text \o <<SPACE>>, i + Len(tag), tag), <<"literal">>)
                ELSE IF ch \in {DOLLAR, BACKSLASH} THEN <<"invalid">>
                ELSE on(i + 1, <<IF ch = SEMICOLON THEN ";"
                                 ELSE IF ch = COPY_FROM_STDIN THEN "copy" ELSE "other">>)
    IN  lex[1]

\* PostgreSQL would begin to read copy data for some statement of the text.
StartsCopy(text) ==
    LET tokens == Lex(text)
    IN  /\ \A k \in DOMAIN tokens : tokens[k] # "invalid"
        /\ \E k \in DOMAIN tokens : tokens[k] = "copy" /\ (k = 1 \/ tokens[k - 1] = ";")
=============================================================================
