------------------------------- MODULE MCWire -------------------------------
EXTENDS Wire, TLC

CONSTANT MaxCuts   \* bound on the chunk ends inside messages, both ways together

Zero(text) == Append(text, 0)
Ask(text) == Message(QUERY, Zero(text))
Query == Ask(<<LETTER>>)
Copy == Ask(<<COPY_FROM_STDIN>>)
Data(n) == Message(COPY_DATA, [i \in 1..n |-> COPY_DONE])
Done == Message(COPY_DONE, <<>>)
CopyFails == Message(COPY_FAIL, <<0>>)
Parse == Message(PARSE, <<0>>)
Syncs == Message(SYNC, <<>>)
Flushes == Message(FLUSH, <<>>)
Terminates == Message(TERMINATE, <<>>)
Startup == <<0, 0, 0, 9, 0, 3, 0, 0, 0>>
TooShort == <<QUERY, 0, 0, 0, 3>>
TooLong == <<QUERY, 65, 0, 0, 0>>
NoText == <<QUERY, 0, 0, 0, 4>>

Cut(messages) == [startup |-> FALSE, messages |-> messages, cuts |-> MaxCuts]

\* A copy of two messages and its end fill the cap; one more byte does not fit.
MCCap == Len(Copy) + Len(Data(1)) + Len(Done)

Exchanges ==
    {Cut(<<Query, Parse, Syncs>>), Cut(<<Parse, Flushes, Syncs>>), Cut(<<NoText, TooShort>>),
     Cut(<<Copy, Data(1), Done, Query>>), Cut(<<Copy, CopyFails>>), Cut(<<Copy, Query>>),
     Cut(<<Copy, Data(2), Done, Parse, Syncs>>), Cut(<<Copy, Data(3), Data(1), CopyFails>>),
     Cut(<<Copy, Terminates, Query>>), Cut(<<Parse, TooLong>>)}
    \cup {[startup |-> TRUE, messages |-> <<Startup, Query>>, cuts |-> MaxCuts],
          [startup |-> TRUE, messages |-> <<<<0, 0, 0, 7, 0, 0, 0>>>>, cuts |-> MaxCuts]}

\* Texts that may hide a copy, or seem to hold one, sent in one chunk.
CONSTANT MaxLexemes
Lexemes == {<<NEWLINE>>, <<QUOTE>>, <<DOUBLE_QUOTE>>, <<SEMICOLON>>, <<DOLLAR>>, <<DASH, DASH>>,
            <<SLASH, STAR>>, <<BACKSLASH, QUOTE>>, <<LETTER_E, QUOTE>>, <<LETTER>>}
Openings == {FlattenSeq(lexemes) : lexemes \in UNION {[1..n -> Lexemes] : n \in 0..MaxLexemes}}
Endings == {<<>>, <<QUOTE>>, <<STAR, SLASH, SEMICOLON, LETTER>>}
Queries == {[startup |-> FALSE, messages |-> <<Ask(p \o <<COPY_FROM_STDIN>> \o s)>>, cuts |-> 0] :
              p \in Openings, s \in Endings}

MCConversations == Exchanges \cup Queries

-----------------------------------------------------------------------------
(* PGlite's answers.                                                        *)

Command == Message(67, <<READY_FOR_QUERY>>)
Empty == Message(73, <<>>)
Error == Message(ERROR_RESPONSE, <<0>>)
Rows == Message(ROW_DESCRIPTION, <<7, PG_TYPE_OID_CHAR, PG_FIRST_USER_OID, PG_TYPE_OID_CHAR>>)
WidenedRows ==
    Message(ROW_DESCRIPTION, <<7, PG_TYPE_OID_TEXT, PG_FIRST_USER_OID, PG_TYPE_OID_CHAR>>)
CopyInResponse == Message(COPY_IN_RESPONSE, <<0>>)
Idle == ReadyForQuery(RFQ_STATUS_IDLE)
InTransaction == ReadyForQuery(84)
Failed == ReadyForQuery(69)
BadLength == <<67, 0, 0, 0, 3>>
Truncated == <<ROW_DESCRIPTION, 0, 0, 0, 6, PG_TYPE_OID_CHAR>>

\* A catalog's "char" column is text to the client, a user table's is not.
ASSUME RowsAreWidened == Rewritten(Rows) = WidenedRows

MCReplies(rfqMode) ==
    CASE rfqMode = "passthrough" -> {<<Rows, Command, Idle>>, <<Error, Failed>>,
                                     <<Idle, BadLength>>, <<Command, Truncated>>}
      [] rfqMode = "suppress" -> {<<Empty, Idle, Rows, InTransaction>>, <<Error, Failed, Failed>>}
      [] rfqMode = "flush-boundary" -> {<<Empty, Idle>>, <<Rows, Command>>,
                                        <<Error, Idle>>, <<Error>>}
      [] rfqMode = "copy-in" -> {<<CopyInResponse, Command, Idle>>, <<Error, InTransaction>>}
=============================================================================
