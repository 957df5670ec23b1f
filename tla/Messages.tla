------------------------------ MODULE Messages ------------------------------
(***************************************************************************)
(* Wire protocol messages (src/duplex/constants.ts): a type byte, a length *)
(* of four bytes that counts itself, a payload.  A byte is a number; a     *)
(* field of a RowDescription is two, its relation's OID and its type's.    *)
(***************************************************************************)
EXTENDS Naturals, Sequences

\* From the frontend.
PARSE == 80
BIND == 66
DESCRIBE == 68
EXECUTE == 69
CLOSE == 67
FLUSH == 72
SYNC == 83
TERMINATE == 88
QUERY == 81
COPY_DATA == 100
COPY_DONE == 99
COPY_FAIL == 102
EQP_MESSAGES == {PARSE, BIND, DESCRIBE, EXECUTE, CLOSE}

\* From the backend.
READY_FOR_QUERY == 90
ERROR_RESPONSE == 69
ROW_DESCRIPTION == 84
COPY_IN_RESPONSE == 71
RFQ_STATUS_IDLE == 73

\* A catalog column of type "char", and the text it is widened to.
PG_TYPE_OID_CHAR == 18
PG_TYPE_OID_TEXT == 25
\* Relations of a lower OID, other than 0, are the catalog's (16384 in the
\* code, here within a byte).
PG_FIRST_USER_OID == 200

MAX_MESSAGE_LENGTH == 1073741824

Message(type, payload) == <<type, 0, 0, 0, Len(payload) + 4>> \o payload
TypeOf(message) == message[1]
PayloadOf(message) == SubSeq(message, 6, Len(message))
ReadyForQuery(status) == Message(READY_FOR_QUERY, <<status>>)

\* Four bytes, big endian and unsigned.
UInt32(b) == ((b[1] * 256 + b[2]) * 256 + b[3]) * 256 + b[4]

Malformed(length) == length < 4 \/ length > MAX_MESSAGE_LENGTH
=============================================================================
