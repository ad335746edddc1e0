---------------------------- MODULE HttpRequest ----------------------------
(***************************************************************************)
(* server/util.c, what handle_connection does before and around the        *)
(* operations on seats: it reads the request from the socket character by  *)
(* character, takes it apart, and chooses what to run.                     *)
(*                                                                         *)
(* Text is a sequence of tokens: a character, or a word of the protocol    *)
(* that is always compared as a whole.  The names of the operations are    *)
(* sequences, since the code compares parts of them.                       *)
(***************************************************************************)
EXTENDS Integers, FiniteSetsExt, SequencesExt

CONSTANTS
    Clients,      \* what clients send, as below
    Operations,   \* the names of the operations, in the order they are tried
    BUFSIZE,      \* a line has fewer characters
    FILE_SIZE     \* and the name in the request fewer than that

\* A client asks for a resource with arguments, each a name and its digits, sends
\* headers, ends its lines with eol, and closes its side afterwards or waits.
HttpAssumption ==
    /\ BUFSIZE \in Nat /\ FILE_SIZE \in Nat /\ BUFSIZE > 2 /\ FILE_SIZE > 1
    /\ \A c \in Clients : /\ c.method # <<>> /\ c.closes \in BOOLEAN
                          /\ \A h \in Range(c.headers) : h # <<>>

VARIABLES
    client,
    taken,       \* the tokens read from the socket
    phase,       \* "request", "headers", "answered"
    buf,         \* the line get_line is reading
    file,        \* what the request names, with its arguments
    reply        \* what the request is taken for

vars == <<client, taken, phase, buf, file, reply>>

Args(args) ==
    FoldLeft(LAMBDA text, a : text \o (IF text = <<>> THEN <<"?">> ELSE <<"&">>) \o a.name \o a.digits,
             <<>>, args)

Target(c) == c.resource \o Args(c.args)

RequestLine(c) == c.method \o <<" ", "/">> \o Target(c) \o <<" ", "HTTP">>

\* What the client sends in all.
Sent == FoldLeft(LAMBDA text, line : text \o line \o client.eol, <<>>,
                 <<RequestLine(client)>> \o client.headers \o << <<>> >>)

NoReply == [kind |-> "none"]

Init ==
    /\ client \in Clients
    /\ taken = 0 /\ phase = "request" /\ buf = <<>> /\ file = <<>>
    /\ reply = NoReply
-----------------------------------------------------------------------------
(* Taking the request apart.                                               *)

Space == {" ", "LF"}

\* The part of a text before its first token in a set.
Before(text, stop) ==
    LET at == SelectInSeq(text, LAMBDA t : t \in stop)
    IN  IF at = 0 THEN text ELSE SubSeq(text, 1, at - 1)

\* The name follows the instruction, one space and one more character.
FileIn(line) ==
    LET rest == SubSeq(line, Len(Before(line, Space)) + 3, Len(line))
        name == Before(rest, Space)
    IN  SubSeq(name, 1, Min({Len(name), FILE_SIZE - 1}))

Digit == [d \in {"0", "1", "2"} |-> CASE d = "0" -> 0 [] d = "1" -> 1 [] d = "2" -> 2]

Number(digits) == FoldLeft(LAMBDA n, d : 10 * n + Digit[d], 0, digits)

\* The digits after the first place behind the question mark where the name stands,
\* also at the end of a longer name; 0 if it stands nowhere.
parse_int_arg(filename, arg) ==
    LET list == SubSeq(filename, Len(Before(filename, {"?"})) + 2, Len(filename))
        at == SelectInSeq(list, LAMBDA t : t = arg)
        value == SubSeq(list, at + 1, Len(list))
        digits == SubSeq(value, 1, SelectInSeq(Append(value, "end"), LAMBDA t : t \notin DOMAIN Digit) - 1)
    IN  IF at = 0 THEN 0 ELSE Number(digits)

\* strncmp over the length of the resource: any beginning of a name is the name.
Named(resource) == {n \in DOMAIN Operations : IsPrefix(resource, Operations[n])}

Operation(op, name) ==
    [kind |-> "operation", op |-> op, seat |-> parse_int_arg(name, "seat="),
     user |-> parse_int_arg(name, "user="), priority |-> parse_int_arg(name, "priority=")]

Answers(r) == phase' = "answered" /\ reply' = r

\* The file the resource names is there and readable, or is not.
ServeFile == Answers([kind |-> "file"]) \/ Answers([kind |-> "not found"])

Dispatch ==
    LET ops == Named(Before(file, {"?"})) IN
    IF ops = {} THEN ServeFile
    ELSE Answers(Operation(Operations[CHOOSE n \in ops : \A m \in ops : n <= m], file))

\* get_line has returned a line.
RequestRead(line) ==
    IF Head(line) = "GET"
    THEN phase' = "headers" /\ file' = FileIn(line) /\ UNCHANGED reply
    ELSE Answers([kind |-> "bad request"]) /\ UNCHANGED file

\* The headers are over when get_line returns 0.
HeaderRead(line) ==
    /\ IF line = <<>> THEN Dispatch ELSE UNCHANGED <<phase, reply>>
    /\ UNCHANGED file

LineRead(line) ==
    /\ buf' = <<>>
    /\ IF phase = "request" THEN RequestRead(line) ELSE HeaderRead(line)
-----------------------------------------------------------------------------
(* get_line: one iteration of its loop.                                    *)

Reading == phase # "answered"

\* The token n places ahead; "" if it is not there (yet).
Ahead(n) == IF taken + n <= Len(Sent) THEN Sent[taken + n] ELSE ""

\* Nothing more will come, or the second read has something to return.
Settled(n) == taken + n <= Len(Sent) \/ client.closes

\* CR and LF end a line and are no part of it.
\* Mutant: the LF is stored.
ReadCrLf_stored ==
    /\ Reading /\ Ahead(1) = "CR" /\ Ahead(2) = "LF"
    /\ taken' = taken + 2
    /\ LineRead(Append(buf, "LF"))
    /\ UNCHANGED client

ReadCrLf ==
    /\ Reading /\ Ahead(1) = "CR" /\ Ahead(2) = "LF"
    /\ taken' = taken + 2
    /\ LineRead(buf)
    /\ UNCHANGED client

\* CR and something else, which is lost, end a line like LF does.
ReadCr ==
    /\ Reading /\ Ahead(1) = "CR" /\ Ahead(2) # "LF" /\ Settled(2)
    /\ taken' = IF Ahead(2) = "" THEN taken + 1 ELSE taken + 2
    /\ LineRead(Append(buf, "LF"))
    /\ UNCHANGED client

\* LF ends a line and is its last character.  So does the last place in the buffer.
ReadChar ==
    LET line == Append(buf, Ahead(1)) IN
    /\ Reading /\ Ahead(1) \notin {"CR", ""}
    /\ taken' = taken + 1
    /\ IF Ahead(1) = "LF" \/ Len(line) = BUFSIZE - 1
       THEN LineRead(line)
       ELSE buf' = line /\ UNCHANGED <<phase, file, reply>>
    /\ UNCHANGED client

\* The client has closed its side.
ReadEnd ==
    /\ Reading /\ Ahead(1) = "" /\ client.closes
    /\ LineRead(buf)
    /\ UNCHANGED <<client, taken>>

Next == ReadCrLf \/ ReadCr \/ ReadChar \/ ReadEnd

Spec == Init /\ [][Next]_vars
-----------------------------------------------------------------------------
(* Properties.                                                             *)

\* A client of the kind the server is written for: it ends its lines in CR LF, no
\* line exactly fills the buffer or leaves nothing of itself behind when it is
\* longer, and the request fits.
Clean(c) ==
    /\ Head(c.method) = "GET" /\ c.eol = <<"CR", "LF">>
    /\ Len(RequestLine(c)) < BUFSIZE - 1 /\ Len(Target(c)) < FILE_SIZE
    /\ \A h \in Range(c.headers) : Len(h) % (BUFSIZE - 1) # 0

\* The number a client gives under a name: that of its first argument whose name
\* ends so (the pages ask for "userseat"), or none.
Asked(c, name) ==
    LET given == SelectSeq(c.args, LAMBDA a : Last(a.name) = name)
    IN  IF given = <<>> THEN 0 ELSE Number(Head(given).digits)

\* Such a client is answered when its blank line has been read and not before, so
\* neither leaves a worker waiting in read nor loses a part of its request; and when
\* it names an operation, that operation is run with the numbers it gave, wherever
\* they stand.
UnderstoodAsSent ==
    Clean(client) =>
        /\ phase = "answered" <=> taken = Len(Sent)
        /\ phase = "answered" /\ client.resource \in Range(Operations) =>
            reply = [kind |-> "operation", op |-> client.resource, seat |-> Asked(client, "seat="),
                     user |-> Asked(client, "user="), priority |-> Asked(client, "priority=")]
=============================================================================
