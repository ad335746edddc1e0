----------------------------- MODULE MCReaders -----------------------------
(***************************************************************************)
(* The three sequential readers of input, for TLC: the ext2 reader, the    *)
(* request parser of the server and the command parser of tinyshell.  They *)
(* have nothing in common but that each takes text apart; a behaviour is   *)
(* one of them at work, while the others have not been started.            *)
(***************************************************************************)
EXTENDS Ext2Cat

VARIABLES
    reader,      \* the one at work
    client, taken, phase, buf, file, reply,
    line, lpc, typed, command, ran, cwd, lines

httpVars == <<client, taken, phase, buf, file, reply>>
shellVars == <<line, lpc, typed, command, ran, cwd, lines>>
-----------------------------------------------------------------------------
(* Images.  Blocks 3 and one other are the root's, 5 is that of directory  *)
(* d; the file a has the inode 3, ab has 4, d has 5 and a hidden file 6.   *)

Entry(ino, name) == [inode |-> ino, name |-> name]

Dots(dir, up) == <<Entry(dir, <<".">>), Entry(up, <<".", ".">>)>>

a == Entry(3, <<"a">>)
ab == Entry(4, <<"a", "b">>)
d == Entry(5, <<"d">>)
hidden == Entry(6, <<".", "a">>)

Direct(x, y, z) == [k \in 0 .. 3 |-> CASE k = 0 -> x [] k = 1 -> y [] k = 2 -> z [] k = 3 -> 10]

Used(k, bytes, b) == IF 8 * k < bytes THEN b ELSE 0

\* A file of a number of bytes; its fourth block and those after it are found in
\* block 10, and in what is behind it.
File(bytes) ==
    [i_size |-> bytes, i_block |-> Direct(Used(0, bytes, 7), Used(1, bytes, 8), Used(2, bytes, 9))]

Dir(blocks, x, y, z) == [i_size |-> 8 * blocks, i_block |-> Direct(x, y, z)]

\* The root has two or three blocks, the second one next to the first or not; other
\* is what block 4 holds when the root does not have it.
Image(first, second, at, third, other, size) ==
    [inodes |-> [n \in 2 .. 6 |->
        CASE n = 2 -> Dir(IF third = <<>> THEN 2 ELSE 3, 3, at, IF third = <<>> THEN 0 ELSE 12)
          [] n = 3 -> File(size)
          [] n = 4 -> File(size + 8)
          [] n = 5 -> Dir(1, 5, 0, 0)
          [] n = 6 -> File(0)],
     entries |-> [b \in 0 .. 13 |->
        CASE b = 3 -> Dots(2, 2) \o first
          [] b = at -> second
          [] b = 4 /\ at # 4 -> other
          [] b = 5 -> Dots(5, 2) \o <<Entry(4, <<"a">>), Entry(3, <<"a", "b">>)>>
          [] b \in {7, 13} -> <<[inode |-> 0, name |-> <<"text">>]>>
          [] b = 12 -> third
          [] OTHER -> <<>>],
     pointers |-> [b \in 10 .. 13 |->
        CASE b = 10 -> <<11, IF size = 39 THEN 99 ELSE 12>> [] b = 11 -> <<0, IF size > 90 THEN 0 ELSE 99>> [] OTHER -> <<0, 0>>]]

ImageSet ==
    {Image(two[1], two[2], at, <<>>, other, 21) :
        two \in {<< <<a, ab>>, <<d>> >>, << <<ab, d>>, <<a>> >>, << <<hidden>>, <<a, d>> >>, << <<d>>, <<ab, a>> >>},
        at \in {4, 6, 11}, other \in {<<>>, <<a>>, <<Entry(4, <<"d">>)>>, Dots(5, 2)}}
    \cup {Image(<<a, ab>>, <<d>>, at, <<Entry(3, <<"b">>)>>, Dots(5, 2), size) :
            at \in {4, 6}, size \in {0, 1, 8, 24, 25, 32, 33, 39, 40, 41, 97}}

PathSet == { <<"/">>, <<"/", "a">>, <<"/", "a", "b">>, <<"/", "b">>, <<"/", "a", "/", "b">>, <<"/", "d", "/", "a">>, <<"/", "d">>,
    <<"/", "d", "/", "a", "b">>, <<"/", "d", "/", "c">>, <<"/", "d", "/">>, <<"/", ".", "a">>,
    <<"/", "d", "/", ".", ".", "/", "a", "b">>, <<"/", "d", "/", ".", "/", "a">> }
-----------------------------------------------------------------------------
(* Clients.  Names of operations are shortened to a few letters.           *)

OperationNames == << <<"l", "s">>, <<"v", "s">>, <<"c", "f">>, <<"c", "n">> >>

Arg(name, digits) == [name |-> name, digits |-> digits]

Client(resource, args, headers, eol, closes) ==
    [method |-> <<"GET">>, resource |-> resource, args |-> args, headers |-> headers,
     eol |-> eol, closes |-> closes]

CrLf == <<"CR", "LF">>

ArgLists == { <<>>,
    <<Arg(<<"user=">>, <<"2">>), Arg(<<"seat=">>, <<"1", "0">>)>>,
    <<Arg(<<"seat=">>, <<"0">>), Arg(<<"user=">>, <<"1", "2">>), Arg(<<"priority=">>, <<"2">>)>>,
    <<Arg(<<"user", "seat=">>, <<"1">>)>>,
    <<Arg(<<"priority=">>, <<>>), Arg(<<"seat=">>, <<"2", "1", "1">>)>> }

Header(n) == [k \in 1 .. n |-> "x"]

ClientSet ==
    {Client(r, args, <<>>, CrLf, FALSE) :
        r \in Range(OperationNames) \cup {<<"c">>, <<>>, <<"x">>, <<"v", "s", "x">>}, args \in ArgLists}
    \cup {Client(<<"v", "s">>, args, <<Header(m), Header(n)>>, eol, closes) :
            args \in ArgLists, m \in {1, 16, 17, 19}, n \in {2, 18, 34, 40},
            eol \in {CrLf, <<"LF">>, <<"CR">>}, closes \in BOOLEAN}
    \cup {[Client(<<"c", "n">>, args, <<Header(3)>>, CrLf, FALSE) EXCEPT !.method = <<"POST">>] : args \in ArgLists}

H == INSTANCE HttpRequest WITH
    Clients <- ClientSet, Operations <- OperationNames, BUFSIZE <- 18, FILE_SIZE <- 12
-----------------------------------------------------------------------------
(* Lines.                                                                  *)

Word(text) == [text |-> text, quote |-> ""]
Quoted(q, text) == [text |-> text, quote |-> q]

Words == {Word(<<"a">>), Word(<<"jobs">>), Word(<<"cd">>), Word(<<".", "/", "x">>), Word(<<"/", "bin">>), Word(<<"b", "'">>),
          Quoted("'", <<"a", " ", "b">>), Quoted("\"", <<" ", "|", "'">>), Quoted("'", <<>>)}

NoWord == [text |-> <<>>, quote |-> "none"]

Command(words, from, to, bg) == [words |-> words, in |-> from, out |-> to, bg |-> bg]

CommandSet ==
    {Command(<<w>>, NoWord, NoWord, bg) : w \in Words \ {Word(<<"b", "'">>)}, bg \in BOOLEAN}
    \cup {Command(<<Word(<<"a">>), w, x>>, NoWord, NoWord, FALSE) :
            w \in Words \ {Word(<<"b", "'">>)}, x \in Words \ {Word(<<"b", "'">>)}}
    \cup {Command(<<Word(<<"cd">>), w>>, NoWord, NoWord, FALSE) : w \in {Word(<<"/", "bin">>), Quoted("'", <<>>)}}
    \cup {Command(<<w>>, in, o, bg) : w \in {Word(<<"a">>), Quoted("'", <<"a", " ", "b">>)},
            in \in {NoWord, Word(<<"c">>), Quoted("\"", <<"c", " ">>)}, o \in {Word(<<"d">>)}, bg \in BOOLEAN}

\* Lines that are not made of whole words: empty tasks, targets that are missing,
\* quotes in the middle of a word or around a redirection, or never closed.
LineSet == { <<>>, <<" ">>, <<"&">>, <<" ", "&">>, <<"exit">>, <<"a", " ", "<">>, <<"<", "b">>, <<" ", ">", "b">>,
    <<"a", " ", "|">>, <<"a", "|", "b", " ", "<", "c">>, <<"|", " ", "a", " ", " ", "b">>,
    <<"a", "<", "|", "b", ">">>, <<"a", "'", "b", " ", "c", "'">>, <<"'", "a", "'", "b", " ", "c">>,
    <<"'", "a", " ", "b">>, <<"'", "a", "<", "b", "'", " ", "c">>, <<"a", " ", " ", "b", " ">>,
    <<"a", " ", "b", " ", "c", " ", "d", " ", "e", " ", "f", " ", "g">> }

Bin == <<"/", "bin">>
Usr == <<"/", "usr">>

S == INSTANCE Interpreter WITH
    buf <- line, Lines <- LineSet, Commands <- CommandSet, Size <- 16, MaxLines <- 2,
    PATH <- <<Bin, Usr>>, HOME <- Usr, Directories <- {Bin, Usr},
    Programs <- {Usr \o <<"/", "a">>, Usr \o <<"/", "x">>, Bin \o <<"/", "a">>, Bin \o <<"/", "b">>}
-----------------------------------------------------------------------------
ASSUME InputAssumption == H!HttpAssumption /\ S!InterpreterAssumption

Idle == "idle"

OneImage == CHOOSE m \in ImageSet : TRUE
OnePath == CHOOSE p \in PathSet : TRUE

\* ext2cat is called with some image and path, and does not run.
ext2Idle == image = OneImage /\ path = OnePath /\ Init
httpIdle == client = Idle /\ taken = Idle /\ phase = Idle /\ buf = Idle /\ file = Idle /\ reply = Idle
shellIdle == line = Idle /\ lpc = Idle /\ typed = Idle /\ command = Idle /\ ran = Idle /\ cwd = Idle /\ lines = Idle

ReadersInit ==
    \/ reader = "ext2cat" /\ Init /\ httpIdle /\ shellIdle
    \/ reader = "server" /\ H!Init /\ ext2Idle /\ shellIdle
    \/ reader = "tsh" /\ S!Init /\ ext2Idle /\ httpIdle

ReadersNext ==
    /\ UNCHANGED reader
    /\ \/ reader = "ext2cat" /\ Next /\ UNCHANGED <<httpVars, shellVars>>
       \/ reader = "server" /\ H!Next /\ UNCHANGED <<vars, shellVars>>
       \/ reader = "tsh" /\ S!Next /\ UNCHANGED <<vars, httpVars>>

ReadersSpec == ReadersInit /\ [][ReadersNext]_<<reader, vars, httpVars, shellVars>>
-----------------------------------------------------------------------------
\* A request is answered when it is complete, and for what it asks (see HttpRequest).
UnderstoodAsSent == reader = "server" => H!UnderstoodAsSent

\* A command comes out of the line typed for it (see Interpreter).
WordsAsTyped == reader = "tsh" => S!WordsAsTyped
=============================================================================
