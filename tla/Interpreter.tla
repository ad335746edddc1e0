---------------------------- MODULE Interpreter ----------------------------
(***************************************************************************)
(* tinyshell/interpreter.c with the buffer getCommandLine (io.c) fills and *)
(* what RunCmd (runtime.c) makes of the result: how a line becomes a       *)
(* command, and which program or built-in command that is.                 *)
(*                                                                         *)
(* The shell reads every line into the same buffer, and words are cut out  *)
(* of it in place, by writing NUL behind them.  What is behind the end of  *)
(* a line is what earlier lines have left there.  The buffer is longer     *)
(* than any line; the last place of it, and what lies behind, is NUL.      *)
(*                                                                         *)
(* A line is a sequence of characters, or of words as short for many.      *)
(***************************************************************************)
EXTENDS Integers, FiniteSetsExt, SequencesExt

CONSTANTS
    Lines,       \* lines of any kind
    Commands,    \* commands a user has in mind and types, as below
    PATH,        \* the directories of the environment variable, in their order
    HOME,
    Directories, \* what there is: directories,
    Programs,    \*   and files that can be executed, by their full names
    Size,        \* bound: the length of the buffer
    MaxLines     \* bound: the lines that are typed

\* A command has words, redirections (or None) and may run in the background.
\* A word is a text and the quote it is put in (or "").
None == [text |-> <<>>, quote |-> "none"]

\* What is assumed of the constants.
InterpreterAssumption ==
    /\ Size \in Nat /\ MaxLines \in Nat
    /\ HOME \in Directories /\ Range(PATH) \subseteq Directories

VARIABLES
    buf,         \* the buffer, from place 0 on
    lpc,         \* "read", "interpret", "run", "exited"
    typed,       \* the command the user has in mind, {} if the line is of another kind
    command,     \* what the line has been made into
    ran,         \* what has become of it: a kind, and the program that is run
    cwd,         \* the shell's working directory
    lines        \* how many lines have been read

vars == <<buf, lpc, typed, command, ran, cwd, lines>>

NUL == "NUL"

Quotes == {"'", "\""}

Ran(kind, program) == [kind |-> kind, program |-> program]

Nothing == Ran("nothing", <<>>)

Init ==
    /\ buf = [n \in 0 .. Size |-> NUL]
    /\ lpc = "read" /\ typed = {} /\ command = <<>> /\ ran = Nothing
    /\ cwd = HOME /\ lines = 0
-----------------------------------------------------------------------------
(* Text in the buffer b.                                                   *)

\* The first place from a place on that is, or is not, one of some characters.
FirstOf(b, from, chars) == Min({n \in from .. Size : b[n] \in chars} \cup {Size})

FirstBut(b, from, chars) == Min({n \in from .. Size : b[n] \notin chars} \cup {Size})

Text(b, from, to) == [n \in 1 .. to - from |-> b[from + n - 1]]

\* The quote that is open after one more character.
Toggle(open, ch) ==
    IF ch = open THEN "" ELSE IF open = "" /\ ch \in Quotes THEN ch ELSE open

\* The places of some characters in a text that are in no quotes.
Bare(text, chars) ==
    {n \in DOMAIN text : text[n] \in chars /\ FoldLeft(Toggle, "", SubSeq(text, 1, n - 1)) = ""}
-----------------------------------------------------------------------------
(* single_param: the next word from a place on, and the buffer then.  A    *)
(* quote counts only in front of a word; blanks and NULs before the word   *)
(* are skipped, whosever they are.                                         *)

single_param(b, st) ==
    LET at == FirstBut(b, st, {" ", NUL})
        quoted == b[at] \in Quotes
        start == IF quoted THEN at + 1 ELSE at
        end == FirstOf(b, at + 1, {NUL, "<", ">"} \cup IF quoted THEN {b[at]} ELSE {" "})
    IN  IF at = Size THEN [word |-> <<"garbage">>, buf |-> b]
        ELSE [word |-> Text(b, start, end), buf |-> [b EXCEPT ![end] = NUL]]

\* The words of a command are taken one after the other; tmp goes behind the next
\* NUL, which single_param has written or not.
NextWord(s) ==
    LET w == single_param(s.buf, s.tmp) IN
    [words |-> Append(s.words, w.word), buf |-> w.buf,
     tmp |-> Min({FirstOf(w.buf, s.tmp, {NUL}) + 1, Size})]

\* The target after the last sign of a kind in the text at place c, if there is one.
Redirect(p, c, text, sign) ==
    LET at == Bare(text, {sign})
        target == Min({n \in Max(at) + 1 .. Len(text) : text[n] # " "} \cup {Len(text) + 1})
        w == single_param(p.buf, c + target - 1)
    IN  IF at = {} THEN p
        ELSE [p EXCEPT !.buf = w.buf, ![IF sign = "<" THEN "in" ELSE "out"] = <<w.word>>]

\* How many words parser_single expects: one for each run of blanks before the first
\* redirection, and one if the character before it, or before the text if it begins
\* with one, is no blank.
\* Mutant: blanks in quotes count.
argc_quotesToo(text, before) ==
    LET length == Min(Bare(text, {"<", ">"}) \cup {Len(text) + 1}) - 1
        blanks == {n \in DOMAIN text : text[n] = " "}
        runs == {n \in blanks : n <= length /\ n - 1 \notin blanks}
        last == IF length = 0 THEN before ELSE text[length]
    IN  Cardinality(runs) + IF last = " " THEN 0 ELSE 1

argc(text, before) ==
    LET length == Min(Bare(text, {"<", ">"}) \cup {Len(text) + 1}) - 1
        blanks == Bare(text, {" "})
        runs == {n \in blanks : n <= length /\ n - 1 \notin blanks}
        last == IF length = 0 THEN before ELSE text[length]
    IN  Cardinality(runs) + IF last = " " THEN 0 ELSE 1

\* The task between two places.  The byte in front of the buffer is no blank.
parser_single(b, from, to, bg) ==
    LET cut == [b EXCEPT ![to] = NUL]
        c == Min({n \in from .. to - 1 : cut[n] # " "} \cup {to})
        text == Text(cut, c, to)
        count == argc(text, IF c = 0 THEN NUL ELSE cut[c - 1])
        parsed == FoldLeft(LAMBDA s, i : NextWord(s), [words |-> <<>>, buf |-> cut, tmp |-> c],
                           [i \in 1 .. count |-> i])
        task == [argv |-> parsed.words, in |-> <<>>, out |-> <<>>, bg |-> bg, buf |-> parsed.buf]
    IN  Redirect(Redirect(task, c, text, "<"), c, text, ">")
-----------------------------------------------------------------------------
(* Interpret.                                                              *)

Task(p) == [argv |-> p.argv, in |-> p.in, out |-> p.out, bg |-> p.bg]

Finish(s, to, bg) ==
    LET p == parser_single(s.buf, s.from, to, bg)
    IN  [s EXCEPT !.buf = p.buf, !.from = to + 1, !.tasks = Append(@, Task(p))]

\* The second scan ends a task at every bare bar it meets.
Scan(s, i, bg) ==
    LET ch == s.buf[i] IN
    IF ch = "|" /\ s.open = "" THEN Finish(s, i, bg) ELSE [s EXCEPT !.open = Toggle(@, ch)]

Tasks(b, bg) ==
    LET length == FirstOf(b, 0, {NUL})
        scanned == FoldLeft(LAMBDA s, i : Scan(s, i, bg),
                            [buf |-> b, open |-> "", from |-> 0, tasks |-> <<>>],
                            [n \in 1 .. length |-> n - 1])
    IN  Finish(scanned, length, bg)

\* The last place that is no blank; -1, where there is no ampersand, if all are.
LastUsed(b) == Max({n \in 0 .. FirstOf(b, 0, {NUL}) - 1 : b[n] # " "} \cup {-1})

Ampersand(b) == LastUsed(b) >= 0 /\ b[LastUsed(b)] = "&"

\* Nothing is made of an empty line, and of an ampersand alone.
InterpretNothing ==
    /\ lpc = "interpret"
    /\ buf[0] = NUL \/ (Ampersand(buf) /\ LastUsed(buf) = 0)
    /\ lpc' = "read" /\ typed' = {} /\ ran' = Nothing
    /\ UNCHANGED <<buf, command, cwd, lines>>

Interpret ==
    LET bg == Ampersand(buf)
        parsed == Tasks(IF bg THEN [buf EXCEPT ![LastUsed(buf)] = NUL] ELSE buf, bg)
    IN  /\ lpc = "interpret"
        /\ buf[0] # NUL /\ ~(bg /\ LastUsed(buf) = 0)
        /\ buf' = parsed.buf /\ command' = parsed.tasks
        /\ lpc' = "run"
        /\ UNCHANGED <<typed, ran, cwd, lines>>

-----------------------------------------------------------------------------
(* RunCmd, and the commands that concern no job.                           *)

BuiltIn == { <<w>> : w \in {"bg", "fg", "jobs", "cd", "alias", "unalias"} }

argv == command[1].argv

Done(r) ==
    /\ ran' = r
    /\ lpc' = "read" /\ command' = <<>> /\ typed' = {}
    /\ UNCHANGED <<buf, lines>>

\* Pipelines are released without being run; a command without words is left.
\* (Redirections are parsed and not carried out.)
NothingToRun == Len(command) > 1 \/ argv = <<>>

RunNothing == NothingToRun /\ Done(Nothing) /\ UNCHANGED cwd

\* A relative name, as the system takes it.
FullName(name) == IF name # <<>> /\ Head(name) = "/" THEN name ELSE cwd \o <<"/">> \o name

\* cd goes to its first argument if that is a directory, and home without one.
RunCd ==
    LET place == IF Len(argv) = 1 THEN HOME ELSE FullName(argv[2]) IN
    /\ ~NothingToRun /\ argv[1] = <<"cd">>
    /\ Done(Ran("built in", <<>>))
    /\ cwd' = IF place \in Directories THEN place ELSE cwd

\* bg, fg and jobs are for the job table; alias and unalias do nothing.
RunBuiltInCmd ==
    /\ ~NothingToRun /\ argv[1] \in BuiltIn \ {<<"cd">>}
    /\ Done(Ran("built in", <<>>))
    /\ UNCHANGED cwd

\* A name with a slash stands for itself, any other for the first file of that name
\* along the path.
ResolveExternalCmd(name) ==
    LET along == SelectSeq([n \in DOMAIN PATH |-> PATH[n] \o <<"/">> \o name], LAMBDA f : f \in Programs)
    IN  IF "/" \in Range(name)
        THEN (IF FullName(name) \in Programs THEN <<FullName(name)>> ELSE <<>>)
        ELSE SubSeq(along, 1, Min({1, Len(along)}))

RunExternalCmd ==
    LET found == ResolveExternalCmd(argv[1]) IN
    /\ ~NothingToRun /\ argv[1] \notin BuiltIn
    /\ Done(IF found = <<>> THEN Ran("not found", <<>>) ELSE Ran("external", found[1]))
    /\ UNCHANGED cwd

RunCmd == lpc = "run" /\ (RunNothing \/ RunCd \/ RunBuiltInCmd \/ RunExternalCmd)
-----------------------------------------------------------------------------
(* Reading.                                                                *)

\* What the user types for a word, and for a command.
Typed(word) ==
    IF word.quote = "" THEN word.text ELSE <<word.quote>> \o word.text \o <<word.quote>>

TypedAfter(sign, target) == IF target = None THEN <<>> ELSE <<" ", sign, " ">> \o Typed(target)

TypedCommand(c) ==
    FoldLeft(LAMBDA text, w : text \o (IF text = <<>> THEN <<>> ELSE <<" ">>) \o Typed(w), <<>>, c.words)
        \o TypedAfter("<", c.in) \o TypedAfter(">", c.out)
        \o IF c.bg THEN <<" ", "&">> ELSE <<>>

\* getCommandLine: the line and a NUL, over what the buffer holds.
Filled(line) ==
    [n \in 0 .. Size |-> IF n < Len(line) THEN line[n + 1] ELSE IF n = Len(line) THEN NUL ELSE buf[n]]

getCommandLine(line, meant) ==
    /\ lpc = "read" /\ lines < MaxLines
    /\ Len(line) < Size
    /\ buf' = Filled(line)
    /\ typed' = meant
    /\ lpc' = IF line = <<"exit">> THEN "exited" ELSE "interpret"
    /\ lines' = lines + 1
    /\ UNCHANGED <<command, ran, cwd>>

Next ==
    \/ \E line \in Lines : getCommandLine(line, {})
    \/ \E c \in Commands : getCommandLine(TypedCommand(c), {c})
    \/ InterpretNothing \/ Interpret \/ RunCmd

Spec == Init /\ [][Next]_vars
-----------------------------------------------------------------------------
(* Properties.                                                             *)

Given(target) == IF target = None THEN <<>> ELSE <<target.text>>

\* A command typed with its quotes around whole words comes out as it was meant:
\* one task with these words, these targets and this place to run, whatever the lines
\* before it have left in the buffer, and whatever blanks, bars and quotes of the
\* other kind its words hold (but for < and >, which end even a quoted word).
WordsAsTyped ==
    lpc = "run" =>
        \A c \in typed :
            command = <<[argv |-> [n \in DOMAIN c.words |-> c.words[n].text],
                         in |-> Given(c.in), out |-> Given(c.out), bg |-> c.bg]>>
=============================================================================
