------------------------------ MODULE CfgParser ------------------------------
(***************************************************************************)
(* CCfgFileParser: parseFile turns the lines of a configuration file into  *)
(* sections of keys and values, getValue looks them up.  The server and    *)
(* the client have a copy each.                                            *)
(*                                                                         *)
(* A line is a sequence of tokens: the marks the parser knows, blanks, and *)
(* words.  It comes with what its author meant by it, against which the    *)
(* result is compared: "section", "set", "nothing" (a blank line or a      *)
(* comment), or "bad" (none of these).                                     *)
(***************************************************************************)
EXTENDS Integers, Sequences, FiniteSetsExt

CONSTANTS
    Files,      \* the files there may be: sequences of lines
    NoFile,     \* the file is missing
    Number      \* Number[w]: what atol and atof make of the word w

Space  == " "
CR     == "CR"       \* '\r'
Long   == "LONG"     \* text that does not fit the 2048 bytes of line
Blanks == {Space, CR}

SyntaxError == 256

-----------------------------------------------------------------------------
(* The string functions *)

Positions(s, marks) == {i \in 1 .. Len(s) : s[i] \in marks}
Has(s, mark)        == Positions(s, {mark}) # {}
Before(s, mark)     == SubSeq(s, 1, Min(Positions(s, {mark})) - 1)
After(s, mark)      == SubSeq(s, Min(Positions(s, {mark})) + 1, Len(s))
Words(s)            == {i \in 1 .. Len(s) : s[i] \notin Blanks}

\* Functions, and not operators, where the result is used more than once:
\* TLC then evaluates the argument just once.
Text == Seq(STRING)

strltrim[s \in Text] ==
    IF Words(s) = {} THEN <<>> ELSE SubSeq(s, Min(Words(s)), Len(s))
strrtrim[s \in Text] ==
    IF Words(s) = {} THEN <<>> ELSE SubSeq(s, 1, Max(Words(s)))

IsSection(s)      == s[1] = "[" /\ Has(s, "]")
extractSection(s) == Before(Tail(s), "]")

\* what is behind the record mark is ignored, or else behind the '\r'
Cut[s \in Text] ==
    CASE Has(s, ";") -> Before(s, ";")
      [] ~Has(s, ";") /\ Has(s, CR) -> Before(s, CR)
      [] OTHER -> s

IsKeyValue(s) == Has(Cut[s], "=")
extractKeyValue[s \in Text] ==
    [first  |-> strrtrim[Before(Cut[s], "=")],
     second |-> strrtrim[strltrim[After(Cut[s], "=")]]]

-----------------------------------------------------------------------------
(* How lines are written *)

Blank(t, i, j)      == \A n \in i .. j : t[n] \in Blanks
Without(t, i, j, m) == \A n \in i .. j : t[n] # m

\* Behind blanks, t begins at i.
BeginsAt(t, i) == t[i] \notin Blanks /\ Blank(t, 1, i - 1)

\* w is what t has from i to j, without the blanks around it.
Between(t, i, j, w) ==
    \/ w = <<>> /\ Blank(t, i, j)
    \/ \E a \in i .. j : \E b \in a .. j :
          /\ Blank(t, i, a - 1) /\ t[a] \notin Blanks
          /\ Blank(t, b + 1, j) /\ t[b] \notin Blanks
          /\ w = SubSeq(t, a, b)

\* The record from i on ends before e: before the record mark, if there is
\* one, or else before a '\r', or with the line.
EndsBefore(t, i, e) ==
    \/ e <= Len(t) /\ t[e] = ";" /\ Without(t, i, e - 1, ";")
    \/ /\ Without(t, i, Len(t), ";")
       /\ \/ e <= Len(t) /\ t[e] = CR /\ Without(t, i, e - 1, CR)
          \/ e = Len(t) + 1 /\ Without(t, i, Len(t), CR)

SaysNothing(t) ==
    \/ Blank(t, 1, Len(t))
    \/ \E i \in 1 .. Len(t) : BeginsAt(t, i) /\ t[i] = "#"

SaysSection(t, name) ==
    \E i \in 1 .. Len(t) : \E j \in i + 1 .. Len(t) :
        /\ BeginsAt(t, i) /\ t[i] = "["
        /\ t[j] = "]" /\ Without(t, i + 1, j - 1, "]")
        /\ name = SubSeq(t, i + 1, j - 1)

\* neither of these: a record from i to before e
HasRecord(t, i, e) ==
    /\ BeginsAt(t, i) /\ t[i] # "#"
    /\ t[i] = "[" => Without(t, i, Len(t), "]")
    /\ EndsBefore(t, i, e)

SaysSet(t, key, value) ==
    \E i \in 1 .. Len(t) : \E e \in i .. Len(t) + 1 : \E q \in i .. e - 1 :
        /\ HasRecord(t, i, e)
        /\ t[q] = "=" /\ Without(t, i, q - 1, "=")
        /\ Between(t, i, q - 1, key) /\ Between(t, q + 1, e - 1, value)

IsBad(t) ==
    \E i \in 1 .. Len(t) : \E e \in i .. Len(t) + 1 :
        HasRecord(t, i, e) /\ Without(t, i, e - 1, "=")

\* This is what text t says.
Says(t, means) ==
    \/ means.kind = "nothing" /\ SaysNothing(t)
    \/ means.kind = "section" /\ SaysSection(t, means.name)
    \/ means.kind = "set" /\ SaysSet(t, means.key, means.value)
    \/ means.kind = "bad" /\ IsBad(t)

\* The meaning of a line is that of its text.
ASSUME FilesAssumption ==
    \A f \in Files :
        /\ Len(f) \in Nat
        /\ \A i \in 1 .. Len(f) : f[i].text \in Text /\ Says(f[i].text, f[i].means)

ASSUME NumberAssumption == \A w \in DOMAIN Number : Number[w] \in Int

-----------------------------------------------------------------------------
VARIABLES
    file,       \* the file, NoFile if it is missing
    pc,         \* "access", "open", "copy", "endless", "parse", "parsed", ...
    errorLine,  \* m_error_line
    section,    \* the key of pSC
    content,    \* m_content: values by section and key
    ret         \* what parseFile returned

parser == <<errorLine, section, content, ret>>

Line == strltrim[file[errorLine + 1].text]
AtLine == pc = "parse" /\ errorLine < Len(file)
NextLine == errorLine' = errorLine + 1 /\ UNCHANGED <<file, pc, ret>>

ParserInit ==
    /\ file \in Files \cup {NoFile}
    /\ errorLine = 0 /\ section = <<"default">>
    /\ content = <<>>
    /\ ret = 0

\* return errno
OpenFails ==
    /\ pc = "open" /\ file = NoFile
    /\ pc' = "parsed" /\ ret' = 2
    /\ UNCHANGED <<file, errorLine, section, content>>

Open ==
    /\ pc = "open" /\ file # NoFile
    /\ pc' = "copy"
    /\ errorLine' = 0 /\ section' = <<"default">> /\ content' = <<>>
    /\ UNCHANGED <<file, ret>>

TooLong == \E i \in 1 .. Len(file) : Has(file[i].text, Long)

\* The first loop copies the file line by line.
Copy ==
    /\ pc = "copy" /\ ~TooLong
    /\ pc' = "parse"
    /\ UNCHANGED <<file, parser>>

\* getline fails at a line that does not fit.  It then fails for ever and
\* never gets to eof, and the copy grows with each turn.
CopyEndless ==
    /\ pc = "copy" /\ TooLong
    /\ pc' = "endless"
    /\ UNCHANGED <<file, parser>>

NewSection ==
    /\ AtLine /\ Line # <<>> /\ IsSection(Line)
    /\ section' = extractSection(Line)
    /\ NextLine /\ UNCHANGED content

\* Mutant: the next line is read only after a line that was parsed.
SkipStays ==
    /\ AtLine
    /\ Line # <<>> => Line[1] = "#"
    /\ UNCHANGED <<file, pc, parser>>

\* white line or comment
Skip ==
    /\ AtLine
    /\ Line # <<>> => Line[1] = "#"
    /\ NextLine /\ UNCHANGED <<section, content>>

Record == AtLine /\ Line # <<>> /\ Line[1] # "#" /\ ~IsSection(Line)

\* Mutant: assignment in place of insert: the last value wins.
assign(key, value) ==
    [sk \in DOMAIN content \cup {key} |-> IF sk = key THEN value ELSE content[sk]]

\* insert keeps the value that a key has already.
insert(key, value) ==
    [sk \in DOMAIN content \cup {key} |->
        IF sk \in DOMAIN content THEN content[sk] ELSE value]

KeyValue ==
    /\ Record /\ IsKeyValue(Line)
    /\ LET kv == extractKeyValue[Line]
       IN  content' = insert(<<section, kv.first>>, kv.second)
    /\ NextLine /\ UNCHANGED section

\* strrtrim of an empty key reads, and may write, in front of the line.
EmptyKey ==
    /\ Record /\ IsKeyValue(Line) /\ Line[1] = "="
    /\ pc' = "undefined"
    /\ UNCHANGED <<file, parser>>

\* return SYNTAX_ERROR; what was parsed stays
BadLine ==
    /\ Record /\ ~IsKeyValue(Line)
    /\ pc' = "parsed" /\ ret' = SyntaxError
    /\ errorLine' = errorLine + 1
    /\ UNCHANGED <<file, section, content>>

EndOfFile ==
    /\ pc = "parse" /\ errorLine = Len(file)
    /\ pc' = "parsed" /\ ret' = 0
    /\ UNCHANGED <<file, errorLine, section, content>>

parseFile ==
    \/ OpenFails \/ Open \/ Copy \/ CopyEndless
    \/ NewSection \/ Skip \/ KeyValue \/ EmptyKey \/ BadLine \/ EndOfFile

getValue(s, k) ==
    IF <<<<s>>, <<k>>>> \in DOMAIN content THEN content[<<<<s>>, <<k>>>>] ELSE <<>>

getIntValue(s, k) ==
    LET v == getValue(s, k)
    IN  IF v # <<>> /\ v[1] \in DOMAIN Number THEN Number[v[1]] ELSE 0

-----------------------------------------------------------------------------
(* What a file means *)

SectionAt(i) ==
    LET heads == {j \in 1 .. i : file[j].means.kind = "section"}
    IN  IF heads = {} THEN <<"default">> ELSE file[Max(heads)].means.name

SetsAt(i, s, k) ==
    /\ file[i].means.kind = "set"
    /\ file[i].means.key = k /\ SectionAt(i) = s

\* the lines up to n that give key k of section s a value
Setters(s, k, n) == {i \in 1 .. n : SetsAt(i, s, k)}

BadLines == {i \in 1 .. Len(file) : file[i].means.kind = "bad"}

\* However the lines are written - blanks, line ends, comments behind a
\* record mark, sections opened again, keys set twice - the parser knows what
\* the lines it has read mean, the first value of a key being the one that
\* counts, and it stops at the first line that means nothing.
ContentIsMeaning ==
    (pc \in {"parse", "parsed"} /\ file # NoFile) =>
        /\ DOMAIN content =
              {<<SectionAt(i), file[i].means.key>> :
                  i \in {j \in 1 .. errorLine : file[j].means.kind = "set"}}
        /\ \A sk \in DOMAIN content :
              content[sk] = file[Min(Setters(sk[1], sk[2], errorLine))].means.value
        /\ ret = SyntaxError => errorLine = Min(BadLines)
        /\ pc = "parse" => \A i \in BadLines : i > errorLine
        /\ pc = "parsed" /\ ret = 0 => BadLines = {}
=============================================================================
