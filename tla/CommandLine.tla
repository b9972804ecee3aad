----------------------------- MODULE CommandLine -----------------------------
(* How a line becomes a command and its arguments: parseNightMareMessage2(), as *)
(* the scan that it is, and the grammar that its comment gives, as a parser by  *)
(* recursive descent.  A line is a sequence of characters or of whole words;    *)
(* upper and lower case are not distinguished.                                  *)
EXTENDS Naturals, Sequences, SequencesExt

CONSTANTS MaxMessage, MaxArguments    \* NM_MAX_MESSAGE_LEN and NM_MAX_ARGS

Blank == " "
Quote == "quote"
Backslash == "backslash"
Fence == "fence"
Delimiters == {Quote, Fence}

\* The first of the positions, of which there are some.
Earliest(at) == CHOOSE i \in at : \A j \in at : i <= j

\* How many fences there are from position i on.
RunAt(text, i) ==
    Earliest({n \in 1 .. Len(text) + 1 - i : i + n > Len(text) \/ text[i + n] # Fence})

-------------------------------------------------------------------------------
(* The scan.                                                                   *)

Invalid(error) == [valid |-> FALSE, tokens |-> <<>>, error |-> error]
Parsed(tokens) == [valid |-> TRUE, tokens |-> tokens, error |-> ""]

Unscanned == [in |-> "between", token |-> <<>>, tokens |-> <<>>, next |-> 1, error |-> ""]

\* storeToken(): slot 0 is the command, the others are arguments.
StoreToken(s) ==
    IF Len(s.tokens) > MaxArguments THEN [s EXCEPT !.error = "too many arguments"]
    ELSE [s EXCEPT !.tokens = Append(@, s.token), !.token = <<>>, !.in = "between"]

Entered(s) == IF s.in = "between" THEN "word" ELSE s.in

Taking(s, content, next) ==
    [s EXCEPT !.token = @ \o content, !.in = Entered(s), !.next = next]

ScanBackslash(text, s, i) ==
    IF i < Len(text) /\ text[i + 1] \in Delimiters
    THEN Taking(s, <<text[i + 1]>>, i + 2) ELSE Taking(s, <<Backslash>>, i + 1)

\* An opening run of N is closed by the next run of exactly N.
ScanFence(text, s, i) ==
    LET n == RunAt(text, i)
        closing == {j \in i + n .. Len(text) :
                       text[j] = Fence /\ text[j - 1] # Fence /\ RunAt(text, j) = n}
        j == Earliest(closing)
    IN  IF closing = {} THEN [s EXCEPT !.error = "unterminated literal"]
        ELSE Taking(s, SubSeq(text, i + n, j - 1), j + n)

\* Mutant: a quote begins a token only if something is in it.
ScanEmptyQuote(s, i) ==
    [s EXCEPT !.next = i + 1, !.in = IF @ # "quoted" THEN "quoted" ELSE IF s.token = <<>> THEN "between" ELSE "word"]
ScanQuote(s, i) == [s EXCEPT !.next = i + 1, !.in = IF @ = "quoted" THEN "word" ELSE "quoted"]

ScanCharacter(text, s, i) ==
    IF text[i] = Backslash THEN ScanBackslash(text, s, i)
    ELSE IF text[i] = Fence /\ s.in # "quoted" THEN ScanFence(text, s, i)
    ELSE IF text[i] = Quote THEN ScanQuote(s, i)
    ELSE IF text[i] # Blank \/ s.in = "quoted" THEN Taking(s, <<text[i]>>, i + 1)
    ELSE IF s.in = "word" THEN StoreToken(s) ELSE s

Scan(text) ==
    FoldLeft(LAMBDA s, i : IF s.error # "" \/ i < s.next THEN s ELSE ScanCharacter(text, s, i),
             Unscanned, [i \in DOMAIN text |-> i])

\* parseNightMareMessage2(), but for a heap that is exhausted.
Parse(text) ==
    LET s == Scan(text)
        last == IF s.in = "word" THEN StoreToken(s) ELSE s
    IN  IF Len(text) > MaxMessage THEN Invalid("input too long")
        ELSE IF s.error # "" THEN Invalid(s.error)
        ELSE IF s.in = "quoted" THEN Invalid("unterminated quote")
        ELSE IF last.error # "" THEN Invalid(last.error)
        ELSE IF last.tokens = <<>> THEN Invalid("empty command") ELSE Parsed(last.tokens)

-------------------------------------------------------------------------------
(* The grammar: what a line may mean, from each position on.                    *)

Escapes(text, i) == text[i] = Backslash /\ i < Len(text) /\ text[i + 1] \in Delimiters
Before(content, meanings) == {<<content \o m[1], m[2]>> : m \in meanings}

\* What is quoted from position i on, with what follows it.
QuotedFrom(text) ==
    LET from[i \in 1 .. Len(text) + 2] ==
            IF i > Len(text) THEN {}
            ELSE IF text[i] = Quote THEN {<<<<>>, i + 1>>}
            ELSE IF Escapes(text, i) THEN Before(<<text[i + 1]>>, from[i + 2])
            ELSE Before(<<text[i]>>, from[i + 1])
    IN  from

\* The fenced texts that begin at position i: N fences, not one more, on both sides,
\* and nowhere between them.
Fenced(text, i) ==
    {<<SubSeq(text, f[2], f[3] - 1), f[3] + f[1]>> :
        f \in {g \in (1 .. Len(text)) \X (i .. Len(text)) \X (i .. Len(text)) :
                 LET Is(p, q) == \A k \in p .. q : k \in DOMAIN text /\ text[k] = Fence
                     Exactly(p) == /\ Is(p, p + g[1] - 1) /\ ~Is(p + g[1], p + g[1])
                                   /\ p = i \/ ~Is(p - 1, p - 1)
                 IN  /\ g[2] = i + g[1] /\ g[3] > g[2] /\ Exactly(i) /\ Exactly(g[3])
                     /\ \A p \in g[2] .. g[3] - 1 : ~Exactly(p)}}

\* A word: escaped, fenced, quoted and other characters, up to a blank or the end.
WordFrom(text) ==
    LET quoted == QuotedFrom(text)
        from[i \in 1 .. Len(text) + 2] ==
            IF i > Len(text) \/ text[i] = Blank THEN {<<<<>>, i>>}
            ELSE IF Escapes(text, i) THEN Before(<<text[i + 1]>>, from[i + 2])
            ELSE IF text[i] = Fence THEN UNION {Before(f[1], from[f[2]]) : f \in Fenced(text, i)}
            ELSE IF text[i] = Quote THEN UNION {Before(q[1], from[q[2]]) : q \in quoted[i + 1]}
            ELSE Before(<<text[i]>>, from[i + 1])
    IN  from

\* The words of a line, or that it has no meaning.
Grammar(text) ==
    LET word == WordFrom(text)
        words[i \in 1 .. Len(text) + 2] ==
            IF i > Len(text) THEN {<<>>}
            ELSE IF text[i] = Blank THEN words[i + 1]
            ELSE UNION {{<<w[1]>> \o rest : rest \in words[w[2]]} : w \in word[i]}
    IN  {ws \in words[1] : Len(ws) \in 1 .. MaxArguments + 1}

\* The scan takes a line exactly if the grammar of its comment gives it a meaning, and
\* gives it this one: no word is lost, joined, split or moved to another place.
MeansWhatIsWritten(text) ==
    Len(text) <= MaxMessage =>
        IF Parse(text).valid THEN Grammar(text) = {Parse(text).tokens} ELSE Grammar(text) = {}
===============================================================================
