-------------------------------- MODULE Toml --------------------------------
(***************************************************************************)
(* The part of libtoml that uartmode needs: toml_parse with its tables and *)
(* key-value pairs as an automaton over tokens, and the getters.           *)
(*                                                                         *)
(* A text is a sequence of lines, a line a sequence of tokens; a newline   *)
(* ends every line.  A "#" is a comment up to the end of its line, a "str" *)
(* a string, float, date or boolean (it stands only where a value may), a  *)
(* "word" a bare name that begins like no value, "junk" any character that *)
(* begins no token.  Arrays, tables in braces and "[[" are left out.       *)
(***************************************************************************)
EXTENDS Integers, Sequences

CONSTANT Words  \* the bare names a text may have

Tok(t, w, n) == [t |-> t, w |-> w, n |-> n]

Word(w) == Tok("word", w, 0)

Num(n) == Tok("int", "", n)

Sym(t) == Tok(t, "", 0)

Symbols == {"nl", "#", "[", "]", "=", "str", "junk"}

Tokens ==
  [t : {"word"}, w : Words, n : {0}] \cup [t : {"int"}, w : {""}, n : Int]
    \cup [t : Symbols, w : {""}, n : {0}]

Texts == Seq(Seq(Tokens))

\* A key is a word or the digits of an integer; a minus begins no key.
BeginsKey(k) == k.t = "word" \/ (k.t = "int" /\ k.n >= 0)

IsValue(k) == k.t \in {"int", "str"}

Root == <<>>

\* What toml_parse begins with.  "sec" is the table keys go to, "key" the key
\* being read, "tabs" and "keys" the tables and the pairs so far; "top" says that
\* the pairs are read for toml_parse itself and not below a header, "err" that an
\* error has been set, which nobody clears.
Begin == [at |-> "parse", sec |-> Root, key |-> "", tabs |-> {},
          keys |-> [name \in {} |-> Sym("nl")], top |-> TRUE, err |-> FALSE]

\* toml_err_set, after which the parser is at "at".  It asserts that there is no
\* error yet: a second one stops the program.
Mistake(s, at) == [s EXCEPT !.at = IF s.err THEN "abort" ELSE at, !.err = TRUE]

\* The loop of toml_parse.  A character it has no branch for is never passed.
AtParse(s, k) ==
  CASE k.t \in {"nl", "#"} -> s
    [] k.t = "[" -> [s EXCEPT !.at = "head", !.sec = Root, !.top = FALSE]
    [] BeginsKey(k) -> [s EXCEPT !.at = "key", !.sec = Root, !.key = k.w, !.top = TRUE]
    [] k.t = "int" /\ k.n < 0 -> Mistake(s, "null")
    [] OTHER -> [s EXCEPT !.at = "hang"]

\* An error that toml_parse_table does not hand on: toml_parse goes on at the
\* same token.
Dropped(s, k) ==
  IF s.err THEN Mistake(s, "parse")
           ELSE AtParse([Mistake(s, "parse") EXCEPT !.sec = Root], k)

\* An error among key-value pairs: it is dropped below a header; elsewhere the
\* text is refused.
Failed(s, k) == IF s.top THEN Mistake(s, "null") ELSE Dropped(s, k)

\* toml_parse_key_value: between pairs, then for each part of a pair.  A
\* header ends the table and goes back to toml_parse.
AtKeys(s, k) ==
  CASE k.t \in {"nl", "#"} -> s
    [] k.t = "[" -> AtParse(s, k)
    [] BeginsKey(k) -> [s EXCEPT !.at = "key", !.key = k.w]
    [] OTHER -> Failed(s, k)

AtKey(s, k) == IF k.t = "=" THEN [s EXCEPT !.at = "value"] ELSE Failed(s, k)

\* A key that is there already gets the new value, also if it was a table.
Put(keys, name, k) ==
  [m \in DOMAIN keys \cup {name} |-> IF m = name THEN k ELSE keys[m]]

AtValue(s, k) ==
  IF IsValue(k)
    THEN [s EXCEPT !.at = "eol", !.keys = Put(@, <<s.sec, s.key>>, k),
                   !.tabs = @ \ {Append(s.sec, s.key)}]
    ELSE Failed(s, k)

\* Mutant of AtEol: a comment behind a value is no end of a line.
MutAtEol(s, k) == IF k.t = "nl" THEN [s EXCEPT !.at = "keys"] ELSE Failed(s, k)

AtEol(s, k) ==
  CASE k.t = "#" -> s
    [] k.t = "nl" -> [s EXCEPT !.at = "keys"]
    [] OTHER -> Failed(s, k)

\* toml_walk_table_path: from the table reached so far to its table of the next
\* name.  A name that has another value there is passed over.
Below(s, name) ==
  IF <<s.sec, name>> \in DOMAIN s.keys THEN s.sec ELSE Append(s.sec, name)

\* toml_parse_table: the parts of the name, "path" when there is one.  A token
\* that is none is reported and not passed, so that it is reported again.
AtHead(s, k) ==
  CASE k.t = "]" /\ s.at = "path" -> [s EXCEPT !.at = "named"]
    [] k.t = "]" /\ s.at = "head" -> Mistake(s, "parse")
    [] BeginsKey(k) -> [s EXCEPT !.at = "path", !.sec = Below(s, k.w)]
    [] OTHER -> [s EXCEPT !.at = "abort", !.err = TRUE]

\* Behind the name only the end of the line is taken: anything else, a comment
\* too, is an error that is not handed on, and the tables are not created.
AtNamed(s, k) ==
  IF k.t = "nl"
    THEN [s EXCEPT !.at = "keys",
                   !.tabs = @ \cup {SubSeq(s.sec, 1, i) : i \in 1 .. Len(s.sec)}]
    ELSE Dropped(s, k)

Step(s, k) ==
  CASE s.at = "parse" -> AtParse(s, k)
    [] s.at = "keys" -> AtKeys(s, k)
    [] s.at = "key" -> AtKey(s, k)
    [] s.at = "value" -> AtValue(s, k)
    [] s.at = "eol" -> AtEol(s, k)
    [] s.at \in {"head", "path"} -> AtHead(s, k)
    [] s.at = "named" -> AtNamed(s, k)
    [] s.at \in {"null", "hang", "abort"} -> s

\* Where the automaton is before a line and behind each of its tokens.
LineStates(s, line) ==
  LET after[k \in 0 .. Len(line)] ==
        IF k = 0 THEN s ELSE Step(after[k - 1], line[k])
  IN after

EndOfLine(s, line) == Step(LineStates(s, line)[Len(line)], Sym("nl"))

\* And before a text and behind each of its lines.
TextStates(text) ==
  LET after[i \in 0 .. Len(text)] ==
        IF i = 0 THEN Begin ELSE EndOfLine(after[i - 1], text[i])
  IN after

\* toml_load_filename: the table of a text, or that there is none.
Parse(text) == TextStates(text)[Len(text)]

\* The getters stop the program when there is no such table or integer.
HasTable(s, sec) == sec \in s.tabs

HasInteger(s, sec, key) ==
  /\ <<sec, key>> \in DOMAIN s.keys
  /\ s.keys[<<sec, key>>].t = "int"

GetInteger(s, sec, key) == s.keys[<<sec, key>>].n
-----------------------------------------------------------------------------
\* What TOML says of a text of blank lines, comments, headers and pairs, line
\* by line and without an automaton.
IsBlank(line) == line = <<>> \/ line = <<Sym("#")>>

IsHeader(line) ==
  Len(line) = 3 /\ line[1].t = "[" /\ line[2].t = "word" /\ line[3].t = "]"

IsPair(line) ==
  /\ Len(line) = 3 \/ (Len(line) = 4 /\ line[4].t = "#")
  /\ line[1].t = "word" /\ line[2].t = "=" /\ IsValue(line[3])

SectionOf(text, i) ==
  LET heads == {j \in 1 .. i : IsHeader(text[j])}
  IN IF heads = {} THEN Root
     ELSE <<text[CHOOSE j \in heads : \A h \in heads : h <= j][2].w>>

\* What the i-th line gives a value to, and in which table.
NameOf(text, i) ==
  IF IsHeader(text[i]) THEN <<Root, text[i][2].w>>
                       ELSE <<SectionOf(text, i), text[i][1].w>>

\* No name is given twice: neither a key, nor a table, nor one as the other.
IsLegal(text) ==
  /\ \A i \in DOMAIN text : IsBlank(text[i]) \/ IsHeader(text[i]) \/ IsPair(text[i])
  /\ \A i, j \in {h \in DOMAIN text : ~ IsBlank(text[h])} :
       i # j => NameOf(text, i) # NameOf(text, j)

Sections(text) ==
  {<<text[i][2].w>> : i \in {j \in DOMAIN text : IsHeader(text[j])}}

Meaning(text) ==
  LET pairs == {i \in DOMAIN text : IsPair(text[i])}
  IN [name \in {NameOf(text, i) : i \in pairs} |->
        text[CHOOSE i \in pairs : NameOf(text, i) = name][3]]
=============================================================================
