----------------------------- MODULE Toml_proofs -----------------------------
(***************************************************************************)
(* Proofs about Toml, for texts of any length: what the parser makes of    *)
(* any text is well-formed, and of a legal one it makes what the text      *)
(* says.  Both are inductions over lines and tokens, on the least place    *)
(* where the result would fail.                                            *)
(***************************************************************************)
EXTENDS Toml, TLAPS, WellFoundedInduction, SequenceTheorems

-----------------------------------------------------------------------------
(***************************************************************************)
(* Induction.                                                              *)
(***************************************************************************)

LEMMA LeastOf ==
  ASSUME NEW T \in SUBSET Nat, T # {}
  PROVE  \E n \in T : \A m \in T : n <= m
  <1>1. PICK n \in T : \A m \in T : ~ (<<m, n>> \in OpToRel(<, Nat))
    BY NatLessThanWellFounded, WFMin
  <1>2. \A m \in T : ~ (m < n)
    BY <1>1 DEF OpToRel
  <1> QED BY <1>2

\* A set that has 0, and the successor up to n of all it has, has 0 .. n.
LEMMA UpTo ==
  ASSUME NEW n \in Nat, NEW S \in SUBSET Nat, 0 \in S,
         \A i \in S : i < n => i + 1 \in S
  PROVE  \A i \in 0 .. n : i \in S
  <1> DEFINE Out == (0 .. n) \ S
  <1> SUFFICES ASSUME Out # {} PROVE FALSE
    OBVIOUS
  <1>1. Out \in SUBSET Nat
    OBVIOUS
  <1>2. PICK i \in Out : \A j \in Out : i <= j
    <2> HIDE DEF Out
    <2> QED BY <1>1, LeastOf
  <1>3. i # 0 /\ i \in 0 .. n
    BY <1>2
  <1>4. i - 1 \in 0 .. n /\ i - 1 \notin Out
    BY <1>2, <1>3
  <1>5. i - 1 \in S /\ (i - 1) + 1 \in S
    BY <1>3, <1>4
  <1> QED BY <1>2, <1>3, <1>5

-----------------------------------------------------------------------------
(***************************************************************************)
(* The runs over a line and over a text are what their definitions say.    *)
(***************************************************************************)

LEMMA LineRun ==
  ASSUME NEW s, NEW line, Len(line) \in Nat
  PROVE  /\ LineStates(s, line)[0] = s
         /\ \A k \in 1 .. Len(line) :
              LineStates(s, line)[k] = Step(LineStates(s, line)[k - 1], line[k])
  <1> DEFINE Next(f, k) == IF k = 0 THEN s ELSE Step(f[k - 1], line[k])
             Has(n) == \E f : f = [k \in 0 .. n |-> Next(f, k)]
             Runs == {n \in Nat : Has(n)}
  <1>1. 0 \in Runs
    <2>1. [k \in 0 .. 0 |-> s] = [k \in 0 .. 0 |-> Next([j \in 0 .. 0 |-> s], k)]
      OBVIOUS
    <2> QED BY <2>1
  <1>2. ASSUME NEW n \in Runs PROVE n + 1 \in Runs
    <2>1. PICK f : f = [k \in 0 .. n |-> Next(f, k)]
      OBVIOUS
    <2> DEFINE g == [k \in 0 .. n + 1 |-> Next(f, k)]
    <2>2. \A k \in 0 .. n : g[k] = f[k]
      BY <2>1
    <2>3. \A k \in 0 .. n + 1 : k # 0 => g[k - 1] = f[k - 1]
      <3> HIDE DEF g
      <3> QED BY <2>2
    <2>4. \A k \in 0 .. n + 1 : Next(g, k) = Next(f, k)
      <3> HIDE DEF g
      <3> QED BY <2>3
    <2>5. g = [k \in 0 .. n + 1 |-> Next(g, k)]
      <3> HIDE DEF Next
      <3> QED BY <2>4
    <2>6. Has(n + 1)
      <3> HIDE DEF g, Next
      <3> QED BY <2>5
    <2> HIDE DEF Has
    <2> QED BY <2>6
  <1>3. Len(line) \in Runs
    <2> HIDE DEF Has
    <2>1. Runs \in SUBSET Nat
      OBVIOUS
    <2>2. \A k \in Runs : k < Len(line) => k + 1 \in Runs
      BY <1>2
    <2> HIDE DEF Runs
    <2>3. \A k \in 0 .. Len(line) : k \in Runs
      BY <1>1, <2>1, <2>2, UpTo
    <2> QED BY <2>3
  <1>4. LineStates(s, line) = [k \in 0 .. Len(line) |-> Next(LineStates(s, line), k)]
    BY <1>3 DEF LineStates
  <1> QED BY <1>4

\* The first places of a run.
LEMMA LineSteps ==
  ASSUME NEW s, NEW line, Len(line) \in Nat
  PROVE  /\ LineStates(s, line)[0] = s
         /\ Len(line) >= 1 => LineStates(s, line)[1] = Step(s, line[1])
         /\ Len(line) >= 2 => LineStates(s, line)[2] = Step(LineStates(s, line)[1], line[2])
         /\ Len(line) >= 3 => LineStates(s, line)[3] = Step(LineStates(s, line)[2], line[3])
         /\ Len(line) >= 4 => LineStates(s, line)[4] = Step(LineStates(s, line)[3], line[4])
  <1>1. \A k \in 1 .. Len(line) :
          LineStates(s, line)[k] = Step(LineStates(s, line)[k - 1], line[k])
    BY LineRun
  <1>2. LineStates(s, line)[0] = s
    BY LineRun
  <1>3. 1 - 1 = 0 /\ 2 - 1 = 1 /\ 3 - 1 = 2 /\ 4 - 1 = 3
    OBVIOUS
  <1>4. /\ Len(line) >= 1 => 1 \in 1 .. Len(line)
        /\ Len(line) >= 2 => 2 \in 1 .. Len(line)
        /\ Len(line) >= 3 => 3 \in 1 .. Len(line)
        /\ Len(line) >= 4 => 4 \in 1 .. Len(line)
    OBVIOUS
  <1> QED BY <1>1, <1>2, <1>3, <1>4

LEMMA TextRun ==
  ASSUME NEW text, Len(text) \in Nat
  PROVE  /\ TextStates(text)[0] = Begin
         /\ \A i \in 1 .. Len(text) :
              TextStates(text)[i] = EndOfLine(TextStates(text)[i - 1], text[i])
  <1> DEFINE Next(f, i) == IF i = 0 THEN Begin ELSE EndOfLine(f[i - 1], text[i])
             Has(n) == \E f : f = [i \in 0 .. n |-> Next(f, i)]
             Runs == {n \in Nat : Has(n)}
  <1>1. 0 \in Runs
    <2>1. [i \in 0 .. 0 |-> Begin] = [i \in 0 .. 0 |-> Next([j \in 0 .. 0 |-> Begin], i)]
      OBVIOUS
    <2> QED BY <2>1
  <1>2. ASSUME NEW n \in Runs PROVE n + 1 \in Runs
    <2>1. PICK f : f = [i \in 0 .. n |-> Next(f, i)]
      OBVIOUS
    <2> DEFINE g == [i \in 0 .. n + 1 |-> Next(f, i)]
    <2>2. \A i \in 0 .. n : g[i] = f[i]
      BY <2>1
    <2>3. \A i \in 0 .. n + 1 : i # 0 => g[i - 1] = f[i - 1]
      <3> HIDE DEF g
      <3> QED BY <2>2
    <2>4. \A i \in 0 .. n + 1 : Next(g, i) = Next(f, i)
      <3> HIDE DEF g
      <3> QED BY <2>3
    <2>5. g = [i \in 0 .. n + 1 |-> Next(g, i)]
      <3> HIDE DEF Next
      <3> QED BY <2>4
    <2>6. Has(n + 1)
      <3> HIDE DEF g, Next
      <3> QED BY <2>5
    <2> HIDE DEF Has
    <2> QED BY <2>6
  <1>3. Len(text) \in Runs
    <2> HIDE DEF Has
    <2>1. Runs \in SUBSET Nat
      OBVIOUS
    <2>2. \A i \in Runs : i < Len(text) => i + 1 \in Runs
      BY <1>2
    <2> HIDE DEF Runs
    <2>3. \A i \in 0 .. Len(text) : i \in Runs
      BY <1>1, <2>1, <2>2, UpTo
    <2> QED BY <2>3
  <1>4. TextStates(text) = [i \in 0 .. Len(text) |-> Next(TextStates(text), i)]
    BY <1>3 DEF TextStates
  <1> QED BY <1>4

-----------------------------------------------------------------------------
(***************************************************************************)
(* Types.                                                                  *)
(***************************************************************************)

Parts == Words \cup {""}

Names == Seq(Parts) \X Parts

KeyMaps == UNION {[D -> Tokens] : D \in SUBSET Names}

Places == {"parse", "keys", "key", "value", "eol", "head", "path", "named",
           "null", "hang", "abort"}

ParseStates ==
  [at : Places, sec : Seq(Parts), key : Parts, tabs : SUBSET Seq(Parts), keys : KeyMaps,
   top : BOOLEAN, err : BOOLEAN]

LEMMA TokenTyped ==
  ASSUME NEW k \in Tokens
  PROVE  k.w \in Parts /\ k.n \in Int /\ k.t \in Symbols \cup {"word", "int"}
  <1> \A n : n \in {0} => n \in Int
    OBVIOUS
  <1>1. CASE k \in [t : {"word"}, w : Words, n : {0}]
    <2>1. k.t = "word" /\ k.w \in Words /\ k.n \in {0}
      BY <1>1
    <2>2. k.w \in Parts
      BY <2>1 DEF Parts
    <2>3. k.n \in Int
      BY <2>1
    <2>4. k.t \in Symbols \cup {"word", "int"}
      BY <2>1
    <2> QED BY <2>2, <2>3, <2>4
  <1>2. CASE k \in [t : {"int"}, w : {""}, n : Int]
    <2>1. k.t = "int" /\ k.w = "" /\ k.n \in Int
      BY <1>2
    <2>2. k.w \in Parts
      BY <2>1 DEF Parts
    <2>3. k.t \in Symbols \cup {"word", "int"}
      BY <2>1
    <2> QED BY <2>1, <2>2, <2>3
  <1>3. CASE k \in [t : Symbols, w : {""}, n : {0}]
    <2>1. k.t \in Symbols /\ k.w = "" /\ k.n \in {0}
      BY <1>3
    <2>2. k.w \in Parts
      BY <2>1 DEF Parts
    <2>3. k.n \in Int
      BY <2>1
    <2> QED BY <2>1, <2>2, <2>3
  <1> QED BY <1>1, <1>2, <1>3 DEF Tokens

LEMMA NewlineIsToken == Sym("nl") \in Tokens
  BY DEF Sym, Tok, Tokens, Symbols

LEMMA RootTyped == Root \in Seq(Parts) /\ <<>> \in Seq(Parts)
  BY DEF Root

\* One more key, or another value of one, is a map again.
LEMMA KeyAdded ==
  ASSUME NEW keys \in KeyMaps, NEW name \in Names, NEW k \in Tokens
  PROVE  Put(keys, name, k) \in KeyMaps
  <1>1. PICK D \in SUBSET Names : keys \in [D -> Tokens]
    BY DEF KeyMaps
  <1>2. Put(keys, name, k) \in [{name} \cup D -> Tokens]
    BY <1>1 DEF Put
  <1> QED BY <1>2 DEF KeyMaps

LEMMA BeginTyped == Begin \in ParseStates
  <1>1. [name \in {} |-> Sym("nl")] \in KeyMaps
    BY DEF KeyMaps
  <1>2. "" \in Parts
    BY DEF Parts
  <1> HIDE DEF KeyMaps
  <1> QED BY <1>1, <1>2, RootTyped DEF Begin, ParseStates, Places

\* A state of the parser that is elsewhere, or has an error.
LEMMA MovesTyped ==
  ASSUME NEW s \in ParseStates, NEW at \in Places
  PROVE  /\ [s EXCEPT !.at = at] \in ParseStates
         /\ Mistake(s, at) \in ParseStates
         /\ [Mistake(s, at) EXCEPT !.sec = Root] \in ParseStates
  BY RootTyped DEF ParseStates, Places, Mistake

LEMMA StepTyped ==
  ASSUME NEW s \in ParseStates, NEW k \in Tokens
  PROVE  Step(s, k) \in ParseStates
  <1>0. {"null", "hang", "abort", "parse", "keys", "named", "value"} \subseteq Places
    BY DEF Places
  <1>1. \A r \in ParseStates : AtParse(r, k) \in ParseStates
    <2> SUFFICES ASSUME NEW r \in ParseStates PROVE AtParse(r, k) \in ParseStates
      OBVIOUS
    <2>1. [r EXCEPT !.at = "head", !.sec = Root, !.top = FALSE] \in ParseStates
      BY RootTyped DEF ParseStates, Places
    <2>2. [r EXCEPT !.at = "key", !.sec = Root, !.key = k.w, !.top = TRUE] \in ParseStates
      BY TokenTyped, RootTyped DEF ParseStates, Places
    <2> QED BY <1>0, <2>1, <2>2, MovesTyped DEF AtParse
  <1>2. \A r \in ParseStates : Dropped(r, k) \in ParseStates
    BY <1>0, <1>1, MovesTyped DEF Dropped
  <1>3. \A r \in ParseStates : Failed(r, k) \in ParseStates
    BY <1>0, <1>2, MovesTyped DEF Failed
  <1>4. AtKeys(s, k) \in ParseStates
    <2>1. [s EXCEPT !.at = "key", !.key = k.w] \in ParseStates
      BY TokenTyped DEF ParseStates, Places
    <2> QED BY <1>1, <1>3, <2>1 DEF AtKeys
  <1>5. AtKey(s, k) \in ParseStates
    BY <1>0, <1>3, MovesTyped DEF AtKey
  <1>6. AtValue(s, k) \in ParseStates
    <2> DEFINE new == Put(s.keys, <<s.sec, s.key>>, k)
               tabs == s.tabs \ {Append(s.sec, s.key)}
    <2>1. new \in KeyMaps
      BY KeyAdded DEF ParseStates, Names
    <2>2. tabs \in SUBSET Seq(Parts)
      BY DEF ParseStates
    <2>3. [s EXCEPT !.at = "eol", !.keys = new, !.tabs = tabs] \in ParseStates
      <3> HIDE DEF new, tabs
      <3> QED BY <2>1, <2>2 DEF ParseStates, Places
    <2> QED BY <1>3, <2>3 DEF AtValue
  <1>7. AtEol(s, k) \in ParseStates
    BY <1>0, <1>3, MovesTyped DEF AtEol
  <1>8. AtHead(s, k) \in ParseStates
    <2>1. Below(s, k.w) \in Seq(Parts)
      BY TokenTyped DEF ParseStates, Below
    <2>2. [s EXCEPT !.at = "path", !.sec = Below(s, k.w)] \in ParseStates
      BY <2>1 DEF ParseStates, Places
    <2>3. [s EXCEPT !.at = "abort", !.err = TRUE] \in ParseStates
      BY DEF ParseStates, Places
    <2> QED BY <1>0, <2>2, <2>3, MovesTyped DEF AtHead
  <1>9. AtNamed(s, k) \in ParseStates
    <2> DEFINE tabs == s.tabs \cup {SubSeq(s.sec, 1, i) : i \in 1 .. Len(s.sec)}
    <2>1. s.sec \in Seq(Parts) /\ s.tabs \in SUBSET Seq(Parts)
      BY DEF ParseStates
    <2>2. \A i \in 1 .. Len(s.sec) : SubSeq(s.sec, 1, i) \in Seq(Parts)
      BY <2>1
    <2>3. tabs \in SUBSET Seq(Parts)
      BY <2>1, <2>2
    <2>4. [s EXCEPT !.at = "keys", !.tabs = tabs] \in ParseStates
      <3> HIDE DEF tabs
      <3> QED BY <2>3 DEF ParseStates, Places
    <2> QED BY <1>2, <2>4 DEF AtNamed
  <1>10. s.at \in Places
    BY DEF ParseStates
  <1> QED BY <1>1, <1>4, <1>5, <1>6, <1>7, <1>8, <1>9, <1>10 DEF Step, Places

LEMMA LineTyped ==
  ASSUME NEW s \in ParseStates, NEW line \in Seq(Tokens)
  PROVE  /\ \A k \in 0 .. Len(line) : LineStates(s, line)[k] \in ParseStates
         /\ EndOfLine(s, line) \in ParseStates
  <1> DEFINE Typed == {k \in Nat : k <= Len(line) => LineStates(s, line)[k] \in ParseStates}
  <1>1. 0 \in Typed
    BY LineRun
  <1>2. ASSUME NEW k \in Typed, k < Len(line) PROVE k + 1 \in Typed
    <2>1. k + 1 \in 1 .. Len(line) /\ line[k + 1] \in Tokens
      BY <1>2
    <2>2. LineStates(s, line)[k + 1] = Step(LineStates(s, line)[k], line[k + 1])
      BY <2>1, LineRun
    <2> QED BY <1>2, <2>1, <2>2, StepTyped
  <1>3. Typed \in SUBSET Nat
    OBVIOUS
  <1>4. \A k \in 0 .. Len(line) : k \in Typed
    <2> HIDE DEF Typed
    <2> QED BY <1>1, <1>2, <1>3, UpTo
  <1>5. \A k \in 0 .. Len(line) : LineStates(s, line)[k] \in ParseStates
    BY <1>4
  <1> QED BY <1>5, StepTyped, NewlineIsToken DEF EndOfLine

\* A line never ends in the middle of a pair or a header.
LEMMA LineEnds ==
  ASSUME NEW s \in ParseStates, NEW line \in Seq(Tokens)
  PROVE  EndOfLine(s, line).at \in {"parse", "keys", "null", "hang", "abort"}
  <1> DEFINE k == Sym("nl")
             Ends == {"parse", "keys", "null", "hang", "abort"}
  <1> SUFFICES ASSUME NEW r \in ParseStates
      PROVE  Step(r, k).at \in Ends
    BY LineTyped DEF EndOfLine
  <1>1. k.t = "nl"
    BY DEF Sym, Tok
  <1> HIDE DEF k
  <1>2. ~ BeginsKey(k) /\ ~ IsValue(k)
    BY <1>1 DEF BeginsKey, IsValue
  <1>3. \A q : AtParse(q, k) = q
    BY <1>1, <1>2 DEF AtParse
  <1>4. AtKeys(r, k) = r /\ AtEol(r, k) = [r EXCEPT !.at = "keys"]
    BY <1>1, <1>2 DEF AtKeys, AtEol
  <1>5. AtHead(r, k) = [r EXCEPT !.at = "abort", !.err = TRUE]
    BY <1>1, <1>2 DEF AtHead
  <1>6. ASSUME NEW at \in {"parse", "null"}
        PROVE  /\ Mistake(r, at).at \in Ends
               /\ [Mistake(r, at) EXCEPT !.sec = Root].at \in Ends
    BY <1>6 DEF Mistake, ParseStates
  <1>7. Dropped(r, k).at \in Ends
    BY <1>3, <1>6 DEF Dropped
  <1>8. Failed(r, k).at \in Ends
    BY <1>6, <1>7 DEF Failed
  <1>9. AtNamed(r, k).at = "keys"
    <2> DEFINE tabs == r.tabs \cup {SubSeq(r.sec, 1, i) : i \in 1 .. Len(r.sec)}
    <2>1. AtNamed(r, k) = [r EXCEPT !.at = "keys", !.tabs = tabs]
      BY <1>1 DEF AtNamed
    <2> HIDE DEF tabs
    <2> QED BY <2>1 DEF ParseStates
  <1>10. AtKey(r, k) = Failed(r, k) /\ AtValue(r, k) = Failed(r, k)
    BY <1>1, <1>2 DEF AtKey, AtValue
  <1>11. /\ [r EXCEPT !.at = "keys"].at = "keys"
         /\ [r EXCEPT !.at = "abort", !.err = TRUE].at = "abort"
    BY DEF ParseStates
  <1>12. r.at \in Places
    BY DEF ParseStates
  <1> QED BY <1>3, <1>4, <1>5, <1>8, <1>9, <1>10, <1>11, <1>12 DEF Step, Places

LEMMA TextTyped ==
  ASSUME NEW text \in Texts
  PROVE  /\ \A i \in 0 .. Len(text) : TextStates(text)[i] \in ParseStates
         /\ Parse(text) \in ParseStates
         /\ Parse(text).at \in {"parse", "keys", "null", "hang", "abort"}
  <1> DEFINE Typed == {i \in Nat : i <= Len(text) => TextStates(text)[i] \in ParseStates}
  <1> Len(text) \in Nat /\ \A i \in 1 .. Len(text) : text[i] \in Seq(Tokens)
    BY DEF Texts
  <1>1. 0 \in Typed
    BY TextRun, BeginTyped
  <1>2. ASSUME NEW i \in Typed, i < Len(text) PROVE i + 1 \in Typed
    <2>1. i + 1 \in 1 .. Len(text)
      BY <1>2
    <2>2. TextStates(text)[i + 1] = EndOfLine(TextStates(text)[i], text[i + 1])
      BY <2>1, TextRun
    <2> QED BY <1>2, <2>1, <2>2, LineTyped
  <1>3. Typed \in SUBSET Nat
    OBVIOUS
  <1>4. \A i \in 0 .. Len(text) : i \in Typed
    <2> HIDE DEF Typed
    <2> QED BY <1>1, <1>2, <1>3, UpTo
  <1>5. \A i \in 0 .. Len(text) : TextStates(text)[i] \in ParseStates
    BY <1>4
  <1>6. Parse(text).at \in {"parse", "keys", "null", "hang", "abort"}
    <2>1. CASE Len(text) = 0
      <3>1. Parse(text) = Begin
        BY <2>1, TextRun DEF Parse
      <3>2. Begin.at = "parse"
        BY DEF Begin
      <3> QED BY <3>1, <3>2
    <2>2. CASE Len(text) # 0
      <3> DEFINE i == Len(text)
      <3>1. i \in 1 .. Len(text) /\ i - 1 \in 0 .. Len(text)
        BY <2>2
      <3>2. TextStates(text)[i - 1] \in ParseStates /\ text[i] \in Seq(Tokens)
        BY <1>5, <3>1
      <3>3. Parse(text) = EndOfLine(TextStates(text)[i - 1], text[i])
        BY <3>1, TextRun DEF Parse
      <3> QED BY <3>2, <3>3, LineEnds
    <2> QED BY <2>1, <2>2
  <1> QED BY <1>5, <1>6 DEF Parse

-----------------------------------------------------------------------------
(***************************************************************************)
(* Legal texts, line by line.                                              *)
(***************************************************************************)

\* Where toml_parse and toml_parse_key_value stand before a line of a legal text.
Between(s) == s.at \in {"parse", "keys"} /\ (s.at = "parse" => s.sec = Root)

LEMMA BlankLine ==
  ASSUME NEW s \in ParseStates, Between(s), NEW line, IsBlank(line)
  PROVE  EndOfLine(s, line) = s
  <1>1. \A k \in {Sym("nl"), Sym("#")} : Step(s, k) = s
    <2> SUFFICES ASSUME NEW k, k.t \in {"nl", "#"} PROVE Step(s, k) = s
      <3>1. Sym("nl").t = "nl" /\ Sym("#").t = "#"
        BY DEF Sym, Tok
      <3> QED BY <3>1
    <2>1. AtParse(s, k) = s /\ AtKeys(s, k) = s
      BY DEF AtParse, AtKeys, BeginsKey
    <2> QED BY <2>1 DEF Between, Step
  <1>2. CASE line = <<>>
    <2>1. Len(line) = 0
      BY <1>2
    <2>2. LineStates(s, line)[Len(line)] = s
      BY <2>1, LineRun
    <2> QED BY <1>1, <2>2 DEF EndOfLine
  <1>3. CASE line = <<Sym("#")>>
    <2>1. Len(line) = 1 /\ line[1] = Sym("#")
      BY <1>3
    <2>2. LineStates(s, line)[1] = Step(LineStates(s, line)[0], line[1])
      BY <2>1, LineRun
    <2>3. LineStates(s, line)[Len(line)] = s
      BY <1>1, <2>1, <2>2, LineRun
    <2> QED BY <1>1, <2>3 DEF EndOfLine
  <1> QED BY <1>2, <1>3 DEF IsBlank

LEMMA HeaderLine ==
  ASSUME NEW s \in ParseStates, Between(s),
         NEW line \in Seq(Tokens), IsHeader(line),
         <<Root, line[2].w>> \notin DOMAIN s.keys
  PROVE  /\ EndOfLine(s, line).at = "keys"
         /\ EndOfLine(s, line).sec = <<line[2].w>>
         /\ EndOfLine(s, line).tabs = s.tabs \cup {<<line[2].w>>}
         /\ EndOfLine(s, line).keys = s.keys
  <1> DEFINE r(k) == LineStates(s, line)[k]
             name == <<line[2].w>>
  <1>1. Len(line) = 3 /\ line[1].t = "[" /\ line[2].t = "word" /\ line[3].t = "]"
    BY DEF IsHeader
  <1>2. /\ r(0) = s /\ r(1) = Step(r(0), line[1])
        /\ r(2) = Step(r(1), line[2]) /\ r(3) = Step(r(2), line[3])
        /\ EndOfLine(s, line) = Step(r(3), Sym("nl"))
    <2>1. EndOfLine(s, line) = Step(r(Len(line)), Sym("nl"))
      BY DEF EndOfLine
    <2>2. EndOfLine(s, line) = Step(r(3), Sym("nl"))
      BY <2>1, <1>1
    <2>3. /\ r(0) = s /\ r(1) = Step(r(0), line[1])
          /\ r(2) = Step(r(1), line[2]) /\ r(3) = Step(r(2), line[3])
      <3>1. Len(line) \in Nat /\ Len(line) >= 1 /\ Len(line) >= 2 /\ Len(line) >= 3
        BY <1>1
      <3> QED BY <3>1, LineSteps
    <2> QED BY <2>2, <2>3
  <1>3. r(0) \in ParseStates /\ r(1) \in ParseStates
        /\ r(2) \in ParseStates /\ r(3) \in ParseStates
    <2>1. /\ 0 \in 0 .. Len(line) /\ 1 \in 0 .. Len(line)
          /\ 2 \in 0 .. Len(line) /\ 3 \in 0 .. Len(line)
      BY <1>1
    <2>2. \A k \in 0 .. Len(line) : r(k) \in ParseStates
      BY LineTyped
    <2> QED BY <2>1, <2>2
  <1> HIDE DEF r
  <1>4. r(1).at = "head" /\ r(1).sec = Root /\ r(1).tabs = s.tabs /\ r(1).keys = s.keys
    <2>1. AtParse(s, line[1]) = [s EXCEPT !.at = "head", !.sec = Root, !.top = FALSE]
      BY <1>1 DEF AtParse, BeginsKey
    <2>2. AtKeys(s, line[1]) = AtParse(s, line[1])
      BY <1>1 DEF AtKeys, BeginsKey
    <2>3. r(1) = AtParse(s, line[1])
      BY <1>2, <2>2 DEF Between, Step
    <2> QED BY <2>1, <2>3 DEF ParseStates
  <1>5. r(2) = [r(1) EXCEPT !.at = "path", !.sec = name]
    <2>1. Below(r(1), line[2].w) = Append(<<>>, line[2].w)
      BY <1>4 DEF Below, Root
    <2>2. Append(<<>>, line[2].w) = name
      OBVIOUS
    <2>3. AtHead(r(1), line[2]) = [r(1) EXCEPT !.at = "path", !.sec = Below(r(1), line[2].w)]
      BY <1>1 DEF AtHead, BeginsKey
    <2>4. r(2) = AtHead(r(1), line[2])
      BY <1>2, <1>4 DEF Step
    <2> QED BY <2>1, <2>2, <2>3, <2>4
  <1> HIDE DEF name
  <1>6. r(2).at = "path" /\ r(2).sec = name /\ r(2).tabs = s.tabs /\ r(2).keys = s.keys
    BY <1>3, <1>4, <1>5 DEF ParseStates
  <1>7. r(3) = [r(2) EXCEPT !.at = "named"]
    <2>1. AtHead(r(2), line[3]) = [r(2) EXCEPT !.at = "named"]
      BY <1>1, <1>6 DEF AtHead, BeginsKey
    <2> QED BY <2>1, <1>2, <1>6 DEF Step
  <1>8. r(3).at = "named" /\ r(3).sec = name /\ r(3).tabs = s.tabs /\ r(3).keys = s.keys
    BY <1>3, <1>6, <1>7 DEF ParseStates
  <1> DEFINE new(t) == {SubSeq(t, 1, i) : i \in 1 .. Len(t)}
  <1>9. EndOfLine(s, line) = [r(3) EXCEPT !.at = "keys", !.tabs = @ \cup new(r(3).sec)]
    BY <1>2, <1>8 DEF Step, AtNamed, Sym, Tok
  <1>10. new(name) = {name}
    <2>1. Len(name) = 1 /\ name \in Seq({line[2].w})
      BY DEF name
    <2>2. SubSeq(name, 1, 1) = name
      BY <2>1, SubSeqFull
    <2>3. 1 .. Len(name) = {1}
      BY <2>1
    <2> QED BY <2>2, <2>3
  <1> HIDE DEF new
  <1>11. EndOfLine(s, line) = [r(3) EXCEPT !.at = "keys", !.tabs = s.tabs \cup {name}]
    BY <1>8, <1>9, <1>10
  <1> QED BY <1>3, <1>8, <1>11 DEF ParseStates, name

LEMMA PairLine ==
  ASSUME NEW s \in ParseStates, Between(s),
         NEW line \in Seq(Tokens), IsPair(line)
  PROVE  /\ EndOfLine(s, line).at = "keys"
         /\ EndOfLine(s, line).sec = s.sec
         /\ EndOfLine(s, line).tabs = s.tabs \ {Append(s.sec, line[1].w)}
         /\ EndOfLine(s, line).keys = Put(s.keys, <<s.sec, line[1].w>>, line[3])
  <1> DEFINE r(k) == LineStates(s, line)[k]
             new == Put(s.keys, <<s.sec, line[1].w>>, line[3])
             left == s.tabs \ {Append(s.sec, line[1].w)}
  <1>1. /\ Len(line) = 3 \/ (Len(line) = 4 /\ line[4].t = "#")
        /\ line[1].t = "word" /\ line[2].t = "=" /\ IsValue(line[3])
    BY DEF IsPair
  <1>2. /\ r(0) = s /\ r(1) = Step(r(0), line[1])
        /\ r(2) = Step(r(1), line[2]) /\ r(3) = Step(r(2), line[3])
    BY <1>1, LineSteps
  <1>3. r(0) \in ParseStates /\ r(1) \in ParseStates
        /\ r(2) \in ParseStates /\ r(3) \in ParseStates
    <2>1. /\ 0 \in 0 .. Len(line) /\ 1 \in 0 .. Len(line)
          /\ 2 \in 0 .. Len(line) /\ 3 \in 0 .. Len(line)
      BY <1>1
    <2>2. \A k \in 0 .. Len(line) : r(k) \in ParseStates
      BY LineTyped
    <2> QED BY <2>1, <2>2
  <1>4. Len(line) = 4 => r(4) = Step(r(3), line[4])
    BY <1>1, LineSteps
  <1>5. EndOfLine(s, line) = Step(r(Len(line)), Sym("nl"))
    BY DEF EndOfLine
  <1> HIDE DEF r, new, left
  <1>6. /\ r(1).at = "key" /\ r(1).key = line[1].w /\ r(1).sec = s.sec
        /\ r(1).tabs = s.tabs /\ r(1).keys = s.keys
    <2>1. AtParse(s, line[1])
            = [s EXCEPT !.at = "key", !.sec = Root, !.key = line[1].w, !.top = TRUE]
      BY <1>1 DEF AtParse, BeginsKey
    <2>2. AtKeys(s, line[1]) = [s EXCEPT !.at = "key", !.key = line[1].w]
      BY <1>1 DEF AtKeys, BeginsKey
    <2>3. \/ s.at = "parse" /\ s.sec = Root /\ r(1) = AtParse(s, line[1])
          \/ r(1) = AtKeys(s, line[1])
      BY <1>2 DEF Between, Step
    <2>4. CASE s.at = "parse" /\ s.sec = Root /\ r(1) = AtParse(s, line[1])
      <3>1. {"at", "sec", "key", "tabs", "keys", "top"} \subseteq DOMAIN s
        BY DEF ParseStates
      <3> HIDE DEF Root
      <3> QED BY <3>1, <2>1, <2>4
    <2>5. CASE r(1) = AtKeys(s, line[1])
      BY <2>2, <2>5 DEF ParseStates
    <2> QED BY <2>3, <2>4, <2>5
  <1>7. r(2) = [r(1) EXCEPT !.at = "value"]
    <2>1. AtKey(r(1), line[2]) = [r(1) EXCEPT !.at = "value"]
      BY <1>1 DEF AtKey
    <2> QED BY <2>1, <1>2, <1>6 DEF Step
  <1>8. /\ r(2).at = "value" /\ r(2).key = line[1].w /\ r(2).sec = s.sec
        /\ r(2).tabs = s.tabs /\ r(2).keys = s.keys
    BY <1>3, <1>6, <1>7 DEF ParseStates
  <1>9. r(3) = [r(2) EXCEPT !.at = "eol", !.keys = new, !.tabs = left]
    <2>1. AtValue(r(2), line[3])
            = [r(2) EXCEPT !.at = "eol", !.keys = Put(@, <<r(2).sec, r(2).key>>, line[3]),
                           !.tabs = @ \ {Append(r(2).sec, r(2).key)}]
      BY <1>1 DEF AtValue
    <2>2. r(3) = AtValue(r(2), line[3])
      BY <1>2, <1>8 DEF Step
    <2> QED BY <2>1, <2>2, <1>8 DEF new, left
  <1>10. r(3).at = "eol" /\ r(3).sec = s.sec /\ r(3).tabs = left /\ r(3).keys = new
    BY <1>3, <1>8, <1>9 DEF ParseStates
  <1>11. Len(line) = 4 => r(4) = r(3)
    BY <1>1, <1>4, <1>10 DEF Step, AtEol
  <1>12. r(Len(line)) = r(3)
    BY <1>1, <1>11
  <1>13. EndOfLine(s, line) = [r(3) EXCEPT !.at = "keys"]
    BY <1>5, <1>10, <1>12 DEF Step, AtEol, Sym, Tok
  <1> QED BY <1>3, <1>10, <1>13 DEF ParseStates, new, left

-----------------------------------------------------------------------------
(***************************************************************************)
(* What a legal text says, and what the parser has after each of its lines. *)
(***************************************************************************)

LEMMA KindsOfLines ==
  ASSUME NEW line
  PROVE  /\ ~ (IsBlank(line) /\ IsHeader(line))
         /\ ~ (IsBlank(line) /\ IsPair(line))
         /\ ~ (IsHeader(line) /\ IsPair(line))
  <1>1. IsBlank(line) => Len(line) \in {0, 1}
    <2>1. Len(<<>>) = 0 /\ Len(<<Sym("#")>>) = 1
      OBVIOUS
    <2> QED BY <2>1 DEF IsBlank
  <1>2. IsHeader(line) => Len(line) = 3 /\ line[1].t = "["
    BY DEF IsHeader
  <1>3. IsPair(line) => Len(line) \in {3, 4} /\ line[1].t = "word"
    BY DEF IsPair
  <1> QED BY <1>1, <1>2, <1>3

LEMMA SectionNext ==
  ASSUME NEW text, NEW i \in Nat
  PROVE  /\ SectionOf(text, 0) = Root
         /\ IsHeader(text[i + 1]) => SectionOf(text, i + 1) = <<text[i + 1][2].w>>
         /\ ~ IsHeader(text[i + 1]) => SectionOf(text, i + 1) = SectionOf(text, i)
  <1> DEFINE Heads(n) == {j \in 1 .. n : IsHeader(text[j])}
             Latest(H) == CHOOSE j \in H : \A h \in H : h <= j
             Of(H) == IF H = {} THEN Root ELSE <<text[Latest(H)][2].w>>
  <1>1. \A n : SectionOf(text, n) = Of(Heads(n))
    BY DEF SectionOf
  <1>2. Heads(0) = {}
    OBVIOUS
  <1>3. ~ IsHeader(text[i + 1]) => Heads(i + 1) = Heads(i)
    OBVIOUS
  <1>4. ASSUME IsHeader(text[i + 1]) PROVE Latest(Heads(i + 1)) = i + 1
    <2>1. i + 1 \in Heads(i + 1) /\ \A h \in Heads(i + 1) : h <= i + 1 /\ h \in Nat
      BY <1>4
    <2> DEFINE H == Heads(i + 1)
    <2> HIDE DEF H
    <2>2. i + 1 \in H /\ \A h \in H : h <= i + 1 /\ h \in Nat
      BY <2>1 DEF H
    <2>3. Latest(H) \in H /\ \A h \in H : h <= Latest(H)
      BY <2>2
    <2>4. Latest(H) = i + 1
      <3> HIDE DEF Latest
      <3> QED BY <2>2, <2>3
    <2> QED BY <2>4 DEF H
  <1>5. IsHeader(text[i + 1]) => i + 1 \in Heads(i + 1)
    OBVIOUS
  <1>6. IsHeader(text[i + 1]) => Of(Heads(i + 1)) = <<text[i + 1][2].w>>
    <2> HIDE DEF Heads, Latest
    <2> QED BY <1>4, <1>5
  <1> HIDE DEF Heads, Of
  <1>7. Of({}) = Root
    BY DEF Of
  <1> QED BY <1>1, <1>2, <1>3, <1>6, <1>7

\* The pairs among the first i lines.
PairsTo(text, i) == {j \in 1 .. i : IsPair(text[j])}

\* Where the automaton is after i lines of a legal text.
Read(s, text, i) ==
  /\ Between(s)
  /\ s.sec = SectionOf(text, i)
  /\ s.tabs = {<<text[j][2].w>> : j \in {h \in 1 .. i : IsHeader(text[h])}}
  /\ DOMAIN s.keys = {NameOf(text, j) : j \in PairsTo(text, i)}
  /\ \A j \in PairsTo(text, i) : s.keys[NameOf(text, j)] = text[j][3]

LEMMA NothingRead == ASSUME NEW text PROVE Read(Begin, text, 0)
  <1>1. PairsTo(text, 0) = {} /\ {h \in 1 .. 0 : IsHeader(text[h])} = {}
    BY DEF PairsTo
  <1>2. SectionOf(text, 0) = Root
    BY SectionNext
  <1> QED BY <1>1, <1>2 DEF Read, Begin, Between

\* A legal text gives no name twice.
LEMMA NamedOnce ==
  ASSUME NEW text, IsLegal(text), NEW i \in DOMAIN text, NEW j \in DOMAIN text, i # j,
         IsPair(text[i]) \/ IsHeader(text[i]), IsPair(text[j]) \/ IsHeader(text[j])
  PROVE  NameOf(text, i) # NameOf(text, j)
  <1>1. ~ IsBlank(text[i]) /\ ~ IsBlank(text[j])
    BY KindsOfLines
  <1> QED BY <1>1 DEF IsLegal

\* So no pair takes the place of a table.
LEMMA NoTableLost ==
  ASSUME NEW text, IsLegal(text), NEW i \in DOMAIN text, IsPair(text[i]),
         NEW j \in DOMAIN text, IsHeader(text[j])
  PROVE  Append(SectionOf(text, i), text[i][1].w) # <<text[j][2].w>>
  <1> DEFINE sec == SectionOf(text, i)
             key == text[i][1].w
             tab == text[j][2].w
  <1>1. sec = <<>> \/ \E w : sec = <<w>>
    BY DEF SectionOf, Root
  <1>2. NameOf(text, i) = <<sec, key>> /\ NameOf(text, j) = <<<<>>, tab>>
    BY KindsOfLines DEF NameOf, Root
  <1>3. NameOf(text, i) # NameOf(text, j)
    BY NamedOnce, KindsOfLines
  <1> HIDE DEF sec, key, tab
  <1>4. CASE sec = <<>>
    <2>1. key # tab
      BY <1>2, <1>3, <1>4
    <2>2. Append(<<>>, key) = <<key>> /\ <<key>>[1] = key /\ <<tab>>[1] = tab
      OBVIOUS
    <2>3. Append(sec, key) # <<tab>>
      BY <1>4, <2>1, <2>2
    <2> QED BY <2>3 DEF sec, key, tab
  <1>5. CASE \E w : sec = <<w>>
    <2>1. PICK w : sec = <<w>>
      BY <1>5
    <2>2. <<w>> \in Seq({w, key}) /\ Len(<<w>>) = 1 /\ Len(<<tab>>) = 1
      OBVIOUS
    <2>3. Len(Append(<<w>>, key)) = 2
      BY <2>2, AppendProperties
    <2>4. Append(sec, key) # <<tab>>
      BY <2>1, <2>2, <2>3
    <2> QED BY <2>4 DEF sec, key, tab
  <1> QED BY <1>1, <1>4, <1>5

LEMMA LineRead ==
  ASSUME NEW text \in Texts, IsLegal(text), NEW i \in Nat, i < Len(text),
         NEW s \in ParseStates, Read(s, text, i)
  PROVE  Read(EndOfLine(s, text[i + 1]), text, i + 1)
  <1> DEFINE line == text[i + 1]
             r == EndOfLine(s, line)
             Heads(n) == {h \in 1 .. n : IsHeader(text[h])}
             Tabs(n) == {<<text[j][2].w>> : j \in Heads(n)}
  <1>1. i + 1 \in DOMAIN text /\ line \in Seq(Tokens)
    BY DEF Texts
  <1>2. IsBlank(line) \/ IsHeader(line) \/ IsPair(line)
    BY <1>1 DEF IsLegal
  <1>3. Between(s)
    BY DEF Read
  <1>4. /\ IsPair(line) => PairsTo(text, i + 1) = PairsTo(text, i) \cup {i + 1}
        /\ ~ IsPair(line) => PairsTo(text, i + 1) = PairsTo(text, i)
    BY DEF PairsTo
  <1>5. /\ IsHeader(line) => Heads(i + 1) = Heads(i) \cup {i + 1}
        /\ ~ IsHeader(line) => Heads(i + 1) = Heads(i)
    OBVIOUS
  <1>6. /\ IsHeader(line) => Tabs(i + 1) = Tabs(i) \cup {<<line[2].w>>}
        /\ ~ IsHeader(line) => Tabs(i + 1) = Tabs(i)
    <2> HIDE DEF Heads
    <2> QED BY <1>5
  <1>7. /\ \A j \in PairsTo(text, i) : j \in DOMAIN text /\ j # i + 1 /\ IsPair(text[j])
        /\ \A j \in Heads(i) : j \in DOMAIN text /\ IsHeader(text[j])
    BY DEF PairsTo, Texts
  <1> HIDE DEF r, line, Tabs, Heads
  <1>8. CASE IsBlank(line)
    <2>1. r = s
      BY <1>3, <1>8, BlankLine DEF r
    <2>2. ~ IsPair(line) /\ ~ IsHeader(line)
      BY <1>8, KindsOfLines
    <2>3. SectionOf(text, i + 1) = SectionOf(text, i)
      BY <2>2, SectionNext DEF line
    <2> QED BY <2>1, <2>2, <2>3, <1>4, <1>6 DEF Read, r, line, Tabs, Heads
  <1>9. CASE IsHeader(line)
    <2>1. <<Root, line[2].w>> \notin DOMAIN s.keys
      <3>1. NameOf(text, i + 1) = <<Root, line[2].w>>
        BY <1>9 DEF NameOf, line
      <3>2. \A j \in PairsTo(text, i) : NameOf(text, j) # NameOf(text, i + 1)
        BY <1>1, <1>7, <1>9, NamedOnce DEF line
      <3> QED BY <3>1, <3>2 DEF Read
    <2>2. /\ r.at = "keys" /\ r.sec = <<line[2].w>>
          /\ r.tabs = s.tabs \cup {<<line[2].w>>} /\ r.keys = s.keys
      BY <1>1, <1>3, <1>9, <2>1, HeaderLine DEF r
    <2>3. ~ IsPair(line)
      BY <1>9, KindsOfLines
    <2>4. SectionOf(text, i + 1) = <<line[2].w>>
      BY <1>9, SectionNext DEF line
    <2>5. Tabs(i + 1) = r.tabs
      BY <1>6, <1>9, <2>2 DEF Read, Tabs, Heads
    <2> QED BY <2>2, <2>3, <2>4, <2>5, <1>4 DEF Read, Between, r, line, Tabs, Heads
  <1>10. CASE IsPair(line)
    <2> DEFINE name == <<s.sec, line[1].w>>
    <2>1. ~ IsHeader(line)
      BY <1>10, KindsOfLines
    <2>2. SectionOf(text, i + 1) = s.sec
      BY <2>1, SectionNext DEF line, Read
    <2>3. name = NameOf(text, i + 1)
      BY <2>1, <2>2 DEF NameOf, line
    <2>4. /\ r.at = "keys" /\ r.sec = s.sec
          /\ r.tabs = s.tabs \ {Append(s.sec, line[1].w)}
          /\ r.keys = Put(s.keys, name, line[3])
      BY <1>1, <1>3, <1>10, PairLine DEF r
    <2>5. r.tabs = s.tabs
      <3>1. \A j \in Heads(i) : Append(s.sec, line[1].w) # <<text[j][2].w>>
        BY <1>1, <1>7, <1>10, <2>2, NoTableLost DEF line
      <3>2. s.tabs = Tabs(i)
        BY DEF Read, Tabs, Heads
      <3> QED BY <3>1, <3>2, <2>4 DEF Tabs
    <2>6. PairsTo(text, i + 1) = PairsTo(text, i) \cup {i + 1}
      BY <1>4, <1>10
    <2> HIDE DEF name
    <2>7. /\ DOMAIN r.keys = DOMAIN s.keys \cup {name}
          /\ \A m \in DOMAIN r.keys :
               r.keys[m] = IF m = name THEN line[3] ELSE s.keys[m]
      BY <2>4 DEF Put
    <2>8. DOMAIN r.keys = {NameOf(text, j) : j \in PairsTo(text, i + 1)}
      BY <2>3, <2>6, <2>7 DEF Read
    <2>9. ASSUME NEW j \in PairsTo(text, i + 1)
          PROVE  r.keys[NameOf(text, j)] = text[j][3]
      <3>1. CASE j = i + 1
        BY <3>1, <2>3, <2>7 DEF line
      <3>2. CASE j # i + 1
        <4>1. j \in PairsTo(text, i)
          BY <3>2, <2>6
        <4>2. NameOf(text, j) # name
          BY <4>1, <1>1, <1>7, <1>10, <2>3, NamedOnce DEF line
        <4>3. s.keys[NameOf(text, j)] = text[j][3]
          BY <4>1 DEF Read
        <4> QED BY <4>2, <4>3, <2>7, <2>8
      <3> QED BY <3>1, <3>2
    <2>10. Tabs(i + 1) = r.tabs
      BY <1>6, <2>1, <2>5 DEF Read, Tabs, Heads
    <2> QED BY <2>2, <2>4, <2>8, <2>9, <2>10 DEF Read, Between, r, line, Tabs, Heads
  <1> QED BY <1>2, <1>8, <1>9, <1>10

LEMMA LegalTextRead ==
  ASSUME NEW text \in Texts, IsLegal(text)
  PROVE  Read(Parse(text), text, Len(text))
  <1> DEFINE Done == {i \in Nat : i <= Len(text) => Read(TextStates(text)[i], text, i)}
  <1> Len(text) \in Nat
    BY DEF Texts
  <1>1. 0 \in Done
    BY TextRun, NothingRead
  <1>2. ASSUME NEW i \in Done, i < Len(text) PROVE i + 1 \in Done
    <2>1. i + 1 \in 1 .. Len(text) /\ i \in 0 .. Len(text)
      BY <1>2
    <2>2. TextStates(text)[i + 1] = EndOfLine(TextStates(text)[i], text[i + 1])
      BY <2>1, TextRun
    <2>3. TextStates(text)[i] \in ParseStates
      BY <2>1, TextTyped
    <2> QED BY <1>2, <2>2, <2>3, LineRead
  <1>3. Done \in SUBSET Nat
    OBVIOUS
  <1>4. \A i \in 0 .. Len(text) : i \in Done
    <2> HIDE DEF Done
    <2> QED BY <1>1, <1>2, <1>3, UpTo
  <1> QED BY <1>4 DEF Parse

\* A text that gives no name twice is never refused, stopped at or read for ever,
\* and the parser makes of it the tables its headers name and the keys and values
\* of its pairs (toml_parse, toml_parse_table, toml_walk_table_path,
\* toml_parse_key_value).
THEOREM LegalTextsLoad ==
  ASSUME NEW text \in Texts, IsLegal(text)
  PROVE  /\ Parse(text).at \in {"parse", "keys"}
         /\ Parse(text).tabs = Sections(text)
         /\ Parse(text).keys = Meaning(text)
  <1> DEFINE s == Parse(text)
             pairs == {i \in DOMAIN text : IsPair(text[i])}
             Of(name) == CHOOSE i \in pairs : NameOf(text, i) = name
             says == [name \in {NameOf(text, i) : i \in pairs} |-> text[Of(name)][3]]
  <1>1. Read(s, text, Len(text)) /\ s \in ParseStates
    BY LegalTextRead, TextTyped
  <1>2. Meaning(text) = says
    BY DEF Meaning
  <1>3. pairs = PairsTo(text, Len(text)) /\ DOMAIN text = 1 .. Len(text)
    BY DEF PairsTo, Texts
  <1>4. s.tabs = Sections(text)
    <2>1. s.tabs = {<<text[j][2].w>> : j \in {h \in DOMAIN text : IsHeader(text[h])}}
      BY <1>1, <1>3 DEF Read
    <2> QED BY <2>1 DEF Sections
  <1> HIDE DEF s, pairs
  <1>5. s.keys = [name \in DOMAIN s.keys |-> s.keys[name]]
    BY <1>1 DEF ParseStates, KeyMaps
  <1>6. DOMAIN s.keys = {NameOf(text, i) : i \in pairs}
    BY <1>1, <1>3 DEF Read
  <1>7. ASSUME NEW name \in DOMAIN s.keys PROVE s.keys[name] = text[Of(name)][3]
    <2>1. Of(name) \in pairs /\ NameOf(text, Of(name)) = name
      BY <1>6, <1>7
    <2> HIDE DEF Of
    <2> QED BY <1>1, <1>3, <2>1 DEF Read
  <1>8. s.keys = says
    <2> HIDE DEF Of
    <2> QED BY <1>5, <1>6, <1>7
  <1>9. s.at \in {"parse", "keys"}
    BY <1>1 DEF Read, Between
  <1> QED BY <1>2, <1>4, <1>8, <1>9 DEF s
=============================================================================
