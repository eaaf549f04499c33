------------------------------- MODULE GqlLex -------------------------------
(***************************************************************************)
(* The lexer of the query language, one token a step.  A text is a         *)
(* sequence of characters, strings of length one ("nl", "tab", "quote",    *)
(* "back" and "bslash" are a line end, a tab, a quote, a back quote and a  *)
(* backslash); bytes and characters are the same here.  A token is         *)
(* [t, s, from, to]: its kind (a keyword or a sign itself), what it        *)
(* carries (the characters of a name, of a string or of a number) and the  *)
(* characters of the text it stands for.  Lines and columns are left out.  *)
(***************************************************************************)
EXTENDS GqlExpr

CONSTANTS Texts,             \* the texts that are lexed
          WrittenTokens      \* the token sequences that are written and lexed

VARIABLES text, pos, lexed, lexing,     \* lexing: "running", "done", "failed"
          meant      \* the tokens the text was written from, if any

lexVars == <<text, pos, lexed, lexing, meant>>

Digits == {"0", "1", "2", "9"}
Upper == [c \in {"N", "O", "T", "E", "R"} |->
            CASE c = "N" -> "n" [] c = "O" -> "o" [] c = "T" -> "t" [] c = "E" -> "e" [] c = "R" -> "r"]
Letters == DOMAIN Upper \cup {"n", "o", "t", "e", "r", "i", "s", "a", "b", "_"}
Blank == {" ", "tab", "nl"}
Quotes == {"quote", "back"}        \* a double quote is the same as a back quote

Keywords ==
  {"match", "return", "where", "order", "by", "limit", "and", "or", "not", "is", "null", "asc", "desc", "as",
   "distinct", "count", "sum", "avg", "min", "max", "collect", "create", "set", "delete", "detach", "merge",
   "unwind", "group", "with", "skip", "true", "false"}

\* The character k places on; the end of the text is "".
At1(p) == IF p <= Len(text) THEN text[p] ELSE ""
\* The first position from p on that does not hold a character of S.
After(p, S) == Min({k \in p .. Len(text) + 1 : At1(k) \notin S})
Cut(from, to) == SubSeq(text, from, to - 1)

NoToken == [t |-> "error"]
Tok(t, s, from, to) == [t |-> t, s |-> s, from |-> from, to |-> to]

\* skip_whitespace, with comments to the end of the line.
RECURSIVE skip_whitespace(_)
skip_whitespace(p) ==
  CASE At1(p) \in Blank -> skip_whitespace(After(p, Blank))
    [] At1(p) = "/" /\ At1(p + 1) = "/" ->
         skip_whitespace(Min({k \in p .. Len(text) + 1 : At1(k) \in {"nl", ""}}))
    [] OTHER -> p

\* Mutant: an arrow to the left is two signs.
lex_less_than_NoArrow(p) ==
  IF At1(p + 1) \in {"=", ">"} THEN Tok("<" \o At1(p + 1), <<>>, p, p + 2) ELSE Tok("<", <<>>, p, p + 1)

lex_dot(p) == IF At1(p + 1) = "." THEN Tok("..", <<>>, p, p + 2) ELSE Tok(".", <<>>, p, p + 1)
lex_minus(p) == IF At1(p + 1) = ">" THEN Tok("->", <<>>, p, p + 2) ELSE Tok("-", <<>>, p, p + 1)
lex_plus(p) == IF At1(p + 1) = "=" THEN Tok("+=", <<>>, p, p + 2) ELSE Tok("+", <<>>, p, p + 1)

lex_less_than(p) ==
  IF At1(p + 1) \in {"=", ">", "-"} THEN Tok("<" \o At1(p + 1), <<>>, p, p + 2) ELSE Tok("<", <<>>, p, p + 1)

lex_greater_than(p) == IF At1(p + 1) = "=" THEN Tok(">=", <<>>, p, p + 2) ELSE Tok(">", <<>>, p, p + 1)

\* What a backslash and the character after it stand for.
Unescaped(c, quote) ==
  CASE c \in {quote, "bslash"} -> <<c>> [] c = "n" -> <<"nl">> [] c = "t" -> <<"tab">> [] OTHER -> <<"bslash", c>>

\* lex_string: a quoted string, or a name between back quotes, which is not empty.
lex_string(p) ==
  LET quote == At1(p)
      RECURSIVE Body(_, _)
      Body(q, acc) ==
        CASE At1(q) = "" -> NoToken
          [] At1(q) = "bslash" -> IF At1(q + 1) = "" THEN NoToken
                              ELSE Body(q + 2, acc \o Unescaped(At1(q + 1), quote))
          [] At1(q) = quote -> Tok(IF quote = "quote" THEN "str" ELSE "ident", acc, p, q + 1)
          [] OTHER -> Body(q + 1, Append(acc, At1(q)))
      token == Body(p + 1, <<>>)
  IN  IF token # NoToken /\ quote # "quote" /\ token.s = <<>> THEN NoToken ELSE token

DigitValue(c) == CASE c = "0" -> 0 [] c = "1" -> 1 [] c = "2" -> 2 [] c = "9" -> 9
ValueOf(digits) == FoldLeft(LAMBDA acc, c : acc * 10 + DigitValue(c), 0, digits)

\* lex_number: a fraction needs a digit after its point, so 1..2 is a range; an
\* exponent needs digits to be a number.
lex_number(p) ==
  LET whole == After(p, Digits)
      is_float == At1(whole) = "." /\ At1(whole + 1) \in Digits
      fraction == IF is_float THEN After(whole + 1, Digits) ELSE whole
      has_exp == At1(fraction) \in {"e", "E"}
      sign == IF At1(fraction + 1) \in {"+", "-"} THEN fraction + 2 ELSE fraction + 1
      end == IF has_exp THEN After(sign, Digits) ELSE fraction
  IN  CASE has_exp /\ end = sign -> NoToken
        [] (has_exp /\ end # sign) \/ (~has_exp /\ is_float) -> Tok("float", Cut(p, end), p, end)
        [] OTHER -> IF ValueOf(Cut(p, end)) > IntMax THEN NoToken ELSE Tok("int", Cut(p, end), p, end)

\* lex_ident_or_keyword: keywords in any case, names as they are written.
Lower(c) == IF c \in DOMAIN Upper THEN Upper[c] ELSE c
keyword_from_str(s) == FoldLeft(LAMBDA acc, c : acc \o Lower(c), "", s)
lex_ident_or_keyword(p) ==
  LET end == After(p, Letters \cup Digits)
      word == keyword_from_str(Cut(p, end))
  IN  IF word \in Keywords THEN Tok(word, <<>>, p, end) ELSE Tok("ident", Cut(p, end), p, end)

\* The token that starts at p, in tokenize.
TokenAt(p) ==
  CASE At1(p) \in {"(", ")", "[", "]", "{", "}", ":", ",", "*", "|", "$", "/", "="} -> Tok(At1(p), <<>>, p, p + 1)
    [] At1(p) = "+" -> lex_plus(p)
    [] At1(p) = "." -> lex_dot(p)
    [] At1(p) = "-" -> lex_minus(p)
    [] At1(p) = "<" -> lex_less_than(p)
    [] At1(p) = ">" -> lex_greater_than(p)
    [] At1(p) \in Quotes -> lex_string(p)
    [] At1(p) \in Digits -> lex_number(p)
    [] At1(p) \in Letters -> lex_ident_or_keyword(p)
    [] OTHER -> NoToken

----------------------------------------------------------------------------
(* How a client writes a token; tokens are written with a space between.   *)

Signs == {"(", ")", "[", "]", "{", "}", ":", ",", "*", "|", "$", "/", "=", "+", "+=", ".", "..", "-", "->", "<",
          "<=", "<>", "<-", ">", ">="}
Chars(sign) ==
  CASE sign = "+=" -> <<"+", "=">> [] sign = ".." -> <<".", ".">> [] sign = "->" -> <<"-", ">">>
    [] sign = "<=" -> <<"<", "=">> [] sign = "<>" -> <<"<", ">">> [] sign = "<-" -> <<"<", "-">>
    [] sign = ">=" -> <<">", "=">> [] OTHER -> <<sign>>
Escaped(s, quote) ==
  FlattenSeq([k \in 1..Len(s) |->
    CASE s[k] \in {quote, "bslash"} -> <<"bslash", s[k]>> [] s[k] = "nl" -> <<"bslash", "n">> [] OTHER -> <<s[k]>>])
WriteToken(tk) ==
  CASE tk.t = "str" -> <<"quote">> \o Escaped(tk.s, "quote") \o <<"quote">>
    [] tk.t = "ident" -> <<"back">> \o Escaped(tk.s, "back") \o <<"back">>
    [] tk.t \in {"int", "float"} -> tk.s
    [] tk.t = "not" -> <<"N", "o", "t">>
    [] OTHER -> Chars(tk.t)
WriteTokens(ts) == FlattenSeq([k \in 1..Len(ts) |-> IF k = 1 THEN WriteToken(ts[k]) ELSE <<" ">> \o WriteToken(ts[k])])

----------------------------------------------------------------------------
Bare(ts) == [k \in 1..Len(ts) |-> <<ts[k].t, ts[k].s>>]

InitLex ==
  /\ \/ text \in Texts /\ meant = <<>>
     \/ meant \in WrittenTokens /\ text = WriteTokens(meant)
  /\ pos = 1 /\ lexed = <<>> /\ lexing = "running"

\* One turn of the loop of tokenize.
LexToken ==
  LET p == skip_whitespace(pos)
      token == TokenAt(p)
  IN  /\ lexing = "running"
      /\ CASE p > Len(text) -> lexing' = "done" /\ pos' = p /\ UNCHANGED lexed
           [] p <= Len(text) /\ token = NoToken -> lexing' = "failed" /\ UNCHANGED <<pos, lexed>>
           [] OTHER -> pos' = token.to /\ lexed' = Append(lexed, token) /\ UNCHANGED lexing
      /\ UNCHANGED <<text, meant>>

\* Tokens written with spaces between them are read back one by one, whatever
\* quotes, backslashes and line ends a string or a name holds (lex_string).
LexReadsBack ==
  (meant # <<>> /\ lexing # "running") => lexing = "done" /\ Bare(lexed) = Bare(meant)

\* Nothing of a text is skipped but blanks and comments, and a token is never cut
\* short: no sign that is longer, no letter and no digit of a word or a number
\* could still have been taken (lex_less_than, lex_number, lex_ident_or_keyword).
LongestTokens ==
  /\ \A k \in 1..Len(lexed) :
       LET tk == lexed[k]
           before == IF k = 1 THEN 1 ELSE lexed[k - 1].to
       IN  /\ tk.from < tk.to /\ tk.from = skip_whitespace(before)
           /\ tk.t \in Signs => \A s \in Signs : IsPrefix(Chars(s), Cut(tk.from, Len(text) + 1)) =>
                                  Len(Chars(s)) <= tk.to - tk.from
           /\ tk.t \in {"int", "float"} => At1(tk.to) \notin Digits
  /\ lexing = "done" => skip_whitespace(IF lexed = <<>> THEN 1 ELSE Last(lexed).to) > Len(text)

\* A text is split into exactly its tokens: each as long as it can be, none
\* skipped, and what strings and names hold unchanged.
TokensAreExact ==
  LexReadsBack /\ LongestTokens

=============================================================================
