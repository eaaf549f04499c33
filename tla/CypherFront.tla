---------------------------- MODULE CypherFront ----------------------------
(***************************************************************************)
(* The rewriting of Cypher into the query language (preprocessor.rs):      *)
(* passes over the text, one after another, each of which finds the string *)
(* literals again so as to leave them alone.  Whether the passes run at    *)
(* all is decided by a search of its own, and strict mode refuses what     *)
(* they would rewrite by a third.                                          *)
(*                                                                         *)
(* A text is a sequence of atoms: a keyword or another run of letters is   *)
(* one atom, every other character is one.  Two runs of letters side by    *)
(* side are one word.  Texts are in upper case; an atom stands for the     *)
(* bytes it takes, so that positions agree between a text and its mask.    *)
(***************************************************************************)
EXTENDS Naturals, SequencesExt, FiniteSetsExt

CONSTANTS Themes,         \* sets of atoms a text is made of
          MaxAtoms        \* bound: how long a text grows

VARIABLES script, theme     \* the text, and the atoms it is made of
cypherVars == <<script, theme>>

InitCypher == script = <<>> /\ theme = {}
IdleCypher == script = <<>> /\ theme = {"idle"}

Apostrophe == "'"
DoubleQuote == "dq"
Backtick == "bt"
Backslash == "bs"
NonLetters == {" ", Apostrophe, DoubleQuote, Backtick, Backslash, "/", "*", ",", ".", ";", "_", "=", "[", "("}
Alphanumeric(t, k) == k \in DOMAIN t /\ t[k] \notin NonLetters
Spaces(n) == [k \in 1..n |-> " "]
FirstIn(S) == IF S = {} THEN 0 ELSE Min(S)

\* scan_string_literal: the position after the literal that starts here.
ScanStringLiteral(t, start) ==
  LET quote == t[start]
      scan[i \in (start + 1) .. (Len(t) + 1)] ==
        CASE i > Len(t) -> [end |-> i, closed |-> FALSE]
          [] t[i] = Backslash /\ i < Len(t) -> scan[i + 2]
          [] t[i] = quote -> IF i < Len(t) /\ t[i + 1] = quote THEN scan[i + 2]
                             ELSE [end |-> i + 1, closed |-> TRUE]
          [] OTHER -> scan[i + 1]
  IN  scan[start + 1]

OpensLiteral(t, k) == t[k] \in {Apostrophe, DoubleQuote}

\* The literals of a text: where each opens and its last position.
Literals(t) ==
  LET from[i \in 1 .. (Len(t) + 1)] ==
        IF i > Len(t) THEN <<>>
        ELSE IF ~OpensLiteral(t, i) THEN from[i + 1]
        ELSE LET s == ScanStringLiteral(t, i)
             IN  <<[from |-> i, to |-> s.end - 1, closed |-> s.closed]>> \o from[s.end]
  IN  from[1]

\* blank_string_literals: the same positions, what is between quotes as spaces.
BlankStringLiterals(t) ==
  LET inside == UNION {(l.from + 1) .. (IF l.closed THEN l.to - 1 ELSE l.to) : l \in ToSet(Literals(t))}
  IN  [k \in DOMAIN t |-> IF k \in inside THEN " " ELSE t[k]]

----------------------------------------------------------------------------
(* Searches in a masked text: a position, or 0.                            *)

\* find_word, in the text from a position on.  What is before that position
\* is not looked at.
FindWordFrom(t, word, from) ==
  FirstIn({k \in from .. Len(t) :
             t[k] = word /\ (k = from \/ ~Alphanumeric(t, k - 1)) /\ ~Alphanumeric(t, k + 1)})
FindWord(t, word) == FindWordFrom(t, word, 1)

\* The first position from k on that is not a space.
PastSpaces(t, k) == FirstIn({j \in k .. (Len(t) + 1) : j > Len(t) \/ t[j] # " "})

\* find_cypher_operator
FindOperator(t, first, second) ==
  FirstIn({k \in DOMAIN t :
             LET gap == PastSpaces(t, k + 1)
             IN  /\ t[k] = first /\ ~Alphanumeric(t, k - 1)
                 /\ k < Len(t) /\ ~Alphanumeric(t, k + 1)
                 /\ gap <= Len(t) /\ t[gap] = second /\ ~Alphanumeric(t, gap + 1)})

\* is_standalone_with: what is before is looked at letter by letter, so that a
\* word that only ends in STARTS counts.
IsStandaloneWith(t, k) ==
  LET last == IF \E j \in 1 .. (k - 1) : t[j] # " " THEN Max({j \in 1 .. (k - 1) : t[j] # " "}) ELSE 0
  IN  last = 0 \/ t[last] \notin {"STARTS", "ENDS"}

\* find_in_list_operator
FindInList(t) ==
  FirstIn({k \in DOMAIN t : /\ t[k] = "IN" /\ ~Alphanumeric(t, k - 1) /\ ~Alphanumeric(t, k + 1)
                            /\ PastSpaces(t, k + 1) <= Len(t) /\ t[PastSpaces(t, k + 1)] = "["})

\* find_function_call
FindFunctionCall(t, name) ==
  FirstIn({k \in DOMAIN t : /\ t[k] = name /\ k < Len(t) /\ t[k + 1] = "("
                            /\ ~Alphanumeric(t, k - 1)})

HasPair(t, a, b) == \E k \in 1 .. (Len(t) - 1) : t[k] = a /\ t[k + 1] = b

----------------------------------------------------------------------------
(* The passes.                                                             *)

Malformed == [ok |-> FALSE]
Rewritten(t) == [ok |-> TRUE, text |-> t]
Before(done, r) == IF r.ok THEN Rewritten(done \o r.text) ELSE r
\* One pass after another.
IfOk(r, Pass(_)) == IF r.ok THEN Pass(r.text) ELSE r

\* Mutant: comments are looked for inside literals.
StripBlockComments_InLiterals(t) ==
  LET closing(i) == FirstIn({j \in (i + 2) .. (Len(t) - 1) : t[j] = "*" /\ t[j + 1] = "/"})
      from[i \in 1 .. (Len(t) + 1)] ==
        CASE i > Len(t) -> Rewritten(<<>>)
          [] i < Len(t) /\ t[i] = "/" /\ t[i + 1] = "*" ->
               IF closing(i) = 0 THEN Malformed
               ELSE Before(Spaces(closing(i) + 2 - i), from[closing(i) + 2])
          [] OTHER -> Before(<<t[i]>>, from[i + 1])
  IN  from[1]

\* strip_block_comments
StripBlockComments(t) ==
  LET closing(i) == FirstIn({j \in (i + 2) .. (Len(t) - 1) : t[j] = "*" /\ t[j + 1] = "/"})
      from[i \in 1 .. (Len(t) + 1)] ==
        CASE i > Len(t) -> Rewritten(<<>>)
          [] i <= Len(t) /\ OpensLiteral(t, i) ->
               LET s == ScanStringLiteral(t, i) IN Before(SubSeq(t, i, s.end - 1), from[s.end])
          [] i < Len(t) /\ t[i] = "/" /\ t[i + 1] = "*" ->
               IF closing(i) = 0 THEN Malformed
               ELSE Before(Spaces(closing(i) + 2 - i), from[closing(i) + 2])
          [] OTHER -> Before(<<t[i]>>, from[i + 1])
  IN  from[1]

\* An identifier between double quotes, the ones in it doubled.
Delimited(ident) ==
  <<DoubleQuote>>
  \o FoldLeft(LAMBDA acc, c : IF c = DoubleQuote THEN acc \o <<c, c>> ELSE Append(acc, c), <<>>, ident)
  \o <<DoubleQuote>>

\* convert_backtick_idents
ConvertBacktickIdents(t) ==
  LET closing(i) == FirstIn({j \in (i + 1) .. Len(t) : t[j] = Backtick})
      from[i \in 1 .. (Len(t) + 1)] ==
        CASE i > Len(t) -> Rewritten(<<>>)
          [] i <= Len(t) /\ OpensLiteral(t, i) ->
               LET s == ScanStringLiteral(t, i) IN Before(SubSeq(t, i, s.end - 1), from[s.end])
          [] i <= Len(t) /\ t[i] = Backtick ->
               IF closing(i) \in {0, i + 1} THEN Malformed
               ELSE Before(Delimited(SubSeq(t, i + 1, closing(i) - 1)), from[closing(i) + 1])
          [] OTHER -> Before(<<t[i]>>, from[i + 1])
  IN  from[1]

\* rewrite_optional_match: text and mask are cut alike until no pair is left.
OptionalStep(r, k) ==
  LET to == Min({j \in k .. Len(r.mask) : r.mask[j] = "MATCH"})
      cut(s) == SubSeq(s, 1, k - 1) \o SubSeq(s, to, Len(s))
  IN  IF k = 0 THEN r ELSE [text |-> cut(r.text), mask |-> cut(r.mask)]
RewriteOptionalMatch(t) ==
  LET Next(r) == OptionalStep(r, FindOperator(r.mask, "OPTIONAL", "MATCH"))
      round[n \in 0..Len(t)] ==
        IF n = 0 THEN [text |-> t, mask |-> BlankStringLiterals(t)] ELSE Next(round[n - 1])
  IN  round[Len(t)].text

\* The pieces of a sequence between commas, without the spaces around them.
Trimmed(s) ==
  LET kept == {k \in DOMAIN s : s[k] # " "}
  IN  IF kept = {} THEN <<>> ELSE SubSeq(s, Min(kept), Max(kept))
SplitAtCommas(s) ==
  FoldLeft(LAMBDA acc, c : IF c = "," THEN Append(acc, <<>>)
                           ELSE [acc EXCEPT ![Len(acc)] = Append(@, c)], <<<<>>>>, s)

ListKeywords == {"RETURN", "MATCH", "CREATE", "SET", "DELETE", "DETACH", "MERGE", "WHERE", "ORDER",
                 "LIMIT", "WITH", "SKIP", "UNWIND"}

\* rewrite_remove_clauses.  The search is for the first REMOVE before the last
\* one that was rewritten: a second REMOVE is in the list of the first.  The
\* list is cut at commas and ended by a semicolon wherever they are.
ListEnd(rest, masked) ==
  Min({Len(rest) + 1} \cup {j \in DOMAIN rest : rest[j] = ";"}
      \cup ({FindWord(masked, w) : w \in ListKeywords} \ {0}))
SetNull(items) ==
  LET item(p) == Trimmed(p) \o <<" ", "=", " ", "NULL">>
  IN  FoldLeft(LAMBDA acc, p : acc \o <<",", " ">> \o item(p), item(items[1]), Tail(items))
SetInstead(text, k, list, end) ==
  IF list = <<>> THEN Malformed
  ELSE Rewritten(SubSeq(text, 1, k - 1) \o <<"SET", " ">> \o SetNull(SplitAtCommas(list))
                 \o SubSeq(text, k + end, Len(text)))
RewriteRemoveAt(t, mask, text, k) ==
  LET To(end) == SetInstead(text, k, Trimmed(SubSeq(t, k + 1, k + end - 1)), end)
  IN  To(ListEnd(SubSeq(t, k + 1, Len(t)), SubSeq(mask, k + 1, Len(mask))))
RemoveStep(t, mask, s, k) ==
  IF ~s.r.ok \/ k = 0 THEN s ELSE [r |-> RewriteRemoveAt(t, mask, s.r.text, k), before |-> k]
RemoveSteps(t, mask) ==
  LET Next(s) == RemoveStep(t, mask, s, FindWord(SubSeq(mask, 1, s.before - 1), "REMOVE"))
      step[n \in 0..Len(t)] == IF n = 0 THEN [r |-> Rewritten(t), before |-> Len(t) + 1] ELSE Next(step[n - 1])
  IN  step[Len(t)].r
RewriteRemoveClauses(t) == RemoveSteps(t, BlankStringLiterals(t))

\* rewrite_with_star: text and mask are blanked alike.
WithStarStep(s, k, star) ==
  LET blanked(x) == [j \in DOMAIN x |-> IF j \in k .. star THEN " " ELSE x[j]]
      found == /\ IsStandaloneWith(s.mask, k)
               /\ star <= Len(s.mask) /\ s.mask[star] = "*"
               /\ ~Alphanumeric(s.mask, star + 1)
  IN  IF found THEN [text |-> blanked(s.text), mask |-> blanked(s.mask), from |-> star + 1]
      ELSE [s EXCEPT !.from = k + 1]
RewriteWithStar(t) ==
  LET At(s, k) == IF k = 0 THEN s ELSE WithStarStep(s, k, PastSpaces(s.mask, k + 1))
      Next(s) == At(s, FindWordFrom(s.mask, "WITH", s.from))
      step[n \in 0..Len(t)] ==
        IF n = 0 THEN [text |-> t, mask |-> BlankStringLiterals(t), from |-> 1] ELSE Next(step[n - 1])
  IN  step[Len(t)].text

\* detect_unsupported_clauses: a WITH that is left.  Only the first is looked at.
ProjectsAt(mask, k) == k # 0 /\ IsStandaloneWith(mask, k)
Projects(mask) == ProjectsAt(mask, FindWord(mask, "WITH"))
DetectUnsupported(t) == Projects(BlankStringLiterals(t))

\* The first two passes of cypher_to_gql.
Unquoted(t) == IfOk(StripBlockComments(t), ConvertBacktickIdents)

\* The passes that rewrite clauses.
Clauses(t) == IfOk(RewriteRemoveClauses(RewriteOptionalMatch(t)), LAMBDA s : Rewritten(RewriteWithStar(s)))

\* cypher_to_gql
CypherToGql(t) ==
  IfOk(IfOk(Unquoted(t), Clauses), LAMBDA s : IF DetectUnsupported(s) THEN Malformed ELSE Rewritten(s))

\* contains_with_star
ContainsWithStar(m) ==
  \E k \in DOMAIN m :
    /\ m[k] = "WITH" /\ ~Alphanumeric(m, k - 1) /\ ~Alphanumeric(m, k + 1)
    /\ IsStandaloneWith(m, k)
    /\ PastSpaces(m, k + 1) <= Len(m) /\ m[PastSpaces(m, k + 1)] = "*"

\* contains_cypher_constructs
HasConstructs(m) ==
  \/ Backtick \in ToSet(m) \/ HasPair(m, "/", "*")
  \/ FindWord(m, "OPTIONAL") # 0 \/ FindWord(m, "REMOVE") # 0
  \/ ContainsWithStar(m)
ContainsCypherConstructs(t) == HasConstructs(BlankStringLiterals(t))

\* The text that is parsed in compatible mode (parse_with_mode).
CypherCompat(t) == IF ContainsCypherConstructs(t) THEN CypherToGql(t) ELSE Rewritten(t)

\* reject_cypher_constructs
Rejects(m) ==
  \/ HasPair(m, "/", "*") \/ Backtick \in ToSet(m)
  \/ FindOperator(m, "STARTS", "WITH") # 0 \/ FindOperator(m, "ENDS", "WITH") # 0
  \/ FindWord(m, "CONTAINS") # 0 \/ FindInList(m) # 0
  \/ \E f \in {"ID", "TYPE", "LABELS"} : FindFunctionCall(m, f) # 0
  \/ FindWord(m, "REMOVE") # 0
  \/ FindOperator(m, "OPTIONAL", "MATCH") # 0
  \/ Projects(m)
  \/ FindWord(m, "UNWIND") # 0
RejectCypherConstructs(t) == Rejects(BlankStringLiterals(t))

----------------------------------------------------------------------------
\* A text of the atoms of one theme is written, an atom at a time.
NextCypher ==
  /\ Len(script) < MaxAtoms
  /\ \E th \in Themes :
       /\ theme \in {{}, th} /\ theme' = th
       /\ \E a \in th : script' = Append(script, a)

----------------------------------------------------------------------------
(* Properties.                                                             *)

\* One reading from left to right: a literal as it is, a comment as spaces, an
\* identifier between backticks as one between double quotes.
OneReading(t) ==
  LET closing(i) == FirstIn({j \in (i + 2) .. (Len(t) - 1) : t[j] = "*" /\ t[j + 1] = "/"})
      ident(i) == FirstIn({j \in (i + 1) .. Len(t) : t[j] = Backtick})
      from[i \in 1 .. (Len(t) + 1)] ==
        CASE i > Len(t) -> Rewritten(<<>>)
          [] i <= Len(t) /\ OpensLiteral(t, i) ->
               LET s == ScanStringLiteral(t, i) IN Before(SubSeq(t, i, s.end - 1), from[s.end])
          [] i < Len(t) /\ t[i] = "/" /\ t[i + 1] = "*" ->
               IF closing(i) = 0 THEN Malformed
               ELSE Before(Spaces(closing(i) + 2 - i), from[closing(i) + 2])
          [] i <= Len(t) /\ t[i] = Backtick ->
               IF ident(i) \in {0, i + 1} THEN Malformed
               ELSE Before(Delimited(SubSeq(t, i + 1, ident(i) - 1)), from[ident(i) + 1])
          [] OTHER -> Before(<<t[i]>>, from[i + 1])
  IN  from[1]

\* "Backtick characters inside string literals are passed through unchanged",
\* "a /* inside a string literal is passed through unchanged"
\* (preprocessor.rs): the two passes do what one reading does.  Texts with both
\* a backtick and the start of a comment are left to MixedQuotesAreOneReading.
QuotesAreOneReading ==
  ~(Backtick \in ToSet(script) /\ HasPair(script, "/", "*")) => Unquoted(script) = OneReading(script)

\* The same with both: the first pass takes a quote in a backtick identifier
\* for the start of a literal, and a comment in one for a comment.
MixedQuotesAreOneReading == Unquoted(script) = OneReading(script)

CutOut(t, L) == [k \in DOMAIN L |-> SubSeq(t, L[k].from, L[k].to)]
LiteralsOf(t) == CutOut(t, Literals(t))
KeepsLiterals(c) == c.ok => LiteralsOf(c.text) = LiteralsOf(script)

\* The passes that rewrite clauses leave every literal as it is, keywords in it
\* included.  REMOVE, whose list is cut at commas of any kind, is left out.
ClausesKeepLiterals ==
  FindWord(BlankStringLiterals(script), "REMOVE") = 0 => KeepsLiterals(Clauses(script))

\* "A false return guarantees the input is pure GQL and can bypass the
\* preprocessor entirely" (contains_cypher_constructs): the passes would have
\* changed nothing.
FastPathChangesNothing ==
  ~ContainsCypherConstructs(script) =>
    /\ Unquoted(script) = Rewritten(script)
    /\ Clauses(script) = Rewritten(script)

\* What strict mode accepts the passes leave alone: the two modes agree on what
\* is Cypher.  A longer word that ends in STARTS is left out: the WITH after it
\* is taken for an operator.
StrictTextsAreUntouched ==
  (/\ ~RejectCypherConstructs(script)
   /\ \A k \in DOMAIN script : script[k] \in {"STARTS", "ENDS"} => ~Alphanumeric(script, k - 1))
    => CypherToGql(script) = Rewritten(script)

\* Refuted: a block comment is as good as the spaces it becomes.  With one, a
\* WITH that projects is refused; without, the text never meets the passes.
CommentsAreTransparent ==
  (Backtick \notin ToSet(script) /\ StripBlockComments(script).ok)
    => CypherCompat(script).ok = CypherCompat(StripBlockComments(script).text).ok

\* Refuted: every REMOVE becomes a SET.
EveryRemoveIsRewritten ==
  CypherToGql(script).ok => FindWord(BlankStringLiterals(CypherToGql(script).text), "REMOVE") = 0

\* Rewriting keeps what it does not rewrite: quotes are read in one way by all
\* passes, literals survive, a text without constructs is unchanged, and so is
\* one that strict mode accepts.
RewritingIsFaithful ==
  /\ QuotesAreOneReading /\ ClausesKeepLiterals
  /\ FastPathChangesNothing /\ StrictTextsAreUntouched

=============================================================================
