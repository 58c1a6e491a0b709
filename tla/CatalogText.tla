---------------------------- MODULE CatalogText ----------------------------
(***************************************************************************)
(* How the baseline preflight compares the expressions of check            *)
(* constraints, partial indexes and trigger functions with what it         *)
(* requires (internal/migration/baseline_constraints.go, and               *)
(* normalizeFunctionSource): both sides are normalised and compared.       *)
(*                                                                         *)
(* A text is a sequence of tokens, the ones the normalisation tells apart: *)
(* parentheses, the quote, white space, a letter in both cases, a cast,    *)
(* and what an `= ANY (ARRAY[...])` is spelled with.  The text is what the *)
(* server prints: Respell is the freedom it has (external), in layout,     *)
(* case, casts and redundant parentheses, never within a literal.          *)
(***************************************************************************)
EXTENDS Naturals, Sequences, SequencesExt

CONSTANTS
    MaxText,  \* bound: tokens of a text
    Texts     \* the texts first printed

VARIABLE text

-----------------------------------------------------------------------------
Quote == "'"
Space == " "
Cast == "::text"
Letters == {"X", "x"}
Tokens == Letters \union {"(", ")", Quote, Space, Cast, "=any", "array[", ",", "]"}
Lower(c) == IF c = "X" THEN "x" ELSE c

\* The second quote of a doubled one stands next.
QuoteFollows(s, i) == i < Len(s) /\ s[i + 1] = Quote

\* Literals are copied, doubled quotes included; any other token is replaced by
\* what emit has for it.
RewriteUnquoted(s, emit) ==
    LET Step(a, i) ==
          IF a.skip THEN [a EXCEPT !.skip = FALSE]
          ELSE IF s[i] = Quote
          THEN IF a.inQuote /\ QuoteFollows(s, i)
               THEN [a EXCEPT !.out = @ \o <<Quote, Quote>>, !.skip = TRUE]
               ELSE [a EXCEPT !.out = Append(@, Quote), !.inQuote = ~@]
          ELSE [a EXCEPT !.out = @ \o (IF a.inQuote THEN <<s[i]>> ELSE emit[s[i]])]
    IN  FoldLeftDomain(Step, [out |-> <<>>, inQuote |-> FALSE, skip |-> FALSE], s).out

SqueezeAll(s) == SelectSeq([i \in DOMAIN s |-> Lower(s[i])], LAMBDA c : c # Space)

Squeeze(s) == RewriteUnquoted(s, [c \in Tokens |-> IF c = Space THEN <<>> ELSE <<Lower(c)>>])
stripCatalogCasts(s) == RewriteUnquoted(s, [c \in Tokens |-> IF c = Cast THEN <<>> ELSE <<c>>])
normalizeFunctionSource(s) == RewriteUnquoted(s, [c \in Tokens |-> IF c = Space THEN <<>> ELSE <<c>>])

hasOuterEnds(s) == Len(s) >= 2 /\ s[1] = "(" /\ s[Len(s)] = ")"

\* The loop does not step over the second quote of a doubled one.
hasOuterParentheses(s) ==
    LET Step(a, i) ==
          IF s[i] = Quote
          THEN IF a.inQuote /\ QuoteFollows(s, i) THEN a ELSE [a EXCEPT !.inQuote = ~@]
          ELSE IF a.inQuote THEN a
          ELSE IF s[i] = "(" THEN [a EXCEPT !.depth = @ + 1]
          ELSE IF s[i] = ")"
          THEN [a EXCEPT !.depth = @ - 1, !.closed = @ \/ (a.depth = 1 /\ i # Len(s))]
          ELSE a
        end == FoldLeftDomain(Step, [depth |-> 0, inQuote |-> FALSE, closed |-> FALSE], s)
    IN  hasOuterEnds(s) /\ ~end.closed /\ end.depth = 0 /\ ~end.inQuote

trimRedundantOuterParentheses(s) ==
    LET Peeled(n) == SubSeq(s, n + 1, Len(s) - n)
    IN  Peeled(CHOOSE n \in 0..Len(s) :
                 ~hasOuterParentheses(Peeled(n)) /\ \A m \in 0..n - 1 : hasOuterParentheses(Peeled(m)))

\* The position of the parenthesis that closes the one at open, or 0.
matchingClosingParenthesis(s, open) ==
    LET Step(a, i) ==
          IF i < open \/ a.at > 0 THEN a
          ELSE IF a.skip THEN [a EXCEPT !.skip = FALSE]
          ELSE IF s[i] = Quote
          THEN IF a.inQuote /\ QuoteFollows(s, i) THEN [a EXCEPT !.skip = TRUE] ELSE [a EXCEPT !.inQuote = ~@]
          ELSE IF a.inQuote THEN a
          ELSE IF s[i] = "(" THEN [a EXCEPT !.depth = @ + 1]
          ELSE IF s[i] = ")" THEN [a EXCEPT !.depth = @ - 1, !.at = IF a.depth = 1 THEN i ELSE 0]
          ELSE a
    IN  FoldLeftDomain(Step, [depth |-> 0, inQuote |-> FALSE, skip |-> FALSE, at |-> 0], s).at

\* s without the tokens at the positions of drop.
Without(s, drop) ==
    FoldLeftDomain(LAMBDA out, i : IF i \in drop THEN out ELSE Append(out, s[i]), <<>>, s)

\* ARRAY[('a'),('b')] is ARRAY['a','b'].
UnwrapElements(s) ==
    LET Reads(i, pattern) == i + Len(pattern) - 1 <= Len(s) /\ SubSeq(s, i, i + Len(pattern) - 1) = pattern
    IN  Without(s, {i + 1 : i \in {j \in DOMAIN s : Reads(j, <<"array[", "(", Quote>>)}}
                     \union UNION {{i + 1, i + 3} : i \in {j \in DOMAIN s : Reads(j, <<Quote, ")", ",", "(", Quote>>)}}
                     \union {i + 1 : i \in {j \in DOMAIN s : Reads(j, <<Quote, ")", "]">>)}})

canonicalizeTextArrayAny(expression) ==
    LET s == trimRedundantOuterParentheses(expression)
        anys == {i \in 1..Len(s) - 1 : s[i] = "=any" /\ s[i + 1] = "("}
        open == 1 + CHOOSE i \in anys : \A j \in anys : i <= j
        close == matchingClosingParenthesis(s, open)
        argument == trimRedundantOuterParentheses(SubSeq(s, open + 1, close - 1))
    IN  IF anys = {} \/ close = 0 \/ argument = <<>> \/ argument[1] # "array[" THEN s
        ELSE SubSeq(s, 1, open) \o UnwrapElements(argument) \o SubSeq(s, close, Len(s))

normalizeCatalogExpression(s) ==
    canonicalizeTextArrayAny(trimRedundantOuterParentheses(stripCatalogCasts(Squeeze(s))))

semanticExpressionEqual(a, b) == normalizeCatalogExpression(a) = normalizeCatalogExpression(b)

-----------------------------------------------------------------------------
(* What a text says, told from its tokens alone. *)

QuotesBefore(s, i) == Len(SelectSeq(SubSeq(s, 1, i - 1), LAMBDA c : c = Quote))
Quoted(s, i) == s[i] # Quote /\ QuotesBefore(s, i) % 2 = 1
Bare(s, c) == SelectSeq(Without(s, {i \in DOMAIN s : Quoted(s, i)}), LAMBDA d : d = c)
WellFormed(s) ==
    /\ QuotesBefore(s, Len(s) + 1) % 2 = 0
    /\ \A i \in DOMAIN s : Len(Bare(SubSeq(s, 1, i), ")")) <= Len(Bare(SubSeq(s, 1, i), "("))
    /\ Len(Bare(s, "(")) = Len(Bare(s, ")"))
Escapes(s) == \E i \in DOMAIN s : s[i] = Quote /\ QuoteFollows(s, i) /\ QuotesBefore(s, i) % 2 = 1

\* The quotes and what stands between them, in order.
Literals(s) == Without(s, {i \in DOMAIN s : s[i] # Quote /\ ~Quoted(s, i)})

\* The words outside literals, without layout, case, casts and parentheses.
Words(s) ==
    LET kept == Without(s, {i \in DOMAIN s : Quoted(s, i) \/ s[i] \in {Space, Cast, "(", ")"}})
    IN  [i \in DOMAIN kept |-> Lower(kept[i])]

-----------------------------------------------------------------------------
(* The server's freedom. *)

Loose(i) == QuotesBefore(text, i) % 2 = 0

Layout ==
    \E i \in 1..Len(text) + 1, c \in {Space, Cast} :
        /\ Len(text) < MaxText /\ Loose(i)
        /\ text' = InsertAt(text, i, c)

Recase ==
    \E i \in DOMAIN text :
        /\ text[i] \in Letters /\ ~Quoted(text, i)
        /\ \E c \in Letters \ {text[i]} : text' = ReplaceAt(text, i, c)

Wrap ==
    /\ text # <<>> /\ Len(text) + 2 <= MaxText
    /\ text' = <<"(">> \o text \o <<")">>

\* x = ANY (ARRAY[...]) with its argument, or each element, in parentheses.
ArraySpellings ==
    LET Literal(w) == IF w THEN <<"(", Quote, "x", Quote, ")">> ELSE <<Quote, "x", Quote>>
        List(w, n) == IF n = 1 THEN Literal(w) ELSE Literal(w) \o <<",">> \o Literal(w)
        Array(w, n) == <<"array[">> \o List(w, n) \o <<"]">>
        AnyOf(a) == <<"x", "=any", "(">> \o a \o <<")">>
    IN  [n \in 1..2 |-> UNION {{AnyOf(Array(w, n)), AnyOf(<<"(">> \o Array(w, n) \o <<")">>)} : w \in BOOLEAN}]

RespellArray ==
    \E n \in 1..2 : text \in ArraySpellings[n] /\ text' \in ArraySpellings[n]

Init == text \in {t \in Texts : WellFormed(t)} \union ArraySpellings[1] \union ArraySpellings[2]
Next == Layout \/ Recase \/ Wrap \/ RespellArray
Spec == Init /\ [][Next]_text

-----------------------------------------------------------------------------
Normals == {normalizeCatalogExpression(text), normalizeFunctionSource(text)}

\* What normalizeCatalogExpression and normalizeFunctionSource leave keeps the literals
\* to the letter and the words in their order: two texts that compare equal differ in no
\* literal and in no word, so that the preflight accepts no other predicate or check.
MeaningIsKept == \A normal \in Normals : Literals(normal) = Literals(text) /\ Words(normal) = Words(text)

\* What they leave has every parenthesis paired: no group is taken apart.
\* (hasOuterParentheses loses count over a doubled quote and may then do so.)
GroupsStayPaired == Escapes(text) \/ \A normal \in Normals : WellFormed(normal)

\* However the server prints an expression, semanticExpressionEqual takes it for the same
\* (a doubled quote apart).
StaysEqual == text' # text /\ ~Escapes(text) => semanticExpressionEqual(text, text')
SpellingIsIgnored == [][StaysEqual]_text

\* Two expressions compare equal exactly when they should: normalising keeps meaning and
\* drops spelling.
CatalogCompared == [](MeaningIsKept /\ GroupsStayPaired) /\ SpellingIsIgnored
=============================================================================
