------------------------------ MODULE MCScanner ------------------------------
(* The scanner on all short texts over the bytes that one automaton tells  *)
(* apart, for each of its automata, and over the others for the rest.      *)
EXTENDS Scanner

Texts(S, n) == UNION {[1..k -> S] : k \in 0..n}
After(w, S, n) == {w \o t : t \in Texts(S, n)}

MCKeywords == (<<100, 111>> :> "KEYWORD_do") @@ (<<111, 114>> :> "KEYWORD_or")

NumberTexts  == After(<<48>>, {48, 49, DOT, 101, MINUS, SPACE}, 5)
                  \union After(<<49>>, {48, DOT, 69, PLUS, SPACE}, 5)
WordTexts    == Texts({100, 111, UNDERSCORE, 49, SPACE}, 4)
StringTexts  == After(<<QUOTE, BACKSLASH>>,
                      {48, 49, 50, 53, 54, 120, 110, 65, 98, QUOTE, BACKSLASH}, 4)
                  \union After(<<QUOTE>>, {97, NL, QUOTE, BACKSLASH, 116}, 4)
CommentTexts == After(<<MINUS, MINUS>>, {OPEN, CLOSE, NL, 97}, 5)
MixedTexts   == Texts({LESS, EQUALS, TILDE, DOT, SLASH, MINUS, NL, CR, TAB,
                       40, 0, 100, 49, QUOTE}, 3)

MCTapes  == NumberTexts \union WordTexts \union StringTexts
              \union CommentTexts \union MixedTexts
=============================================================================
