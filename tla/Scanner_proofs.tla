---------------------------- MODULE Scanner_proofs ----------------------------
(***************************************************************************)
(* TokenStringsAreOwned and TypeOK for all texts, keywords and widths of   *)
(* an integer.                                                             *)
(***************************************************************************)
EXTENDS Scanner, SequenceTheorems, TLAPS

IdStates == {"ID_INIT", "ID_FINAL"}

(* The automata that build a string.                                       *)
Building == IdStates \union NumStates \union StrStates
Scanning == {"INIT"} \union Building \union CommentStates

NumStateNames == {"NUM_INIT", "NUM_1", "NUM_2", "NUM_3", "NUM_4", "NUM_5",
                  "NUM_6", "NUM_7", "NUM_8", "NUM_9"}
StrStateNames == {"STR_INIT", "STR_ESC", "STR_HEX_1", "STR_HEX_2", "STR_HEX_3",
                  "STR_DEC_0_0", "STR_DEC_0_1", "STR_DEC_0_2", "STR_DEC_1_0",
                  "STR_DEC_1_1", "STR_DEC_1_2"}
CommentStateNames == {"COMMENT_INIT", "COMMENT_SLINE", "COMMENT_BLOCK_1",
                      "COMMENT_BLOCK_2", "COMMENT_BLOCK_END", "COMMENT_FINAL"}

(* The moves of lex_number stay among its states.                          *)
LEMMA NumMovesStay ==
  /\ NumStates = NumStateNames
  /\ \A m \in NumMoves : m[1] \in NumStates /\ m[3] \in NumStates
<1>1. \A m \in NumMoves : m[1] \in NumStateNames /\ m[3] \in NumStateNames
  BY DEF NumMoves, NumStateNames
<1>2. NumStates \subseteq NumStateNames
  BY <1>1 DEF NumStates
<1>3. NumStateNames \subseteq NumStates
  <2>1. \A s \in NumStateNames : \E m \in NumMoves : m[1] = s
    BY DEF NumMoves, NumStateNames
  <2> QED  BY <2>1 DEF NumStates
<1> QED  BY <1>1, <1>2, <1>3

(* The moves of lex_string stay among its states.                          *)
LEMMA StrMovesStay ==
  /\ StrStates = StrStateNames
  /\ \A m \in StrMoves : m[1] \in StrStates /\ m[3] \in StrStates
<1>1. \A m \in StrMoves : m[1] \in StrStateNames /\ m[3] \in StrStateNames
  BY DEF StrMoves, StrStateNames
<1>2. StrStates \subseteq StrStateNames
  BY <1>1 DEF StrStates
<1>3. StrStateNames \subseteq StrStates
  <2>1. \A s \in StrStateNames : \E m \in StrMoves : m[1] = s
    BY DEF StrMoves, StrStateNames
  <2> QED  BY <2>1 DEF StrStates
<1> QED  BY <1>1, <1>2, <1>3

(* The moves of process_comment stay among its states.                     *)
LEMMA CommentMovesStay ==
  /\ CommentStates = CommentStateNames
  /\ \A m \in CommentMoves : m[1] \in CommentStates /\ m[3] \in CommentStates
<1>1. \A m \in CommentMoves : m[1] \in CommentStateNames /\ m[3] \in CommentStateNames
  BY DEF CommentMoves, CommentStateNames
<1>2. CommentStates \subseteq CommentStateNames
  BY <1>1 DEF CommentStates, CommentStateNames
<1>3. CommentStateNames \subseteq CommentStates
  <2>1. \A s \in CommentStateNames \ {"COMMENT_FINAL"} : \E m \in CommentMoves : m[1] = s
    BY DEF CommentMoves, CommentStateNames
  <2> QED  BY <2>1 DEF CommentStates, CommentStateNames
<1> QED  BY <1>1, <1>2, <1>3

(***************************************************************************)
(* The inductive invariant: strings are named by ever greater positions,   *)
(* so that the three tokens alive never share one.                         *)
(***************************************************************************)
Positions ==
  /\ pos \in Nat /\ start \in Nat
  /\ state \in {"CALL", "FREED"} \union Scanning
  /\ \A n \in Owned(prev) \union Owned(curr) : n \in Nat /\ n < pos

Idle ==
  /\ state = "CALL"  => /\ heap = Owned(prev) \union Owned(curr)
                        /\ \A m \in Owned(prev), n \in Owned(curr) : m < n
  /\ state = "FREED" => heap = {}

Busy ==
  /\ state \in Scanning => /\ prev = curr
                           /\ heap = Owned(curr) \union
                                       (IF state \in Building THEN {start} ELSE {})
  /\ state \in Building => /\ start <= pos
                           /\ \A n \in Owned(curr) : n < start
  /\ state \in StrStates \union {"ID_FINAL"} => start < pos

OwnInv == Positions /\ Idle /\ Busy

(* The states of the automata are distinct from each other and from the    *)
(* places between them.                                                    *)
LEMMA StatesDistinct ==
  /\ {"INIT", "CALL", "FREED"} \intersect (Building \union CommentStates) = {}
  /\ IdStates \intersect (NumStates \union StrStates) = {}
  /\ NumStates \intersect StrStates = {}
  /\ CommentStates \intersect Building = {}
  /\ "NUM_INIT" \in NumStates /\ "STR_INIT" \in StrStates
  /\ "COMMENT_INIT" \in CommentStates /\ "COMMENT_FINAL" \in CommentStates
  BY NumMovesStay, StrMovesStay, CommentMovesStay
     DEF Building, IdStates, NumStateNames, StrStateNames, CommentStateNames

(* What a token without a string, or with one, does to the owned names.    *)
LEMMA ReturnOwns ==
  ASSUME NEW type, NEW attr, Return(type, attr)
  PROVE  /\ state' = "CALL"
         /\ Owned(prev)' = Owned(prev)
         /\ type \notin {"ID", "STR"} => Owned(curr)' = {}
         /\ type \in {"ID", "STR"} => Owned(curr)' = {start}
  BY DEF Return, Owned

(* A token whose characters need no string, from INIT.                     *)
LEMMA ReturnPlain ==
  ASSUME OwnInv, state = "INIT", NEW type, NEW attr, Return(type, attr),
         type \notin {"ID", "STR"}, pos' \in Nat, pos' > pos,
         UNCHANGED <<start, heap>>
  PROVE  OwnInv'
<1>1. /\ state' = "CALL" /\ Owned(prev)' = Owned(prev) /\ Owned(curr)' = {}
  BY ReturnOwns
<1>2. prev = curr /\ heap = Owned(curr)
  BY StatesDistinct DEF OwnInv, Busy, Scanning
<1>3. Positions'
  BY <1>1 DEF OwnInv, Positions
<1>4. Idle'
  BY <1>1, <1>2 DEF Idle
<1>5. Busy'
  BY <1>1, StatesDistinct, NumMovesStay, StrMovesStay
     DEF Busy, Scanning, Building, IdStates
<1> QED  BY <1>3, <1>4, <1>5 DEF OwnInv

(* A step from state to state of one automaton that builds a string.       *)
LEMMA StepBuilding ==
  ASSUME OwnInv, state \in Building, state' \in Building,
         state' \in StrStates \union {"ID_FINAL"} =>
            state \in StrStates \union IdStates,
         pos' = pos + 1, UNCHANGED <<start, heap, prev, curr>>
  PROVE  OwnInv'
<1>1. Owned(prev)' = Owned(prev) /\ Owned(curr)' = Owned(curr)
  BY DEF Owned
<1>2. Positions'
  BY <1>1 DEF OwnInv, Positions, Scanning
<1>3. Idle'
  BY StatesDistinct DEF Idle
<1>4. Busy'
  BY <1>1 DEF OwnInv, Busy, Positions, Scanning
<1> QED  BY <1>2, <1>3, <1>4 DEF OwnInv

(***************************************************************************)
(* One lemma for each group of actions.                                    *)
(***************************************************************************)
LEMMA CallPreserves ==
  ASSUME OwnInv, get_next_token \/ Free_scanner
  PROVE  OwnInv'
<1>1. CASE get_next_token
  <2>1. /\ Owned(prev)' = Owned(curr) /\ Owned(curr)' = Owned(curr)
        /\ state = "CALL" /\ state' = "INIT" /\ prev' = curr'
        /\ UNCHANGED <<pos, start>>
    BY <1>1 DEF get_next_token, Owned
  <2>2. heap' = Owned(curr)
    BY <1>1, <2>1 DEF get_next_token, OwnInv, Idle, Positions
  <2>3. Positions'
    BY <2>1 DEF OwnInv, Positions, Scanning
  <2>4. Idle' /\ Busy'
    BY <2>1, <2>2, StatesDistinct, StrMovesStay DEF Idle, Busy, StrStateNames
  <2> QED  BY <2>3, <2>4 DEF OwnInv
<1>2. CASE Free_scanner
  <2>1. /\ Owned(prev)' = Owned(prev) /\ Owned(curr)' = Owned(curr)
        /\ state = "CALL" /\ state' = "FREED" /\ UNCHANGED <<pos, start>>
        /\ heap' = {}
    BY <1>2 DEF Free_scanner, Owned, OwnInv, Idle
  <2>2. Positions'
    BY <2>1 DEF OwnInv, Positions
  <2>3. Idle' /\ Busy'
    BY <2>1, StatesDistinct, StrMovesStay
       DEF Idle, Busy, StrStateNames, Scanning
  <2> QED  BY <2>2, <2>3 DEF OwnInv
<1> QED  BY <1>1, <1>2

LEMMA PlainPreserves ==
  ASSUME OwnInv,
         single_char \/ minus \/ slash \/ dot \/ lex_relate_op \/ unrecognized
  PROVE  OwnInv'
<1> USE DEF OwnInv, Positions
<1>1. CASE single_char
  BY <1>1, ReturnPlain DEF single_char, SingleChar
<1>2. CASE minus
  BY <1>2, ReturnPlain DEF minus
<1>3. CASE slash
  BY <1>3, ReturnPlain DEF slash
<1>4. CASE dot
  BY <1>4, ReturnPlain DEF dot
<1>5. CASE lex_relate_op
  <2>1. \A c \in DOMAIN Relations, k \in 1..2 : Relations[c][k] \notin {"ID", "STR"}
    BY DEF Relations, GREATER, LESS, EQUALS, TILDE
  <2> QED  BY <1>5, <2>1, ReturnPlain DEF lex_relate_op
<1>6. CASE unrecognized
  BY <1>6, ReturnPlain DEF unrecognized
<1> QED  BY <1>1, <1>2, <1>3, <1>4, <1>5, <1>6

(* Blanks and comments touch no string.                                    *)
LEMMA SkipPreserves ==
  ASSUME OwnInv,
         blank \/ start_comment \/ process_comment \/ comment_over
           \/ comment_unfinished
  PROVE  OwnInv'
<1>1. CASE comment_unfinished
  <2>1. /\ state \in CommentStates /\ Return("DEAD", None)
        /\ pos' = pos + 1 /\ UNCHANGED <<start, heap>>
    BY <1>1 DEF comment_unfinished
  <2>2. state' = "CALL" /\ Owned(prev)' = Owned(prev) /\ Owned(curr)' = {}
    BY <2>1, ReturnOwns
  <2>3. prev = curr /\ heap = Owned(curr)
    BY <2>1, StatesDistinct DEF OwnInv, Busy, Scanning
  <2>4. Positions'
    BY <2>1, <2>2 DEF OwnInv, Positions
  <2>5. Idle'
    BY <2>1, <2>2, <2>3 DEF Idle
  <2>6. Busy'
    BY <2>2, StatesDistinct, StrMovesStay DEF Busy, Scanning, StrStateNames
  <2> QED  BY <2>4, <2>5, <2>6 DEF OwnInv
<1>2. CASE blank \/ start_comment \/ process_comment \/ comment_over
  <2>1. /\ state \in {"INIT"} \union CommentStates
        /\ state' \in {"INIT"} \union CommentStates
        /\ pos' \in {pos, pos + 1, pos + 2}
        /\ start' \in {start, pos}
        /\ UNCHANGED <<prev, curr, heap>>
    BY <1>2, StatesDistinct, CommentMovesStay
       DEF blank, start_comment, EnterAutomaton, process_comment, comment_over,
           Moves, reading
  <2>2. Owned(prev)' = Owned(prev) /\ Owned(curr)' = Owned(curr)
    BY <2>1 DEF Owned
  <2>3. Positions'
    BY <2>1, <2>2 DEF OwnInv, Positions, Scanning
  <2>4. Idle'
    BY <2>1, StatesDistinct DEF Idle
  <2>5. \A s \in {"INIT"} \union CommentStates :
          s \notin Building /\ s \notin StrStates \union {"ID_FINAL"}
    BY StatesDistinct DEF Building, IdStates
  <2>6. prev = curr /\ heap = Owned(curr)
    BY <2>1, <2>5 DEF OwnInv, Busy, Scanning
  <2>7. Busy'
    BY <2>1, <2>2, <2>5, <2>6 DEF Busy
  <2> QED  BY <2>3, <2>4, <2>7 DEF OwnInv
<1> QED  BY <1>1, <1>2

(* Entering an automaton allocates a string, named by the position.        *)
LEMMA StartPreserves ==
  ASSUME OwnInv, start_identif \/ start_number \/ start_string
  PROVE  OwnInv'
<1>1. /\ state = "INIT" /\ start' = pos /\ UNCHANGED <<prev, curr>>
      /\ heap' = heap \union {pos}
      /\ state' \in Building /\ state' # "ID_FINAL"
      /\ pos' \in {pos, pos + 1}
      /\ state' \in StrStates => pos' = pos + 1
  BY StatesDistinct
     DEF start_identif, start_number, start_string, EnterAutomaton, Building,
         IdStates, reading
<1>2. Owned(prev)' = Owned(prev) /\ Owned(curr)' = Owned(curr)
  BY <1>1 DEF Owned
<1>3. prev = curr /\ heap = Owned(curr) /\ pos \in Nat
  BY <1>1, StatesDistinct DEF OwnInv, Busy, Scanning, Positions
<1>4. Positions'
  BY <1>1, <1>2, <1>3 DEF OwnInv, Positions, Scanning
<1>5. Idle'
  BY <1>1, StatesDistinct DEF Idle
<1>6. Busy'
  BY <1>1, <1>2, <1>3 DEF OwnInv, Positions, Busy
<1> QED  BY <1>4, <1>5, <1>6 DEF OwnInv

LEMMA ReadPreserves ==
  ASSUME OwnInv, lex_identif \/ lex_number \/ lex_string
  PROVE  OwnInv'
<1>1. CASE lex_identif
  BY <1>1, StepBuilding
     DEF lex_identif, Moves, IdMoves, Building, IdStates, reading
<1>2. CASE lex_number
  <2>1. state \in NumStates /\ state' \in NumStates
    BY <1>2, NumMovesStay DEF lex_number, Moves
  <2> QED  BY <1>2, <2>1, StepBuilding, StatesDistinct
              DEF lex_number, Building, IdStates, reading
<1>3. CASE lex_string
  <2>1. state \in StrStates /\ state' \in StrStates
    BY <1>3, StrMovesStay DEF lex_string, Moves
  <2> QED  BY <1>3, <2>1, StepBuilding
              DEF lex_string, Building, reading
<1> QED  BY <1>1, <1>2, <1>3

(* The end of an automaton: its string is given back, or goes to curr.     *)
LEMMA EndPreserves ==
  ASSUME OwnInv, lex_identif_end \/ lex_number_end \/ lex_string_end
  PROVE  OwnInv'
<1>1. ASSUME NEW type, NEW attr, Return(type, attr), state \in Building,
             pos' \in {pos, pos + 1}, UNCHANGED start,
             \/ type \notin {"ID", "STR"} /\ heap' = heap \ {start}
             \/ /\ type \in {"ID", "STR"} /\ heap' = heap
                /\ state \in StrStates \union {"ID_FINAL"}
      PROVE  OwnInv'
  <2>1. /\ state' = "CALL" /\ Owned(prev)' = Owned(prev)
        /\ Owned(curr)' = IF type \in {"ID", "STR"} THEN {start} ELSE {}
    BY <1>1, ReturnOwns
  <2>2. /\ prev = curr /\ heap = Owned(curr) \union {start}
        /\ \A n \in Owned(curr) : n < start
        /\ type \in {"ID", "STR"} => start < pos
        /\ pos \in Nat /\ start \in Nat
        /\ \A n \in Owned(curr) : n \in Nat /\ n < pos
    BY <1>1 DEF OwnInv, Busy, Positions, Scanning
  <2>3. heap' = Owned(prev)' \union Owned(curr)'
    BY <1>1, <2>1, <2>2
  <2>4. Positions'
    BY <1>1, <2>1, <2>2 DEF Positions
  <2>5. Idle'
    BY <2>1, <2>2, <2>3 DEF Idle
  <2>6. Busy'
    BY <2>1, StatesDistinct DEF Busy, Scanning, Building, IdStates
  <2> QED  BY <2>4, <2>5, <2>6 DEF OwnInv
<1>2. CASE lex_identif_end
  <2>1. \A w \in DOMAIN Keywords : Keywords[w] \notin {"ID", "STR"}
    BY KeywordsAssumption DEF Valued
  <2> QED  BY <1>1, <1>2, <2>1 DEF lex_identif_end, Building, IdStates
<1>3. CASE lex_number_end
  BY <1>1, <1>3 DEF lex_number_end, Building
<1>4. CASE lex_string_end
  BY <1>1, <1>4 DEF lex_string_end, Building
<1> QED  BY <1>2, <1>3, <1>4

LEMMA NextPreserves ==
  ASSUME OwnInv, [Next]_vars
  PROVE  OwnInv'
<1>1. CASE UNCHANGED vars
  BY <1>1 DEF vars, OwnInv, Positions, Idle, Busy, Owned
<1>2. CASE Terminating
  BY <1>1, <1>2 DEF Terminating
<1>3. CASE Scan
  BY <1>3, PlainPreserves, SkipPreserves, StartPreserves, ReadPreserves,
     EndPreserves DEF Scan
<1> QED  BY <1>1, <1>2, <1>3, CallPreserves DEF Next

(* Whatever the source text, the keywords and the moment the parser gives  *)
(* up: the strings of the previous and the current token are allocated     *)
(* while the parser may read them, no other string is, and none is left    *)
(* when the scanner is freed.                                              *)
THEOREM ScannerOwnership == Spec => []TokenStringsAreOwned
<1>1. Init => OwnInv
  BY StatesDistinct, StrMovesStay
     DEF Init, OwnInv, Positions, Idle, Busy, Owned, Zero, Scanning,
         StrStateNames
<1>2. OwnInv /\ [Next]_vars => OwnInv'
  BY NextPreserves
<1>3. OwnInv => TokenStringsAreOwned
  BY DEF OwnInv, Positions, Idle, TokenStringsAreOwned
<1> QED  BY <1>1, <1>2, <1>3, PTL DEF Spec

-----------------------------------------------------------------------------
(***************************************************************************)
(* Types.  escaped_char is what the digits read so far are worth; whether  *)
(* the next one still fits depends on where the automaton is.              *)
(***************************************************************************)
Fits(e, s) ==
  /\ e \in Char
  /\ s \in {"STR_HEX_1", "STR_HEX_3", "STR_DEC_0_0"} => e = 0
  /\ s = "STR_DEC_0_1" => e = 100
  /\ s = "STR_DEC_0_2" => e = 200
  /\ s \in {"STR_HEX_2", "STR_DEC_1_0", "STR_DEC_1_1"} => e <= 240
  /\ s = "STR_DEC_1_2" => e = 250

EscapesFit == Fits(escaped, state)

Buffers ==
  /\ tape \in Tapes /\ lexeme \in Seq(Char)
  /\ lines \in Nat /\ end \in Nat /\ error \in {"NOERROR", "LEXICAL"}

TypeInv == OwnInv /\ EscapesFit /\ Buffers /\ Token(prev) /\ Token(curr)

(* The byte under the head.                                                *)
LEMMA GetcFacts ==
  ASSUME TypeInv
  PROVE  /\ Getc \in Byte \union {EOF} /\ Getc \in Int
         /\ Len(tape) \in Nat /\ pos \in Nat
<1>1. tape \in Seq(Byte) /\ pos \in Nat
  BY TapesAssumption DEF TypeInv, Buffers, OwnInv, Positions
<1>2. Len(tape) \in Nat
  BY <1>1, LenProperties
<1>3. CASE pos < Len(tape)
  <2>1. pos + 1 \in 1..Len(tape)
    BY <1>1, <1>2, <1>3
  <2>2. tape[pos + 1] \in Byte
    BY <1>1, <2>1, ElementOfSeq
  <2> QED
    <3>1. Getc = tape[pos + 1]
      BY <1>3 DEF Getc
    <3>2. Getc \in Byte
      BY <2>2, <3>1
    <3> QED
      BY <1>1, <1>2, <3>2 DEF Byte
<1>4. CASE ~ (pos < Len(tape))
  <2>1. Getc = EOF /\ EOF \in Int
    BY <1>4 DEF Getc, EOF
  <2> QED
    BY <1>1, <1>2, <2>1
<1> QED
  BY <1>3, <1>4

(* The moves of lex_string, from s to t by the byte c.                     *)
StrMove(s, c, t) ==
  \/ s = "STR_INIT" /\ c = BACKSLASH /\ t = "STR_ESC"
  \/ s = "STR_INIT" /\ c \in Byte /\ c # BACKSLASH /\ t = "STR_INIT"
  \/ s = "STR_ESC" /\ c = 48 /\ t = "STR_DEC_0_0"
  \/ s = "STR_ESC" /\ c = 49 /\ t = "STR_DEC_0_1"
  \/ s = "STR_ESC" /\ c = 50 /\ t = "STR_DEC_0_2"
  \/ s = "STR_ESC" /\ c = 120 /\ t = "STR_HEX_1"
  \/ s = "STR_ESC" /\ c \in DOMAIN Escapes /\ t = "STR_INIT"
  \/ s = "STR_HEX_1" /\ c = 48 /\ t = "STR_HEX_3"
  \/ s = "STR_HEX_1" /\ c \in Hex /\ t = "STR_HEX_2"
  \/ s \in {"STR_HEX_2", "STR_HEX_3"} /\ c \in Hex /\ t = "STR_INIT"
  \/ s \in {"STR_DEC_0_0", "STR_DEC_0_1"} /\ c \in Digit /\ t = "STR_DEC_1_1"
  \/ s = "STR_DEC_0_2" /\ c \in 48..52 /\ t = "STR_DEC_1_1"
  \/ s = "STR_DEC_0_2" /\ c = 53 /\ t = "STR_DEC_1_2"
  \/ s \in {"STR_DEC_1_0", "STR_DEC_1_1"} /\ c \in Digit /\ t = "STR_INIT"
  \/ s = "STR_DEC_1_2" /\ c \in UpTo5 /\ t = "STR_INIT"

LEMMA StrMoveCases ==
  ASSUME NEW m \in StrMoves, NEW c \in m[2]
  PROVE  StrMove(m[1], c, m[3])
  BY DEF StrMove, StrMoves, Nonzero, Digit

(* hex2dec gives the worth of a digit; an escaped character is a byte.     *)
LEMMA DigitFacts ==
  /\ \A c \in Hex : hex2dec(c) \in 0..15
  /\ \A c \in Digit : c - 48 \in 0..9
  /\ \A c \in DOMAIN Escapes : Escapes[c] \in Char /\ c \notin Digit /\ c # 120
<1>1. \A c \in Hex : hex2dec(c) \in 0..15
  BY DEF Hex, Digit, hex2dec
<1>2. \A c \in Digit : c - 48 \in 0..9
  BY DEF Digit
<1>3. \A c \in DOMAIN Escapes : Escapes[c] \in Char /\ c \notin Digit /\ c # 120
  BY DEF Escapes, Char, Digit, TAB, NL, BACKSLASH, QUOTE
<1> QED
  BY <1>1, <1>2, <1>3

(* A byte of a string literal: the counted value stays within a byte.      *)
LEMMA StringByte ==
  ASSUME TypeInv, lex_string
  PROVE  EscapesFit' /\ lexeme' \in Seq(Char)
<1>1. PICK m \in Moves(StrMoves, Getc) :
        /\ state' = m[3] /\ lexeme' = lexeme \o AppendedBy(Getc)
        /\ escaped' = EscapedBy(Getc)
  BY DEF lex_string
<1>2. PICK c : c = Getc
  OBVIOUS
<1>3. /\ c \in Int /\ lexeme \in Seq(Char) /\ escaped \in Char /\ escaped \in Nat
      /\ StrMove(state, c, state') /\ state \in StrStateNames
  <2>1. m \in StrMoves /\ state = m[1] /\ c \in m[2] /\ state' = m[3]
    BY <1>1, <1>2 DEF Moves
  <2>2. c \in Int
    BY <1>2, GetcFacts
  <2>3. StrMove(m[1], c, m[3])
    BY <2>1, StrMoveCases
  <2>4. StrMove(state, c, state')
    BY <2>1, <2>3
  <2>5. state \in StrStateNames
    BY <2>1, StrMovesStay
  <2> QED
    BY <2>2, <2>4, <2>5 DEF TypeInv, Buffers, EscapesFit, Fits, Char
<1>4. escaped' = EscapedBy(c) /\ lexeme' = lexeme \o AppendedBy(c)
  BY <1>1, <1>2
<1>5. ASSUME Fits(EscapedBy(c), state'), AppendedBy(c) \in Seq(Char)
      PROVE  EscapesFit' /\ lexeme' \in Seq(Char)
  BY <1>3, <1>4, <1>5, ConcatProperties DEF EscapesFit
<1>6. ASSUME NEW b \in Char PROVE <<b>> \in Seq(Char)
  OBVIOUS
<1>7. <<>> \in Seq(Char)
  OBVIOUS
<1>8. CASE state = "STR_INIT"
  <2>1. EscapedBy(c) = escaped
    BY <1>8 DEF EscapedBy, LastDigit
  <2>2. AppendedBy(c) = IF c # BACKSLASH THEN <<c>> ELSE <<>>
    BY <1>8 DEF AppendedBy, LastDigit
  <2>3. \/ c = BACKSLASH /\ state' = "STR_ESC"
        \/ c \in Byte /\ state' = "STR_INIT"
    BY <1>3, <1>8 DEF StrMove
  <2>4. Fits(EscapedBy(c), state')
    BY <1>3, <2>1, <2>3 DEF Fits
  <2>5. AppendedBy(c) \in Seq(Char)
    <3>1. CASE c = BACKSLASH
      BY <1>7, <2>2, <3>1
    <3>2. CASE c # BACKSLASH
      <4>1. c \in Char
        BY <2>3, <3>2 DEF Char, Byte
      <4> QED
        BY <1>6, <2>2, <3>2, <4>1
    <3> QED
      BY <3>1, <3>2
  <2> QED
    BY <1>5, <2>4, <2>5
<1>9. CASE state = "STR_ESC"
  <2>1. EscapedBy(c) = IF c \in Digit THEN 100 * (c - 48) ELSE 0
    BY <1>3, <1>9 DEF EscapedBy, LastDigit
  <2>2. AppendedBy(c) = IF c \in DOMAIN Escapes THEN <<Escapes[c]>> ELSE <<>>
    BY <1>9 DEF AppendedBy, LastDigit
  <2>3. AppendedBy(c) \in Seq(Char)
    BY <1>6, <1>7, <2>2, DigitFacts
  <2>4. \/ c = 48 /\ state' = "STR_DEC_0_0"
        \/ c = 49 /\ state' = "STR_DEC_0_1"
        \/ c = 50 /\ state' = "STR_DEC_0_2"
        \/ c = 120 /\ state' = "STR_HEX_1"
        \/ c \in DOMAIN Escapes /\ state' = "STR_INIT"
    BY <1>3, <1>9 DEF StrMove
  <2>5. Fits(EscapedBy(c), state')
    BY <2>1, <2>4, DigitFacts DEF Fits, Char, Digit
  <2> QED
    BY <1>5, <2>3, <2>5
<1>10. CASE state = "STR_HEX_1"
  <2>1. EscapedBy(c) = 16 * hex2dec(c) /\ AppendedBy(c) = <<>>
    BY <1>10 DEF EscapedBy, AppendedBy, LastDigit
  <2>2. \/ c = 48 /\ state' = "STR_HEX_3"
        \/ c \in Hex /\ state' = "STR_HEX_2"
    BY <1>3, <1>10 DEF StrMove
  <2>3. c \in Hex /\ hex2dec(c) \in 0..15 
    BY <2>2, DigitFacts DEF Hex, Digit
  <2>4. Fits(EscapedBy(c), state')
    <3>1. CASE c = 48 /\ state' = "STR_HEX_3"
      <4>1. hex2dec(c) = 0
        BY <3>1 DEF hex2dec
      <4>2. EscapedBy(c) = 0
        BY <2>1, <4>1
      <4> QED
        BY <3>1, <4>2 DEF Fits, Char
    <3>2. CASE state' = "STR_HEX_2"
      <4>1. EscapedBy(c) \in 0..240
        <5>1. PICK h : h \in 0..15 /\ h = hex2dec(c)
          BY <2>3
        <5>2. 16 * h \in 0..240
          BY <5>1
        <5> QED
          BY <2>1, <5>1, <5>2
      <4> QED
        BY <3>2, <4>1 DEF Fits, Char
    <3> QED
      BY <2>2, <3>1, <3>2
  <2> QED
    BY <1>5, <1>7, <2>1, <2>4
<1>11. CASE state \in {"STR_HEX_2", "STR_HEX_3"}
  <2>1. /\ EscapedBy(c) = escaped + hex2dec(c)
        /\ AppendedBy(c) = IF state = "STR_HEX_2" THEN <<EscapedBy(c)>> ELSE <<>>
    BY <1>11 DEF EscapedBy, AppendedBy, LastDigit
  <2>2. c \in Hex /\ state' = "STR_INIT"
    BY <1>3, <1>11 DEF StrMove
  <2>3. hex2dec(c) \in 0..15 /\ escaped <= 240
    BY <1>11, <2>2, DigitFacts DEF TypeInv, EscapesFit, Fits
  <2>4. EscapedBy(c) \in Char
    <3>1. PICK h : h \in 0..15 /\ h = hex2dec(c)
      BY <2>3
    <3>2. escaped + h \in 0..255
      <4>1. escaped \in Nat /\ escaped <= 240 /\ h \in Nat /\ h <= 15
        BY <1>3, <2>3, <3>1
      <4> QED
        BY ONLY <4>1
    <3> QED
      BY <2>1, <3>1, <3>2 DEF Char
  <2> QED
    BY <1>5, <1>6, <1>7, <2>1, <2>2, <2>4 DEF Fits
<1>12. CASE state \in {"STR_DEC_0_0", "STR_DEC_0_1", "STR_DEC_0_2"}
  <2>1. EscapedBy(c) = escaped + 10 * (c - 48) /\ AppendedBy(c) = <<>>
    BY <1>12 DEF EscapedBy, AppendedBy, LastDigit
  <2>2. \/ /\ state \in {"STR_DEC_0_0", "STR_DEC_0_1"} /\ c \in Digit
           /\ state' = "STR_DEC_1_1"
        \/ state = "STR_DEC_0_2" /\ c \in 48..52 /\ state' = "STR_DEC_1_1"
        \/ state = "STR_DEC_0_2" /\ c = 53 /\ state' = "STR_DEC_1_2"
    BY <1>3, <1>12 DEF StrMove
  <2>3. escaped = IF state = "STR_DEC_0_0" THEN 0
                  ELSE IF state = "STR_DEC_0_1" THEN 100 ELSE 200
    BY <1>12 DEF TypeInv, EscapesFit, Fits
  <2>4. Fits(EscapedBy(c), state')
    <3>1. CASE state' = "STR_DEC_1_1"
      <4>1. \/ c \in 48..57 /\ escaped <= 100
            \/ c \in 48..52 /\ escaped = 200
        <5>1. CASE state = "STR_DEC_0_2"
          BY <2>2, <2>3, <3>1, <5>1
        <5>2. CASE state # "STR_DEC_0_2"
          BY <1>12, <2>2, <2>3, <3>1, <5>2 DEF Digit
        <5> QED
          BY <5>1, <5>2
      <4>2. EscapedBy(c) \in 0..240
        BY <1>3, <2>1, <4>1
      <4> QED
        BY <3>1, <4>2 DEF Fits, Char
    <3>2. CASE state' = "STR_DEC_1_2"
      <4>1. EscapedBy(c) = 250
        BY <2>1, <2>2, <2>3, <3>2
      <4> QED
        BY <3>2, <4>1 DEF Fits, Char
    <3> QED
      BY <2>2, <3>1, <3>2
  <2> QED
    BY <1>5, <1>7, <2>1, <2>4
<1>13. CASE state \in LastDigit
  <2>1. EscapedBy(c) = escaped + (c - 48) /\ AppendedBy(c) = <<EscapedBy(c)>>
    BY <1>13 DEF EscapedBy, AppendedBy, LastDigit
  <2>2. /\ state' = "STR_INIT"
        /\ state = "STR_DEC_1_2" => c \in 48..53
        /\ state # "STR_DEC_1_2" => c \in Digit
    BY <1>3, <1>13 DEF StrMove, LastDigit, UpTo5
  <2>3. /\ state = "STR_DEC_1_2" => escaped = 250
        /\ state # "STR_DEC_1_2" => escaped <= 240
    BY <1>13 DEF TypeInv, EscapesFit, Fits, LastDigit
  <2>4. EscapedBy(c) \in Char
    BY <1>3, <2>1, <2>2, <2>3 DEF Char, Digit
  <2> QED
    BY <1>5, <1>6, <2>1, <2>2, <2>4 DEF Fits
<1> QED
  BY <1>3, <1>8, <1>9, <1>10, <1>11, <1>12, <1>13 DEF StrStateNames, LastDigit

(* Whatever strtod and strtoull make of a text, it is two numbers or one.  *)
LEMMA NumberAttributes ==
  \A text : Len(Strtod(text)) = 2 /\ Len(<<Strtoull(text)>>) = 1
<1> TAKE text
<1>1. \E m, e : Strtod(text) = <<m, e>>
  BY DEF Strtod
<1> QED
  BY <1>1

(* Away from lex_string any byte fits: the escape sequence is over.        *)
Elsewhere == {"CALL", "FREED", "INIT", "STR_INIT"} \union IdStates
             \union NumStates \union CommentStates

LEMMA FitsElsewhere ==
  ASSUME NEW e \in Char, NEW s \in Elsewhere
  PROVE  Fits(e, s)
<1>1. s \in {"CALL", "FREED", "INIT", "STR_INIT"} \union IdStates
            \union NumStateNames \union CommentStateNames
  BY NumMovesStay, CommentMovesStay DEF Elsewhere
<1>2. s \notin {"STR_HEX_1", "STR_HEX_2", "STR_HEX_3", "STR_DEC_0_0", "STR_DEC_0_1",
                "STR_DEC_0_2", "STR_DEC_1_0", "STR_DEC_1_1", "STR_DEC_1_2"}
  BY <1>1 DEF IdStates, NumStateNames, CommentStateNames
<1> QED
  BY <1>2 DEF Fits

(* A token whose attribute fits its type is delivered.                     *)
LEMMA ReturnTyped ==
  ASSUME TypeInv, OwnInv', NEW type, NEW attr, Return(type, attr),
         Token([type |-> type, attr |-> attr, at |-> start]), lines' \in Nat
  PROVE  TypeInv'
<1>1. /\ state' = "CALL" /\ escaped' = 0 /\ lexeme' = <<>>
      /\ tape' = tape /\ prev' = prev
      /\ curr' = [type |-> type, attr |-> attr, at |-> start]
      /\ error' = IF type = "DEAD" THEN "LEXICAL" ELSE error
      /\ end' = IF type = "DEAD" THEN end
                ELSE IF pos' > Len(tape) THEN Len(tape) ELSE pos'
  BY DEF Return
<1>2. EscapesFit'
  BY <1>1 DEF EscapesFit, Fits, Char
<1>3. end' \in Nat
  <2>1. pos' \in Nat
    BY DEF OwnInv, Positions
  <2> QED
    BY <1>1, <2>1, GetcFacts DEF TypeInv, Buffers
<1>4. Buffers'
  BY <1>1, <1>3 DEF TypeInv, Buffers
<1>5. Token(prev)' /\ Token(curr)'
  BY <1>1 DEF TypeInv, Token
<1> QED
  BY <1>2, <1>4, <1>5 DEF TypeInv

(* A step that delivers no token.                                          *)
LEMMA ReadingTyped ==
  ASSUME TypeInv, OwnInv', UNCHANGED reading, lexeme' \in Seq(Char),
         EscapesFit', lines' \in Nat
  PROVE  TypeInv'
<1>1. Buffers'
  BY DEF TypeInv, Buffers, reading
<1>2. Token(prev)' /\ Token(curr)'
  BY DEF TypeInv, Token, reading
<1> QED
  BY <1>1, <1>2 DEF TypeInv

(* The attribute of a token that is neither a name nor a literal.          *)
LEMMA PlainToken ==
  ASSUME TypeInv, NEW type \in Valueless
  PROVE  Token([type |-> type, attr |-> None, at |-> start])
<1>1. type \notin Valued
  <2>1. \A c \in DOMAIN SingleChar : SingleChar[c] \notin Valued
    BY DEF SingleChar, Valued
  <2> QED
    BY <2>1, KeywordsAssumption DEF Valued, Valueless
<1> QED
  BY <1>1 DEF TypeInv, OwnInv, Positions, Valued, Token

(***************************************************************************)
(* One lemma for each group of actions.                                    *)
(***************************************************************************)
LEMMA CallTyped ==
  ASSUME TypeInv, get_next_token \/ Free_scanner
  PROVE  TypeInv'
<1>1. OwnInv'
  BY CallPreserves DEF TypeInv
<1>2. /\ state' \in Elsewhere /\ prev' \in {prev, curr}
      /\ UNCHANGED <<tape, lexeme, escaped, lines, curr, error, end>>
  BY DEF get_next_token, Free_scanner, Elsewhere
<1>3. EscapesFit'
  BY <1>2, FitsElsewhere DEF TypeInv, EscapesFit, Fits
<1>4. Buffers'
  BY <1>2 DEF TypeInv, Buffers
<1>5. Token(prev)' /\ Token(curr)'
  BY <1>2 DEF TypeInv, Token
<1> QED
  BY <1>1, <1>3, <1>4, <1>5 DEF TypeInv

LEMMA PlainTyped ==
  ASSUME TypeInv,
         \/ single_char \/ minus \/ slash \/ dot \/ lex_relate_op
         \/ unrecognized \/ comment_unfinished
  PROVE  TypeInv'
<1>1. OwnInv'
  BY PlainPreserves, SkipPreserves DEF TypeInv
<1>2. \A c \in DOMAIN SingleChar : SingleChar[c] \in Valueless
  BY DEF SingleChar, Valueless
<1>3. \A c \in DOMAIN Relations, k \in 1..2 : Relations[c][k] \in Valueless
  BY DEF Relations, Valueless, GREATER, LESS, EQUALS, TILDE
<1>4. {"EOFILE", "SUB", "DIV_I", "DIV_F", "STRCAT", "DEAD"} \subseteq Valueless
  BY DEF Valueless
<1>5. \E type \in Valueless : Return(type, None)
  <2>1. CASE single_char
    BY <1>2, <1>4, <2>1 DEF single_char
  <2>2. CASE lex_relate_op
    BY <1>3, <2>2 DEF lex_relate_op
  <2>3. CASE minus \/ slash \/ dot \/ unrecognized \/ comment_unfinished
    BY <1>4, <2>3 DEF minus, slash, dot, unrecognized, comment_unfinished
  <2> QED
    BY <2>1, <2>2, <2>3
<1>6. lines' = lines
  BY DEF single_char, minus, slash, dot, lex_relate_op, unrecognized,
         comment_unfinished
<1> QED
  BY <1>1, <1>5, <1>6, PlainToken, ReturnTyped DEF TypeInv, Buffers

LEMMA SkipTyped ==
  ASSUME TypeInv,
         \/ blank \/ start_comment \/ process_comment \/ comment_over
         \/ start_identif \/ start_number \/ start_string
  PROVE  TypeInv'
<1>1. OwnInv'
  BY SkipPreserves, StartPreserves DEF TypeInv
<1>2. /\ UNCHANGED reading /\ lexeme' = lexeme /\ escaped' = escaped
      /\ lines' \in {lines, lines + 1}
  BY DEF blank, start_comment, process_comment, comment_over, start_identif,
         start_number, start_string, EnterAutomaton
<1>3. state' \in Elsewhere
  BY StatesDistinct, CommentMovesStay
     DEF blank, start_comment, process_comment, comment_over, start_identif,
         start_number, start_string, EnterAutomaton, Moves, Elsewhere, IdStates
<1>4. EscapesFit'
  BY <1>2, <1>3, FitsElsewhere DEF TypeInv, EscapesFit, Fits
<1>5. lexeme' \in Seq(Char) /\ lines' \in Nat
  BY <1>2 DEF TypeInv, Buffers
<1> QED
  BY <1>1, <1>2, <1>4, <1>5, ReadingTyped

(* Names, numbers and string literals grow by bytes.                       *)
LEMMA ReadTyped ==
  ASSUME TypeInv, lex_identif \/ lex_number \/ lex_string
  PROVE  TypeInv'
<1>1. OwnInv'
  BY ReadPreserves DEF TypeInv
<1>2. UNCHANGED <<reading, lines>> /\ lines \in Nat /\ lexeme \in Seq(Char)
  BY DEF lex_identif, lex_number, lex_string, TypeInv, Buffers
<1>3. CASE lex_string
  BY <1>1, <1>2, <1>3, StringByte, ReadingTyped
<1>4. CASE lex_identif \/ lex_number
  <2>1. PICK m \in IdMoves \union NumMoves :
          /\ Getc \in m[2] /\ state' = m[3]
          /\ lexeme' = Append(lexeme, Getc) /\ escaped' = escaped
    BY <1>4 DEF lex_identif, lex_number, Moves
  <2>2. state' \in Elsewhere
    <3>1. \A k \in IdMoves : k[3] \in IdStates
      BY DEF IdMoves, IdStates
    <3> QED
      BY <2>1, <3>1, NumMovesStay DEF Elsewhere
  <2>3. Getc \in Char
    <3>1. \A k \in IdMoves \union NumMoves : k[2] \subseteq Byte
      BY DEF IdMoves, NumMoves, IdStart, IdChar, Alpha, Digit, Nonzero, Exponent,
             DOT, PLUS, MINUS, UNDERSCORE, Byte
    <3>2. Getc \in Byte
      BY <2>1, <3>1
    <3> QED
      BY <3>2 DEF Byte, Char
  <2>4. EscapesFit'
    BY <2>1, <2>2, FitsElsewhere DEF TypeInv, EscapesFit, Fits
  <2>5. lexeme' \in Seq(Char)
    BY <1>2, <2>1, <2>3, AppendProperties
  <2> QED
    BY <1>1, <1>2, <2>4, <2>5, ReadingTyped
<1> QED
  BY <1>3, <1>4

(* The end of an automaton: a name, a keyword, a literal, or DEAD.         *)
LEMMA EndTyped ==
  ASSUME TypeInv, lex_identif_end \/ lex_number_end \/ lex_string_end
  PROVE  TypeInv'
<1>1. OwnInv'
  BY EndPreserves DEF TypeInv
<1>2. lines' \in Nat /\ lexeme \in Seq(Char) /\ start \in Int
  BY DEF lex_identif_end, lex_number_end, lex_string_end, TypeInv, Buffers,
         OwnInv, Positions
<1>3. /\ "DEAD" \in Valueless
      /\ \A w \in DOMAIN Keywords : Keywords[w] \in Valueless
  BY DEF Valueless
<1>4. \A type \in {"ID", "STR"} :
        Token([type |-> type, attr |-> lexeme, at |-> start])
  BY <1>2 DEF Token, Valued
<1>5. /\ Token([type |-> "NUM_I", attr |-> <<Strtoull(lexeme)>>, at |-> start])
      /\ Token([type |-> "NUM_F", attr |-> Strtod(lexeme), at |-> start])
  BY <1>2, NumberAttributes DEF Token, Valued
<1>6. \E type, attr : /\ Return(type, attr)
                      /\ Token([type |-> type, attr |-> attr, at |-> start])
  <2>1. CASE lex_identif_end
    BY <1>3, <1>4, <2>1, PlainToken DEF lex_identif_end
  <2>2. CASE lex_number_end
    BY <1>3, <1>5, <2>2, PlainToken DEF lex_number_end
  <2>3. CASE lex_string_end
    BY <1>3, <1>4, <2>3, PlainToken DEF lex_string_end
  <2> QED
    BY <2>1, <2>2, <2>3
<1> QED
  BY <1>1, <1>2, <1>6, ReturnTyped

LEMMA NextTyped ==
  ASSUME TypeInv, [Next]_vars
  PROVE  TypeInv'
<1>1. CASE UNCHANGED vars \/ Terminating
  <2>1. OwnInv'
    BY NextPreserves DEF TypeInv
  <2>2. UNCHANGED vars
    BY <1>1 DEF Terminating
  <2> QED
    BY <2>1, <2>2
       DEF vars, TypeInv, EscapesFit, Fits, Buffers, Token
<1>2. CASE Scan
  BY <1>2, PlainTyped, SkipTyped, ReadTyped, EndTyped DEF Scan
<1> QED
  BY <1>1, <1>2, CallTyped DEF Next

(* Whatever the source text, the keywords and the width of an integer: the *)
(* member of token_attribute that was written is the one the token's type  *)
(* tells a reader to read (scanner.h), escaped_char, a uint8_t, never has  *)
(* to wrap while the digits of an escape sequence are counted, and a       *)
(* string holds bytes only.                                                *)
THEOREM ScannerTypes == Spec => []TypeOK
<1>1. Init => TypeInv
  <2>1. Init => OwnInv
    BY StatesDistinct, StrMovesStay
       DEF Init, OwnInv, Positions, Idle, Busy, Owned, Zero, Scanning,
           StrStateNames
  <2>2. Init => EscapesFit /\ Buffers /\ Token(prev) /\ Token(curr)
    BY DEF Init, EscapesFit, Fits, Char, Buffers, Token, Zero,
       Valued, Valueless, None
  <2> QED
    BY <2>1, <2>2 DEF TypeInv
<1>2. TypeInv /\ [Next]_vars => TypeInv'
  BY NextTyped
<1>3. TypeInv => TypeOK
  <2> SUFFICES ASSUME TypeInv PROVE TypeOK
    OBVIOUS
  <2>1. pos \in Nat /\ start \in Nat /\ state \in {"CALL", "FREED"} \union Scanning
    BY DEF TypeInv, OwnInv, Positions
  <2>2. heap \subseteq Nat
    <3>1. heap \subseteq Owned(prev) \union Owned(curr) \union {start}
      BY <2>1 DEF TypeInv, OwnInv, Idle, Busy
    <3> QED
      BY <2>1, <3>1 DEF TypeInv, OwnInv, Positions
  <2> QED
    BY <2>1, <2>2
       DEF TypeInv, Buffers, EscapesFit, Fits, TypeOK, Scanning, Building, IdStates
<1> QED
  BY <1>1, <1>2, <1>3, PTL DEF Spec
===============================================================================
