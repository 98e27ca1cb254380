---------------------------- MODULE FrontendProofs ----------------------------
(***************************************************************************)
(* Proofs about the lexer and the token cursor of the parser, for every    *)
(* source, every set of words and whatever the grammar does.               *)
(***************************************************************************)
EXTENDS Frontend, SequenceTheorems, WellFoundedInduction, TLAPS

Zero == "\\0"

LEMMA ZeroIsNone ==
  /\ Zero \notin Blank /\ Zero \notin Digits /\ Zero \notin WordChars
  /\ Zero # "." /\ Zero # "*"
<1>1. Zero \notin Words \cup Keywords \cup Digits
  BY LexerAssumption, Zenon DEF Zero
<1>2. Zero # " " /\ Zero # "\r" /\ Zero # "_" /\ Zero # "." /\ Zero # "*"
  BY Zenon DEF Zero
<1> QED BY <1>1, <1>2, Zenon DEF Blank, WordChars

LEMMA LeastOf ==
  ASSUME NEW S, S \subseteq Nat, S # {}
  PROVE  Min(S) \in S /\ \A y \in S : Min(S) <= y
<1>1. PICK n \in S : \A m \in S : <<m, n>> \notin OpToRel(<, Nat)
  BY NatLessThanWellFounded, WFMin, Zenon
<1>2. \A m \in S : ~ (m < n)
  BY <1>1 DEF OpToRel
<1>3. \A m \in S : n =< m
  BY <1>2
<1>4. \E x \in S : \A y \in S : x =< y
  BY <1>3
<1> QED BY <1>4 DEF Min

LEMMA LeastBetween ==
  ASSUME NEW a \in Nat, NEW b \in Nat, NEW S, S \subseteq a .. b, S # {}
  PROVE  Min(S) \in S /\ Min(S) \in a .. b
<1>1. S \subseteq Nat
  OBVIOUS
<1>2. Min(S) \in S
  BY <1>1, LeastOf
<1> QED BY <1>2

(* The source of a behaviour, and the lengths that are known of it.        *)
Given == input \in Inputs

LEMMA SizeIsNat == Given => Size \in Nat
<1> SUFFICES ASSUME Given PROVE Size \in Nat
  OBVIOUS
<1>1. input.text \in Seq(STRING)
  BY LexerAssumption DEF Given
<1> QED BY <1>1 DEF Size, program_source

(* A scan over the characters of a kind ends at the zero of the source.    *)
LEMMA ScanEnds ==
  ASSUME Given, NEW k \in 0 .. Size, NEW S, Zero \notin S
  PROVE  /\ FirstOut(k, S) \in k .. Size /\ At(FirstOut(k, S)) \notin S
         /\ At(k) \in S => FirstOut(k, S) > k
<1> DEFINE J == {j \in k .. Size : At(j) \notin S}
<1>1. Size \in Nat
  BY SizeIsNat
<1>2. At(Size) = Zero
  BY <1>1 DEF At, Zero
<1>3. Size \in J /\ J \subseteq Nat
  BY <1>1, <1>2
<1>4. Min(J) \in J
  <2> HIDE DEF J
  <2> QED BY <1>3, LeastOf
<1> QED BY <1>1, <1>4 DEF FirstOut

(* A lexeme has a type the parser knows, never that of the end of the      *)
(* file; it ends at its beginning or later, and beyond the source at most  *)
(* by one.                                                                 *)
Fine(t, k) == t.type \in TokenTypes \ {"EOF"} /\ t.last \in k .. (Size + 1)

LEMMA TokenIsFine ==
  ASSUME NEW type \in TokenTypes \ {"EOF"}, NEW text, NEW k, NEW last \in k .. (Size + 1)
  PROVE  Fine(Token(type, text, last), k)
BY DEF Fine, Token

LEMMA NamedTypes ==
  /\ {"NEWLINE", "LINECOMMENT", "MULTICOMMENT", "BINOP", "STRINGLITERAL", "INTLITERAL", "FLOATLITERAL",
      "IDENTIFIER", "UNKNOWN", "ARROW", "INCREMENT", "DECREMENT"} \subseteq TokenTypes \ {"EOF"}
  /\ Single \subseteq TokenTypes \ {"EOF"}
  /\ Keywords \subseteq TokenTypes \ {"EOF"}
  /\ "EOF" \in TokenTypes /\ "EOF" \notin Comments
  /\ \A p \in Pairs : p[3] \in TokenTypes \ {"EOF"}
<1>1. "EOF" \notin Keywords
  BY LexerAssumption
<1>2. "EOF" \notin Single
  BY DEF Single
<1> QED BY <1>1, <1>2 DEF TokenTypes, Comments, Pairs

LEMMA OverrunIsFine ==
  ASSUME Given, NEW k \in 0 .. Size
  PROVE  Fine(Overrun, k)
<1>1. Size \in Nat /\ Size + 1 \in k .. (Size + 1)
  BY SizeIsNat
<1>2. "UNKNOWN" \in TokenTypes \ {"EOF"}
  BY NamedTypes
<1> QED BY <1>1, <1>2, TokenIsFine DEF Overrun

LEMMA WordIsFine ==
  ASSUME Given, NEW k \in 0 .. Size, At(k) \in Words \cup Keywords
  PROVE  Fine(Word(k), k)
<1> DEFINE end == FirstOut(k, WordChars)
<1>1. At(k) \in WordChars
  BY DEF WordChars
<1>2. end \in k .. Size /\ end > k /\ Size \in Nat
  BY <1>1, SizeIsNat, ScanEnds, ZeroIsNone
<1> HIDE DEF end
<1>3. \/ At(k) \in Keywords /\ Word(k) = Token(At(k), At(k), k)
      \/ \E text : Word(k) = Token("IDENTIFIER", text, end - 1)
  BY DEF Word, end
<1>4. CASE At(k) \in Keywords /\ Word(k) = Token(At(k), At(k), k)
  <2>1. k \in k .. (Size + 1) /\ At(k) \in TokenTypes \ {"EOF"}
    BY <1>2, <1>4, NamedTypes
  <2> QED BY <1>4, <2>1, TokenIsFine
<1>5. CASE \E text : Word(k) = Token("IDENTIFIER", text, end - 1)
  <2>1. end - 1 \in k .. (Size + 1) /\ "IDENTIFIER" \in TokenTypes \ {"EOF"}
    BY <1>2, NamedTypes
  <2> QED BY <1>5, <2>1, TokenIsFine
<1> QED BY <1>3, <1>4, <1>5

LEMMA NumberIsFine ==
  ASSUME Given, NEW k \in 0 .. Size, At(k) \in Digits
  PROVE  Fine(Number(k), k)
<1> DEFINE end == FirstOut(k, Digits)
           last == FirstOut(end + 1, Digits)
<1>1. end \in k .. Size /\ end > k /\ Size \in Nat
  BY SizeIsNat, ScanEnds, ZeroIsNone
<1> HIDE DEF end
<1>2. {"FLOATLITERAL", "INTLITERAL"} \subseteq TokenTypes \ {"EOF"}
  BY NamedTypes
<1>3. CASE At(end) = "."
  <2>1. end # Size
    <3>1. At(Size) = Zero
      BY <1>1 DEF At, Zero
    <3> QED BY <1>3, <3>1, ZeroIsNone
  <2>2. end + 1 \in 0 .. Size
    BY <1>1, <2>1
  <2>3. last \in end + 1 .. Size
    BY <2>2, ScanEnds, ZeroIsNone
  <2> HIDE DEF last
  <2>4. last - 1 \in k .. (Size + 1)
    BY <1>1, <2>2, <2>3
  <2>5. Number(k) = Token("FLOATLITERAL", "1", last - 1)
    BY <1>3 DEF Number, end, last
  <2> QED BY <1>2, <2>4, <2>5, TokenIsFine
<1>4. CASE At(end) # "."
  <2>1. end - 1 \in k .. (Size + 1)
    BY <1>1
  <2>2. Number(k) = Token("INTLITERAL", "1", end - 1)
    BY <1>4 DEF Number, end
  <2> QED BY <1>2, <2>1, <2>2, TokenIsFine
<1> QED BY <1>3, <1>4

LEMMA FoundBetween ==
  ASSUME NEW k, NEW S
  PROVE  FirstIn(k, S) \subseteq k .. Size
BY DEF FirstIn

LEMMA CommentsAreFine ==
  ASSUME Given, NEW k \in 0 .. Size
  PROVE  Fine(LineComment(k), k) /\ Fine(MultiComment(k), k) /\ Fine(StringLiteral(k), k)
<1>1. Size \in Nat /\ k \in Nat /\ Fine(Overrun, k)
  BY SizeIsNat, OverrunIsFine
<1>2. {"LINECOMMENT", "MULTICOMMENT", "STRINGLITERAL"} \subseteq TokenTypes \ {"EOF"}
  BY NamedTypes
<1>3. Fine(LineComment(k), k)
  <2> DEFINE ends == FirstIn(k, {"\n"})
  <2>1. ends \subseteq k .. Size
    BY DEF FirstIn
  <2> HIDE DEF ends
  <2>2. LineComment(k) = IF ends = {} THEN Overrun ELSE Token("LINECOMMENT", "/", Min(ends))
    BY Zenon DEF LineComment, ends
  <2>3. CASE ends # {}
    <3>1. Min(ends) \in k .. Size
      BY <1>1, <2>1, <2>3, LeastBetween
    <3>2. Min(ends) \in k .. (Size + 1)
      BY <1>1, <3>1
    <3> QED BY <1>2, <2>2, <2>3, <3>2, TokenIsFine
  <2> QED BY <1>1, <2>2, <2>3
<1>4. Fine(MultiComment(k), k)
  <2> DEFINE ends == {j \in (k + 2)..Size : At(j) = "*" /\ At(j + 1) = "/"}
  <2>1. ends \subseteq k .. Size
    BY <1>1
  <2>2. MultiComment(k) = IF ends = {} THEN Overrun ELSE Token("MULTICOMMENT", "", Min(ends) + 1)
    BY DEF MultiComment
  <2> HIDE DEF ends
  <2>3. CASE ends # {}
    <3>1. Min(ends) \in k .. Size
      BY <1>1, <2>1, <2>3, LeastBetween
    <3>2. Min(ends) + 1 \in k .. (Size + 1)
      BY <1>1, <3>1
    <3> QED BY <1>2, <2>2, <2>3, <3>2, TokenIsFine
  <2> QED BY <1>1, <2>2, <2>3
<1>5. Fine(StringLiteral(k), k)
  <2> DEFINE ends == FirstIn(k + 1, {"\""})
  <2>1. ends \subseteq k + 1 .. Size
    BY FoundBetween, Zenon
  <2> HIDE DEF ends
  <2>2. ends \subseteq k .. Size
    BY <1>1, <2>1
  <2>3. StringLiteral(k) = IF ends = {} THEN Overrun ELSE Token("STRINGLITERAL", "s", Min(ends))
    BY Zenon DEF StringLiteral, ends
  <2>4. CASE ends # {}
    <3>1. Min(ends) \in k .. Size
      BY <1>1, <2>2, <2>4, LeastBetween
    <3>2. Min(ends) \in k .. (Size + 1)
      BY <1>1, <3>1
    <3> QED BY <1>2, <2>3, <2>4, <3>2, TokenIsFine
  <2> QED BY <1>1, <2>3, <2>4
<1> QED BY <1>3, <1>4, <1>5

LEMMA PairIsFine ==
  ASSUME Given, NEW k \in 0 .. Size, NEW p \in Pairs, p[1] = At(k), p[2] = At(k + 1), NEW text
  PROVE  Fine(Token(p[3], text, k + 1), k)
<1>1. Size \in Nat
  BY SizeIsNat
<1>2. k + 1 \in k .. (Size + 1)
  BY <1>1
<1> QED BY <1>2, NamedTypes, TokenIsFine

LEMMA LexemeIsFine ==
  ASSUME Given, NEW k \in 0 .. Size
  PROVE  Fine(Lexeme(k), k)
<1> DEFINE pair == {p \in Pairs : p[1] = At(k) /\ p[2] = At(k + 1)}
           p == CHOOSE p \in pair : TRUE
<1>1. Size \in Nat /\ k \in k .. (Size + 1)
  BY SizeIsNat
<1>2. Fine(Token("NEWLINE", "\n", k), k) /\ Fine(Token("BINOP", At(k), k), k) /\ Fine(Token("UNKNOWN", "", k), k)
  BY <1>1, NamedTypes, TokenIsFine
<1>3. At(k) \in Single => Fine(Token(At(k), At(k), k), k)
  BY <1>1, NamedTypes, TokenIsFine
<1>4. pair # {} => Fine(Token(p[3], p[1] \o p[2], k + 1), k)
  <2> SUFFICES ASSUME pair # {} PROVE Fine(Token(p[3], p[1] \o p[2], k + 1), k)
    OBVIOUS
  <2>1. p \in pair
    BY Zenon
  <2>2. p \in Pairs /\ p[1] = At(k) /\ p[2] = At(k + 1)
    BY <2>1
  <2> HIDE DEF p
  <2> QED BY <2>2, PairIsFine
<1>5. At(k) \in Digits => Fine(Number(k), k)
  BY NumberIsFine
<1>6. At(k) \in Words \cup Keywords => Fine(Word(k), k)
  BY WordIsFine
<1>7. Fine(LineComment(k), k) /\ Fine(MultiComment(k), k) /\ Fine(StringLiteral(k), k)
  BY CommentsAreFine
<1>8. Lexeme(k) =
        CASE At(k) = "\n" -> Token("NEWLINE", "\n", k)
          [] At(k) = "/" /\ At(k + 1) = "/" -> LineComment(k)
          [] At(k) = "/" /\ At(k + 1) = "*" -> MultiComment(k)
          [] At(k) \in Single -> Token(At(k), At(k), k)
          [] pair # {} -> Token(p[3], p[1] \o p[2], k + 1)
          [] At(k) \in Binary /\ pair = {} -> Token("BINOP", At(k), k)
          [] At(k) = "\"" -> StringLiteral(k)
          [] At(k) \in Digits -> Number(k)
          [] At(k) \in Words \cup Keywords -> Word(k)
          [] OTHER -> Token("UNKNOWN", "", k)
  BY Zenon DEF Lexeme
<1> HIDE DEF pair, p
<1> QED BY <1>2, <1>3, <1>4, <1>5, <1>6, <1>7, <1>8, Zenon

-----------------------------------------------------------------------------
(* The invariant: what TypeOK and CursorInTokens say, and that no token    *)
(* before the end of the source has the type of the end of the file.       *)

NoEnd == \A n \in DOMAIN tokens : tokens[n].type # "EOF"
Ended == tokens # <<>> /\ \A n \in DOMAIN tokens : tokens[n].type = "EOF" <=> n = Len(tokens)
IsSequence(s) == \E S : s \in Seq(S)

IInv ==
  /\ Given
  /\ TypeOK
  /\ IsSequence(tokens)
  /\ CursorInTokens
  /\ lexer = "lexing" => NoEnd
  /\ lexer = "lexed" => Ended \/ (tokens = <<>> /\ program_source = <<>>)
  /\ program_source = <<>> => tokens = <<>>

LEMMA Appended ==
  ASSUME NEW s, IsSequence(s), NEW e
  PROVE  /\ IsSequence(Append(s, e)) /\ Len(Append(s, e)) = Len(s) + 1 /\ Len(s) \in Nat
         /\ DOMAIN s = 1 .. Len(s) /\ DOMAIN Append(s, e) = 1 .. Len(s) + 1
         /\ Append(s, e)[Len(s) + 1] = e
         /\ \A n \in 1 .. Len(s) : Append(s, e)[n] = s[n]
<1>1. PICK S : s \in Seq(S)
  BY DEF IsSequence
<1> DEFINE T == S \cup {e}
<1>2. s \in Seq(T) /\ e \in T
  BY <1>1, SeqMonotonic
<1> HIDE DEF T
<1>3. Append(s, e) \in Seq(T)
  BY <1>2, AppendProperties
<1> QED BY <1>2, <1>3, AppendProperties DEF IsSequence

LEMMA TokensKnown ==
  ASSUME IInv
  PROVE  Len(tokens) \in Nat /\ DOMAIN tokens = 1 .. Len(tokens)
BY DEF IInv, IsSequence

(* While the lexer is at work, the parser waits.                           *)
LEMMA TokenAdded ==
  ASSUME IInv, lexer = "lexing", NEW e, e.type \in TokenTypes, tokens' = Append(tokens, e),
         UNCHANGED <<input, parseVars>>, i' \in -1 .. (Size + 1), lexer' \in {"lexing", "lexed", "overrun"},
         lexer' = "lexed" => Ended', lexer' = "lexing" => NoEnd', program_source # <<>>
  PROVE  IInv'
<1>1. /\ IsSequence(tokens') /\ Len(tokens') = Len(tokens) + 1 /\ Len(tokens) \in Nat
      /\ DOMAIN tokens = 1 .. Len(tokens) /\ DOMAIN tokens' = 1 .. Len(tokens) + 1
      /\ tokens'[Len(tokens) + 1] = e
      /\ \A n \in 1 .. Len(tokens) : tokens'[n] = tokens[n]
  BY Appended DEF IInv
<1>2. /\ pos' = pos /\ Tok' = Tok /\ outcome' = outcome /\ input' = input /\ Size' = Size
      /\ outcome = "idle"
  BY DEF parseVars, Size, program_source, IInv, CursorInTokens
<1>3. TypeOK'
  <2>1. \A n \in DOMAIN tokens' : tokens'[n].type \in TokenTypes
    <3> SUFFICES ASSUME NEW n \in 1 .. Len(tokens) + 1 PROVE tokens'[n].type \in TokenTypes
      BY <1>1
    <3>1. CASE n = Len(tokens) + 1
      BY <1>1, <3>1
    <3>2. CASE n # Len(tokens) + 1
      <4>1. n \in 1 .. Len(tokens) /\ n \in DOMAIN tokens
        BY <1>1, <3>2
      <4> QED BY <1>1, <4>1 DEF IInv, TypeOK
    <3> QED BY <3>1, <3>2
  <2>2. pos \in 0 .. Len(tokens) /\ outcome \in {"idle", "parsing", "done", "failed", "threw", "overrun"}
    BY DEF IInv, TypeOK
  <2>3. pos' \in 0 .. Len(tokens')
    BY <1>1, <1>2, <2>2
  <2> QED BY <1>2, <2>1, <2>2, <2>3 DEF TypeOK
<1>4. CursorInTokens'
  <2>1. \/ pos \in 1 .. Len(tokens) /\ Tok = tokens[pos]
        \/ pos = 0 /\ Tok = NoToken
    BY DEF IInv, CursorInTokens
  <2>2. \/ pos' \in 1 .. Len(tokens') /\ Tok' = tokens'[pos']
        \/ pos' = 0 /\ Tok' = NoToken
    BY <1>1, <1>2, <2>1
  <2> QED BY <1>2, <2>2 DEF CursorInTokens
<1> QED BY <1>1, <1>2, <1>3, <1>4 DEF IInv, Given, program_source

LEMMA getTokenKeeps ==
  ASSUME IInv, getToken, UNCHANGED parseVars
  PROVE  IInv'
<1> DEFINE k == FirstOut(i + 1, Blank)
           t == Lexeme(k)
           e == [type |-> t.type, text |-> t.text]
<1>1. /\ lexer = "lexing" /\ i < Size - 1 /\ tokens' = Append(tokens, e) /\ i' = t.last
      /\ lexer' = (IF t.last > Size THEN "overrun" ELSE lexer) /\ input' = input
  BY DEF getToken
<1>2. Given /\ Size \in Nat /\ i \in -1 .. (Size + 1)
  BY SizeIsNat DEF IInv, TypeOK
<1>3. i + 1 \in 0 .. Size
  BY <1>1, <1>2
<1>4. k \in 0 .. Size
  <2>1. k \in i + 1 .. Size
    BY <1>2, <1>3, ZeroIsNone, ScanEnds
  <2> HIDE DEF k
  <2> QED BY <1>3, <2>1
<1> HIDE DEF k
<1>5. t.type \in TokenTypes /\ t.type # "EOF" /\ t.last \in k .. (Size + 1)
  BY <1>2, <1>4, LexemeIsFine DEF Fine
<1> HIDE DEF t
<1>6. i' \in -1 .. (Size + 1) /\ lexer' \in {"lexing", "overrun"}
  BY <1>1, <1>2, <1>4, <1>5
<1>7. e.type = t.type
  OBVIOUS
<1> HIDE DEF e
<1>8. NoEnd'
  <2>1. /\ Len(tokens) \in Nat /\ DOMAIN tokens = 1 .. Len(tokens) /\ DOMAIN tokens' = 1 .. Len(tokens) + 1
        /\ tokens'[Len(tokens) + 1] = e
        /\ \A n \in 1 .. Len(tokens) : tokens'[n] = tokens[n]
    BY <1>1, Appended DEF IInv
  <2>2. \A n \in 1 .. Len(tokens) : tokens[n].type # "EOF"
    BY <1>1, <2>1 DEF IInv, NoEnd
  <2>3. \A n \in 1 .. Len(tokens) + 1 : tokens'[n].type # "EOF"
    BY <1>5, <1>7, <2>1, <2>2
  <2> QED BY <2>1, <2>3 DEF NoEnd
<1>9. program_source # <<>>
  BY <1>1, <1>2, EmptySeq DEF Size
<1> QED BY <1>1, <1>5, <1>6, <1>7, <1>8, <1>9, TokenAdded

(* An empty source is left as it is.                                       *)
LEMMA NothingAdded ==
  ASSUME IInv, EndOfSource, UNCHANGED parseVars, program_source = <<>>
  PROVE  IInv'
<1>1. /\ lexer = "lexing" /\ lexer' = "lexed" /\ tokens' = tokens
      /\ UNCHANGED <<input, i, pos, Tok, todo, nodes, outcome>>
  BY DEF EndOfSource, parseVars
<1>2. tokens = <<>>
  BY <1>1 DEF IInv
<1> QED BY <1>1, <1>2 DEF IInv, Given, TypeOK, CursorInTokens, Size, program_source

LEMMA EndOfSourceKeeps ==
  ASSUME IInv, EndOfSource, UNCHANGED parseVars, program_source # <<>>
  PROVE  IInv'
<1> DEFINE e == [type |-> "EOF", text |-> "EOF"]
<1>1. lexer = "lexing" /\ tokens' = Append(tokens, e) /\ lexer' = "lexed" /\ UNCHANGED <<input, i>>
  BY DEF EndOfSource
<1>2. e.type = "EOF" /\ e.type \in TokenTypes
  BY NamedTypes
<1> HIDE DEF e
<1>3. i' \in -1 .. (Size + 1)
  BY <1>1 DEF IInv, TypeOK
<1>4. Ended'
  <2>1. /\ Len(tokens) \in Nat /\ DOMAIN tokens = 1 .. Len(tokens) /\ DOMAIN tokens' = 1 .. Len(tokens) + 1
        /\ tokens'[Len(tokens) + 1] = e /\ Len(tokens') = Len(tokens) + 1
        /\ \A n \in 1 .. Len(tokens) : tokens'[n] = tokens[n]
    BY <1>1, Appended DEF IInv
  <2>2. \A n \in 1 .. Len(tokens) : tokens[n].type # "EOF"
    BY <1>1, <2>1 DEF IInv, NoEnd
  <2>3. \A n \in 1 .. Len(tokens) + 1 : tokens'[n].type = "EOF" <=> n = Len(tokens) + 1
    BY <1>2, <2>1, <2>2
  <2>4. tokens' # <<>>
    <3>1. Len(tokens') # 0
      BY <2>1
    <3> QED BY <3>1, EmptySeq
  <2> QED BY <2>1, <2>3, <2>4 DEF Ended
<1> QED BY <1>1, <1>2, <1>3, <1>4, TokenAdded

-----------------------------------------------------------------------------
(* The parser.  Whatever step is at hand, the cursor either stays or takes *)
(* the next token that is not a comment, and there is one.                 *)

LEMMA ParserKeeps ==
  ASSUME IInv, lexer = "lexed", Ended, UNCHANGED lexVars,
         outcome' \in {"idle", "parsing", "done", "failed", "threw", "overrun"},
         UNCHANGED <<pos, Tok>> \/ Fetch,
         outcome' = "overrun" => outcome = "overrun" \/ pos' = Len(tokens)
  PROVE  IInv'
<1>1. Len(tokens) \in Nat /\ DOMAIN tokens = 1 .. Len(tokens)
  BY TokensKnown
<1>2. input' = input /\ i' = i /\ tokens' = tokens /\ lexer' = lexer /\ Size' = Size
  BY DEF lexVars, Size, program_source
<1>3. tokens # <<>> /\ \A n \in DOMAIN tokens : tokens[n].type = "EOF" <=> n = Len(tokens)
  BY DEF Ended
<1>4. \/ pos \in 1 .. Len(tokens) /\ Tok = tokens[pos]
      \/ pos = 0 /\ Tok = NoToken
  BY DEF IInv, CursorInTokens
<1>5. /\ \/ pos' \in 1 .. Len(tokens) /\ Tok' = tokens[pos']
         \/ pos' = 0 /\ Tok' = NoToken
      /\ UNCHANGED <<pos, Tok>> \/ pos' # 0
  <2>1. CASE UNCHANGED <<pos, Tok>>
    BY <1>4, <2>1
  <2>2. CASE Fetch /\ Tok.type # "EOF"
    <3> DEFINE Q == {q \in (pos + 1) .. Len(tokens) : tokens[q].type \notin Comments}
               p == Min(Q)
    <3>1. pos' = p /\ Tok' = tokens[p]
      BY <2>2 DEF Fetch
    <3>2. pos \in Nat /\ pos < Len(tokens)
      <4>1. CASE pos \in 1 .. Len(tokens) /\ Tok = tokens[pos]
        <5>1. pos # Len(tokens)
          BY <1>1, <1>3, <2>2, <4>1
        <5>2. pos \in 1 .. Len(tokens) /\ Len(tokens) \in Nat
          BY <1>1, <4>1
        <5> QED BY <5>1, <5>2, SMTT(20)
      <4>2. CASE pos = 0
        <5>1. Len(tokens) # 0
          <6>1. IsSequence(tokens)
            BY DEF IInv
          <6> QED BY <1>3, <6>1, EmptySeq DEF IsSequence
        <5> QED BY <1>1, <4>2, <5>1
      <4> QED BY <1>4, <4>1, <4>2
    <3>3. Len(tokens) \in Q
      <4>1. Len(tokens) \in (pos + 1) .. Len(tokens) /\ Len(tokens) \in DOMAIN tokens
        BY <1>1, <3>2
      <4>2. tokens[Len(tokens)].type = "EOF"
        BY <1>3, <4>1
      <4> QED BY <4>1, <4>2, NamedTypes
    <3>4. Q \subseteq 1 .. Len(tokens)
      BY <1>1, <3>2
    <3>5. p \in 1 .. Len(tokens)
      <4> HIDE DEF Q
      <4> QED BY <1>1, <3>3, <3>4, LeastBetween
    <3> QED BY <3>1, <3>5
  <2>3. CASE Fetch /\ Tok.type = "EOF"
    BY <1>4, <2>3 DEF Fetch
  <2> QED BY <2>1, <2>2, <2>3
<1>6. TypeOK'
  <2>1. pos' \in 0 .. Len(tokens')
    BY <1>1, <1>2, <1>5
  <2> QED BY <1>2, <2>1 DEF IInv, TypeOK
<1>7. ~ (outcome' = "overrun" /\ pos' = 0 /\ ~ (input.document /\ program_source = <<>>))
  <2>1. CASE outcome = "overrun"
    <3> QED BY <1>5, <2>1 DEF IInv, CursorInTokens
  <2>2. CASE outcome' = "overrun" => pos' = Len(tokens)
    <3>1. Len(tokens) # 0
      BY <1>3, EmptySeq DEF IInv, IsSequence
    <3> QED BY <2>2, <3>1
  <2> QED BY <2>1, <2>2
<1>8. CursorInTokens'
  BY <1>2, <1>3, <1>5, <1>7 DEF CursorInTokens, program_source
<1> QED BY <1>2, <1>3, <1>6, <1>8 DEF IInv, Given, Ended, program_source

LEMMA ParseStepKeeps ==
  ASSUME IInv, parse \/ ParseStep
  PROVE  IInv'
<1>1. lexer = "lexed"
  BY DEF IInv, CursorInTokens, parse, Begin, ParseStep, getNextToken, skipNewlines, EXPECT, Throw, Fail,
         Enter, Decide, Overreach, Repeat, Build, Finish, Step, KeepsCursor
<1>2. UNCHANGED lexVars
  BY DEF parse, Begin, ParseStep, getNextToken, skipNewlines, EXPECT, Throw, Fail,
         Enter, Decide, Overreach, Repeat, Build, Finish, KeepsCursor
<1>3. UNCHANGED <<pos, Tok>> \/ Fetch
  BY DEF parse, Begin, ParseStep, getNextToken, skipNewlines, EXPECT, Throw, Fail,
         Enter, Decide, Overreach, Repeat, Build, Finish, KeepsCursor
<1>4. outcome' \in {"parsing", "done", "failed", "threw", "overrun"} \/ outcome' = outcome
  BY DEF parse, Begin, ParseStep, getNextToken, skipNewlines, EXPECT, Throw, Fail,
         Enter, Decide, Overreach, Repeat, Build, Finish, KeepsCursor
<1>5. outcome \in {"idle", "parsing", "done", "failed", "threw", "overrun"}
  BY DEF IInv, TypeOK
<1>6. Ended
  <2>1. outcome = "parsing" \/ tokens # <<>>
    BY DEF parse, Begin, ParseStep, getNextToken, skipNewlines, EXPECT, Throw, Fail,
           Enter, Decide, Overreach, Repeat, Build, Finish, Step, KeepsCursor
  <2> QED BY <1>1, <2>1 DEF IInv, CursorInTokens, Ended
<1>7. outcome' = "overrun" => outcome = "overrun" \/ pos' = Len(tokens)
  BY DEF parse, Begin, ParseStep, getNextToken, skipNewlines, EXPECT, Throw, Fail,
         Enter, Decide, Overreach, PeeksBeyond, Repeat, Build, Finish, KeepsCursor
<1> QED BY <1>1, <1>2, <1>3, <1>4, <1>5, <1>6, <1>7, ParserKeeps

(* Without tokens the cursor stays where it was.                           *)
LEMMA parseNothingKeeps ==
  ASSUME IInv, parseNothing
  PROVE  IInv'
<1>1. /\ lexer = "lexed" /\ tokens = <<>> /\ UNCHANGED <<input, i, tokens, lexer, pos, Tok>>
      /\ outcome' = IF input.document THEN "overrun" ELSE "failed"
  BY DEF parseNothing, lexVars
<1>2. program_source = <<>>
  BY <1>1 DEF IInv, Ended
<1> QED BY <1>1, <1>2 DEF IInv, Given, TypeOK, CursorInTokens, Ended, Size, program_source

LEMMA Starts == Init => IInv
<1> SUFFICES ASSUME Init PROVE IInv
  OBVIOUS
<1>1. Given
  BY DEF Init, LexInit, Given
<1>2. Size \in Nat
  BY <1>1, SizeIsNat
<1>3. IsSequence(tokens) /\ Len(tokens) = 0 /\ DOMAIN tokens = {}
  BY EmptySeq DEF Init, LexInit, IsSequence
<1>4. TypeOK
  BY <1>2, <1>3 DEF Init, LexInit, ParseInit, TypeOK
<1>5. CursorInTokens
  BY DEF Init, LexInit, ParseInit, CursorInTokens
<1>6. NoEnd
  BY <1>3 DEF NoEnd
<1>7. lexer = "lexing" /\ tokens = <<>>
  BY DEF Init, LexInit
<1> QED BY <1>1, <1>3, <1>4, <1>5, <1>6, <1>7 DEF IInv

LEMMA Proceeds == IInv /\ [Next]_vars => IInv'
<1> SUFFICES ASSUME IInv, [Next]_vars PROVE IInv'
  OBVIOUS
<1>1. CASE getToken /\ UNCHANGED parseVars
  BY <1>1, getTokenKeeps
<1>2. CASE EndOfSource /\ UNCHANGED parseVars
  BY <1>2, EndOfSourceKeeps, NothingAdded
<1>3. CASE parse \/ ParseStep
  BY <1>3, ParseStepKeeps
<1>4. CASE parseNothing
  BY <1>4, parseNothingKeeps
<1>5. CASE UNCHANGED vars
  BY <1>5 DEF vars, lexVars, parseVars, IInv, Given, TypeOK, Size, program_source, CursorInTokens, NoEnd, Ended
<1> QED BY <1>1, <1>2, <1>3, <1>4, <1>5 DEF Next, LexNext

LEMMA Invariance == Spec => []IInv
BY Starts, Proceeds, PTL DEF Spec

(* Type correctness: every token has a type the parser knows, and the      *)
(* lexer reads one character beyond the zero of the source at most.        *)
THEOREM TypeCorrect == Spec => []TypeOK
<1>1. IInv => TypeOK
  BY DEF IInv
<1> QED BY <1>1, Invariance, PTL

(* The cursor never leaves the vector of tokens, for any source but an     *)
(* empty document and any grammar over the parser's steps: the end of the  *)
(* file is the last token and the only one of its type, and Fetch does not *)
(* go past it.                                                             *)
THEOREM CursorStaysInTokens == Spec => []CursorInTokens
<1>1. IInv => CursorInTokens
  BY DEF IInv
<1> QED BY <1>1, Invariance, PTL
===============================================================================
