-------------------------------- MODULE Lexer --------------------------------
(***************************************************************************)
(* RzTokenParser: tokenize calls getToken until the end of the source.     *)
(* A source is a sequence of characters; a run of letters that is a word   *)
(* of the source (a name, a keyword) counts as one character.  Indices     *)
(* into the source are those of the code, from 0; reading the character    *)
(* after the last one gives the terminating zero of std::string, reading   *)
(* beyond that is undefined: the lexer stops with lexer = "overrun".       *)
(***************************************************************************)
EXTENDS SequencesExt

CONSTANTS
  Words,      (* words that are names                                      *)
  Keywords,   (* words that are keywords; the token has the word's type    *)
  Digits,     (* characters that isdigit accepts                           *)
  Inputs      (* the sources: text, the characters; document, data or a   *)
              (* unit; regular, laid out as the samples of the repository  *)
              (* are; tree, what a regular source says                     *)

Blank  == {" ", "\r"}                       (* isspace, without the newline *)
Single == {"(", ")", ":", ".", "[", "]", ",", "~", "{", "}", ";", "@", "#"}
Binary == {">", "<", "+", "-", "*", "/", "^", "=", "%"}

(* The operators of two characters, and their types.                       *)
Pairs == { <<"-", ">", "ARROW">>,  <<"=", ">", "ARROW">>,
           <<"+", "+", "INCREMENT">>, <<"-", "-", "DECREMENT">>,
           <<"|", "|", "BINOP">>, <<"&", "&", "BINOP">>,
           <<">", "=", "BINOP">>, <<"<", "=", "BINOP">> }

Comments == {"LINECOMMENT", "MULTICOMMENT"}

TokenTypes == Single \cup Keywords \cup Comments \cup
  {"NEWLINE", "ARROW", "INCREMENT", "DECREMENT", "BINOP", "STRINGLITERAL",
   "INTLITERAL", "FLOATLITERAL", "IDENTIFIER", "UNKNOWN", "EOF"}

ASSUME LexerAssumption ==
  /\ Words \cap Keywords = {}
  /\ (Words \cup Keywords) \cap (Blank \cup Single \cup Binary) = {}
  /\ Digits \cap (Words \cup Keywords \cup Blank \cup Single \cup Binary) = {}
  /\ "EOF" \notin Keywords
  /\ "\\0" \notin Words \cup Keywords \cup Digits
  /\ \A source \in Inputs : source.text \in Seq(STRING)

VARIABLES
  input,           (* the source that is read                              *)
  i,               (* the index of the last character read, -1 at first    *)
  tokens,          (* the tokens so far, [type, text]                      *)
  lexer            (* "lexing", "lexed" or "overrun"                       *)

lexVars == <<input, i, tokens, lexer>>

program_source == input.text
Size == Len(program_source)
At(k) == IF k < Size THEN program_source[k + 1] ELSE "\\0"

(* The indices from k on whose character is in S; the first not in S.     *)
FirstIn(k, S) == {j \in k..Size : At(j) \in S}
FirstOut(k, S) == Min({j \in k..Size : At(j) \notin S})

Token(type, text, last) == [type |-> type, text |-> text, last |-> last]
Overrun == Token("UNKNOWN", "", Size + 1)

(* A run of names, digits and underscores is a name; a keyword alone is    *)
(* the keyword.                                                            *)
WordChars == Words \cup Keywords \cup Digits \cup {"_"}

Word(k) ==
  LET end == FirstOut(k, WordChars)
      run == [j \in 1..(end - k) |-> At(k + j - 1)]
  IN IF end = k + 1 /\ At(k) \in Keywords
     THEN Token(At(k), At(k), k)
     ELSE Token("IDENTIFIER", FoldLeft(LAMBDA x, y : x \o y, "", run), end - 1)

(* Digits, and after a dot more digits, none of which need be there.       *)
Number(k) ==
  LET end == FirstOut(k, Digits)
  IN IF At(end) = "." THEN Token("FLOATLITERAL", "1", FirstOut(end + 1, Digits) - 1)
     ELSE Token("INTLITERAL", "1", end - 1)

(* A comment to the end of the line takes the newline with it.             *)
LineComment(k) ==
  LET ends == FirstIn(k, {"\n"})
  IN IF ends = {} THEN Overrun ELSE Token("LINECOMMENT", "/", Min(ends))

MultiComment(k) ==
  LET ends == {j \in (k + 2)..Size : At(j) = "*" /\ At(j + 1) = "/"}
  IN IF ends = {} THEN Overrun ELSE Token("MULTICOMMENT", "", Min(ends) + 1)

StringLiteral(k) ==
  LET ends == FirstIn(k + 1, {"\""})
  IN IF ends = {} THEN Overrun ELSE Token("STRINGLITERAL", "s", Min(ends))

(* What getToken makes of the first character that is not blank.           *)
Lexeme(k) ==
  LET pair == {p \in Pairs : p[1] = At(k) /\ p[2] = At(k + 1)} IN
  CASE At(k) = "\n" -> Token("NEWLINE", "\n", k)
    [] At(k) = "/" /\ At(k + 1) = "/" -> LineComment(k)
    [] At(k) = "/" /\ At(k + 1) = "*" -> MultiComment(k)
    [] At(k) \in Single -> Token(At(k), At(k), k)
    [] pair # {} -> LET p == CHOOSE p \in pair : TRUE
                    IN Token(p[3], p[1] \o p[2], k + 1)
    [] At(k) \in Binary /\ pair = {} -> Token("BINOP", At(k), k)
    [] At(k) = "\"" -> StringLiteral(k)
    [] At(k) \in Digits -> Number(k)
    [] At(k) \in Words \cup Keywords -> Word(k)
    [] OTHER -> Token("UNKNOWN", "", k)

LexInit ==
  /\ input \in Inputs
  /\ i = -1
  /\ tokens = <<>>
  /\ lexer = "lexing"

(* getToken, with the loop of tokenize around it: blanks are skipped, the  *)
(* end of a source is a token of its own.                                  *)
getToken ==
  /\ lexer = "lexing" /\ i < Size - 1
  /\ LET k == FirstOut(i + 1, Blank)
         t == Lexeme(k)
     IN /\ tokens' = Append(tokens, [type |-> t.type, text |-> t.text])
        /\ i' = t.last
        /\ lexer' = IF t.last > Size THEN "overrun" ELSE lexer
  /\ UNCHANGED input

(* A plausible slip: the last token is taken for the end of the source.    *)
EndOfSource_NoToken ==
  /\ lexer = "lexing" /\ i >= Size - 1
  /\ lexer' = "lexed"
  /\ UNCHANGED <<input, i, tokens>>

(* tokenize returns at once from an empty source, which has no tokens.     *)
EndOfSource ==
  /\ lexer = "lexing" /\ i >= Size - 1
  /\ tokens' = IF program_source = <<>> THEN tokens
               ELSE Append(tokens, [type |-> "EOF", text |-> "EOF"])
  /\ lexer' = "lexed"
  /\ UNCHANGED <<input, i>>

LexNext == getToken \/ EndOfSource

=============================================================================
