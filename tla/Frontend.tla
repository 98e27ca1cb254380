------------------------------- MODULE Frontend -------------------------------
(***************************************************************************)
(* A source from its characters to its tree: RzBuilder and RzDocument let  *)
(* the lexer make all tokens and then the parser read them.                *)
(***************************************************************************)
EXTENDS Parser

Init ==
  /\ LexInit
  /\ ParseInit

parse ==
  /\ tokens # <<>>
  /\ Begin(IF input.document THEN <<Call("parseDataValue")>> ELSE startParse)

(* Without tokens: the builder looks for an empty source before it calls   *)
(* the lexer (RzBuilder.cpp:38), RzDocument::parse does not, and its first *)
(* getNextToken reads tokens[0] of an empty vector.                        *)
parseNothing ==
  /\ lexer = "lexed" /\ outcome = "idle" /\ tokens = <<>>
  /\ outcome' = IF input.document THEN "overrun" ELSE "failed"
  /\ UNCHANGED <<lexVars, pos, Tok, todo, nodes>>

Next ==
  \/ LexNext /\ UNCHANGED parseVars
  \/ parse
  \/ parseNothing
  \/ ParseStep

Spec == Init /\ [][Next]_vars /\ WF_vars(Next)

-----------------------------------------------------------------------------

TypeOK ==
  /\ i \in -1..(Size + 1)
  /\ \A n \in DOMAIN tokens : tokens[n].type \in TokenTypes
  /\ lexer \in {"lexing", "lexed", "overrun"}
  /\ pos \in 0..Len(tokens)
  /\ outcome \in {"idle", "parsing", "done", "failed", "threw", "overrun"}

(* getNextToken indexes the vector of tokens without a check: what keeps   *)
(* it inside is that a parser that reads has a token for the end of the    *)
(* file, the last one and the only one of its kind, and never leaves it.   *)
(* Of all sources only an empty document gets the parser to read without   *)
(* one (RzParser.cpp getNextToken, RzDocument.cpp parse).                  *)
CursorInTokens ==
  /\ outcome # "idle" => lexer = "lexed"
  /\ outcome = "parsing" => /\ tokens # <<>>
                            /\ \A n \in DOMAIN tokens : tokens[n].type = "EOF" <=> n = Len(tokens)
  /\ \/ pos \in 1..Len(tokens) /\ Tok = tokens[pos]
     \/ pos = 0 /\ Tok = NoToken
  /\ outcome = "overrun" /\ pos = 0 => input.document /\ program_source = <<>>

(* The tree of a regular source is the one its text says: every statement  *)
(* in the block whose brackets surround it, every operator on its own      *)
(* operands (RzParser.cpp parseBlock, parseExpression).                    *)
TreeIsSource ==
  outcome = "done" /\ input.regular => nodes = input.tree

(* Every loop of the parser takes tokens: it ends, or it has taken them    *)
(* all and stands at the end of the file, whose token is never left; a     *)
(* using directive is never read (startParse).  A regular source is read   *)
(* to its end and accepted.                                                *)
Advances ==
  <> IF input.regular THEN outcome = "done"
     ELSE \/ outcome \notin {"idle", "parsing"} \/ lexer = "overrun"
          \/ Tok.type \in {"EOF", "using"}

=============================================================================
