------------------------------- MODULE Grammar -------------------------------
(***************************************************************************)
(* The functions of RzParser, each as the sequence of what it does to the  *)
(* token cursor and to the nodes it builds; module Parser runs them.       *)
(*                                                                         *)
(* A node is <<kind, parts...>>.  Positions, access levels, flags set for  *)
(* a later pass and the owner a node is stored in are left out.            *)
(***************************************************************************)
EXTENDS Sequences

(***************************************************************************)
(* The steps.                                                              *)
(***************************************************************************)
Advance    == <<"getNextToken">>
Skip       == <<"skipNewlines">>
Expect(t)  == <<"EXPECT", t>>
Call(f)    == <<"call", f>>
Switch(arms, other) == <<"switch", arms, other>>   (* the first that holds *)
If(c, a, b) == Switch(<< <<c, a>> >>, b)
While(c, a) == <<"while", c, a>>
Open       == <<"open">>               (* a node begins                    *)
Text       == <<"text">>               (* ... with the text of Tok in it   *)
Close(tag) == <<"close", tag>>         (* ... and ends                     *)
Push(n)    == <<"push", n>>
Drop       == <<"drop">>               (* the newest node is not used      *)
Climb      == <<"climb">>              (* operands and operators to a tree *)
Wrap       == <<"wrap">>               (* prefix operators on an operand   *)

(* Conditions: on the current token, on the next one, on the newest node.  *)
Is(S)      == <<"type", S>>
Not(S)     == <<"nottype", S>>
Says(S)    == <<"text", S>>
SaysNot(S) == <<"nottext", S>>
Peek(S)    == <<"peek", S>>
IsNull     == <<"null", {}>>
IsType     == <<"istype", {}>>

Nothing == <<>>

Null == <<"null">>

(***************************************************************************)
(* Units and declarations.                                                 *)
(***************************************************************************)
startParse ==
  << While(Not({"EOF"}),
     << Switch(<< <<Is({"NEWLINE"}),         <<Advance>>>>,
                  <<Is({"function"}),        <<Call("parseFunction"), Advance>>>>,
                  <<Is({"class", "struct"}), <<Call("parseClass")>>>>,
                  <<Is({"namespace"}),       <<Call("parseNamespace")>>>>,
                  <<Is({"template"}),        <<Call("template")>>>>,
                  <<Is({"using"}),           Nothing>>,
                  <<Is({"import"}),          <<Call("parseImport")>>>> >>,
          <<Call("parseTopLevelIdentifer")>>) >>) >>

template ==
  <<Open, Advance, Advance, Advance, Advance, Call("parseTopLevelIdentifer"), Close("template")>>

parseImport ==
  << Open, Advance, Text, Advance,
     If(Not({"NEWLINE", ";"}), << <<"fail">> >>, <<Advance, Close("import")>>) >>

(* A namespace in a namespace is added to itself, not to the outer one.    *)
parseNamespace ==
  << Open, Advance, Text, Advance, Advance,
     While(Not({"}"}),
     << Switch(<< <<Is({"function"}),  <<Call("parseFunction"), Advance>>>>,
                  <<Is({"class"}),     <<Call("parseClass")>>>>,
                  <<Is({"namespace"}), <<Call("parseNamespace"), Drop>>>> >>,
          <<Call("parseSymbol"), If(IsNull, <<Drop>>, Nothing)>>) >>),
     Advance, Close("namespace") >>

(* The names of the classes inherited from, each with an access level or   *)
(* without.                                                                *)
Levels == {"public", "protected", "private"}

Parents ==
  LET One == <<Advance, If(Is(Levels), <<Advance>>, Nothing), Text, Advance>>
  IN << If(Is({":"}), One \o << While(Is({","}), One) >>, Nothing) >>

parseClass ==
  <<Open, Advance, Text, Advance>> \o Parents \o
  <<Call("parseClassBody"), Advance, Advance, Close("class")>>

parseTopLevelIdentifer ==
  <<Skip, Open, Text, Advance, Advance, Advance>> \o Parents \o
  <<Call("parseClassBody"), Advance, Advance, Close("class")>>

(* An access level alone is followed by a member; with a colon it is the   *)
(* default from there on, and the member begins after it.                  *)
parseClassBody == <<Advance, Skip, While(Not({"}"}), <<Call("begin")>>)>>

(* A plausible slip: the colon is not taken.                               *)
begin_NoAdvance ==
  << If(Is(Levels),
        << Advance, If(Is({":"}), <<Skip, Call("begin")>>, <<Call("member")>>) >>,
        << Call("member") >>) >>

begin ==
  << If(Is(Levels),
        << Advance, If(Is({":"}), <<Advance, Skip, Call("begin")>>, <<Call("member")>>) >>,
        << Call("member") >>) >>

member ==
  << Skip,
     Switch(<< <<Is({"}"}),        Nothing>>,
               <<Is({"function"}), <<Call("parseFunction")>>>>,
               <<Is({"let"}),      <<Call("parseLet")>>>>,
               <<Is({"on"}),       <<Call("parseOnStmt")>>>>,
               <<Is({"["}),        <<Call("parseAttribute")>>>>,
               <<Is({"enum"}),     <<Call("parseEnum")>>>> >>,
       <<Call("parseNamedMember"), Skip>>) >>

parseNamedMember ==
  << Open, Text, Advance, Expect(":"),
     If(Is({"function"}), <<Call("parseFunction")>>, <<Call("parseExpression")>>),
     Close("member") >>

parseLet ==
  <<Open, Advance, Call("parseExpression"), Advance, Call("parseExpression"), Close("let")>>

parseOnStmt ==
  << Open, Advance, Call("parseExpression"), Expect(":"),
     If(Is({"{"}), <<Call("parseBlock")>>,
        <<Open, Call("parseExpression"), Close("block")>>),
     Advance, Close("on") >>

(* The attribute is parsed and forgotten.                                  *)
parseAttribute == <<Expect("["), Advance, Expect("]")>>

(* A member is added when a comma or the end follows it.                   *)
parseEnum ==
  << Open, Advance, Text, Advance, Advance,
     While(Not({"}"}),
       << Text, Advance,
          If(Is({","}), <<Advance>>, <<If(Is({"}"}), Nothing, <<Drop>>)>>) >>),
     Advance, Close("enum") >>

(* A function or a variable of a namespace.                                *)
parseSymbol ==
  << Open, If(Is(Levels), <<Advance>>, Nothing),
     Call("parseQualType"), Text, Advance,
     If(Is({"("}), <<Advance, Call("parseParamsList"), Advance, Call("prototype")>>,
        << If(Is({"const"}), <<Advance>>, Nothing),
           If(Is({";"}), <<Advance, Close("var")>>, <<Close("none")>>) >>) >>

prototype ==
  << If(Is({"const"}), <<Advance>>, Nothing),
     Switch(<< <<Is({"{"}), <<Call("parseBlock"), Advance, Close("fn")>>>>,
               <<Is({";"}), <<Advance, Close("fn")>>>> >>, <<Close("none")>>) >>

(* The parameters again and again until the parenthesis: the last list is  *)
(* the one that stays.                                                     *)
parseFunction ==
  << Open, Advance, If(Is({"IDENTIFIER"}), <<Text, Advance>>, Nothing), Advance,
     Open, While(Not({")"}), <<Close("params"), Drop, Open, Call("parseParamsList")>>),
     Close("params"), Advance,
     If(Is({"ARROW"}), <<Advance, Call("parseQualType")>>, Nothing),
     Call("parseBlock"), Advance, Close("fn") >>

parseParamsList ==
  << If(Not({")"}),
        << Call("parseVariableDecl"),
           If(Is({","}), <<Advance, Call("parseParamsList")>>, Nothing) >>, Nothing) >>

parseQualType ==
  << Open, Text, Advance,
     If(Says({"<"}), <<Advance, Call("parseQualType"), Advance>>, Nothing),
     If(Is({"@"}), <<Advance>>, Nothing), Close("type") >>

(***************************************************************************)
(* Statements.                                                             *)
(***************************************************************************)

(* Each turn takes a statement, what is left of it as an expression, and   *)
(* one more token.                                                         *)
parseBlock ==
  << Open, Skip, Advance, Skip,
     While(Not({"}"}),
       << Call("parseStatement"), <<"one">>,
          If(Is({"IDENTIFIER"}), << If(Peek({"IDENTIFIER"}), Nothing, <<Call("rest")>>) >>,
             <<Call("rest")>>),
          Advance, Skip >>),
     Close("block") >>

rest == <<Call("parseExpression"), If(IsNull, <<Drop>>, Nothing)>>

parseStatement ==
  << Switch(<< <<Is({"if"}),          <<Call("parseBranch")>>>>,
               <<Is({"for"}),         <<Call("parseForLoop")>>>>,
               <<Is({"while", "do"}), <<Call("parseWhileLoop")>>>>,
               <<Is({"return"}),      <<Open, Advance, Close("return")>>>>,
               <<Is({"{"}),           <<Call("parseBlock")>>>>,
               <<Is({"IDENTIFIER"}),
                 << If(Peek({"IDENTIFIER", "@"}), <<Call("parseVariableDecl")>>,
                       <<Call("parseExpression")>>) >>>> >>,
       <<Call("parseExpression")>>) >>

parseBranch ==
  <<Open, Advance, Advance, Call("parseExpression"), Advance, Call("parseBlock"), Close("if")>>

(* A do loop is an empty node; its tokens are left to the block.           *)
parseWhileLoop ==
  << Open,
     If(Is({"while"}),
        <<Advance, Advance, Call("parseExpression"), Advance, Call("parseBlock")>>, Nothing),
     Close("while") >>

(* A loop over a range ends before its block.                              *)
parseForLoop ==
  << Open, Advance, Expect("("),
     If(Peek({"in"}),
        <<Call("parseExpression"), Expect("in"), Call("parseExpression"), Close("rangefor")>>,
        << If(Is({"IDENTIFIER"}),
              << If(Peek({"IDENTIFIER", "@", "<"}), <<Call("parseVariableDecl")>>,
                    <<Call("parseExpression")>>) >>, <<Call("parseExpression")>>),
           Advance, Call("parseExpression"), Advance, Call("parseExpression"), Advance,
           Call("parseBlock"), Advance, Close("for") >>) >>

parseVariableDecl ==
  << Open, Call("parseQualType"), Text, Advance,
     If(Says({"="}), <<Advance, Call("parseExpression")>>, Nothing), Close("var") >>

(***************************************************************************)
(* Expressions.                                                            *)
(***************************************************************************)
parseExpression ==
  << Switch(<< <<Is({")", ";", ","}), <<Push(Null)>>>>,
               <<Is({"new"}),         <<Call("parseNew")>>>> >>,
       << Open, Call("operand"),
          While(Is({"BINOP"}), <<Text, Advance, Call("operand")>>), Climb >>) >>

operand ==
  << Open,
     If(Is({"BINOP"}), << If(Says({"-"}), <<Text, Advance>>, Nothing) >>, Nothing),
     If(Is({"DECREMENT"}), <<Text, Advance>>, Nothing),
     If(Is({"INCREMENT"}), <<Text, Advance>>, Nothing),
     Switch(<< <<Is({"("}),          <<Advance, Call("parseExpression"), Advance>>>>,
               <<Is({"IDENTIFIER"}), <<Call("parsePrimaryExpression")>>>>,
               <<Is({"new"}),        <<Call("parseNew")>>>>,
               <<Is({"INTLITERAL", "FLOATLITERAL", "STRINGLITERAL"}),
                 <<Open, Text, Close("literal"), Advance>>>> >>,
       <<Push(Null)>>),
     Wrap >>

parsePrimaryExpression ==
  << Open, Call("parseIdentityExpression"),
     If(IsType,
        << If(Says({"<"}),
              <<Advance, Call("parseIdentityExpression"), Advance, Close("construct")>>,
              <<Call("access")>>) >>,
        <<Call("access")>>) >>

(* parseMemberAccess, with the expression to the left of the dot open.     *)
access ==
  << If(Is({"."}), <<Call("parseMemberAccess")>>, <<Close("same")>>) >>

parseMemberAccess ==
  << Advance, Call("parseIdentityExpression"), Close("dot"),
     If(Is({"."}), << <<"reopen">>, Call("parseMemberAccess")>>, Nothing) >>

parseIdentityExpression ==
  << Open, Text, Advance,
     If(Is({"ARROW"}),
        << Advance,
           If(Is({"{"}), <<Call("parseBlock"), Advance>>,
              <<Open, Call("parseExpression"), Close("block")>>),
           Close("lambda") >>,
        << If(Is({"("}),
              << Advance, If(Not({")"}), <<Call("parseArgsList")>>, Nothing),
                 Advance, Close("call") >>,
              << Close("id") >>) >>) >>

parseArgsList ==
  << Call("parseExpression"),
     If(IsNull, <<Drop>>,
        << If(Is({","}), <<Advance, Call("parseArgsList")>>, Nothing) >>) >>

parseNew ==
  << Open, Advance, Call("parseTypename"), Advance, Advance, Skip,
     If(Is({"{"}), <<Call("parseInitBlock")>>, Nothing), Close("new") >>

parseTypename ==
  <<Text, Advance, While(Is({"."}), <<Advance, Text, Advance>>)>>

(* One token of an initialiser is skipped, whatever it is.                 *)
parseInitBlock == <<Advance, Skip, Advance>>

(***************************************************************************)
(* Data documents (RzParserData): a value is <<kind, parts...>> as well.   *)
(***************************************************************************)
parseDataValue ==
  << Open, Open,
     If(Is({"IDENTIFIER"}), <<Text, Advance>>, <<Push(<<"text", "">>)>>),
     While(Is({"."}), <<Advance, Advance>>),
     If(Is({":"}), <<Advance, Call("parseProperty"), Close("field")>>,
        << Close("field"), Drop,
           If(Is({"{"}), <<Advance, While(SaysNot({"}"}), <<Call("entry")>>), Advance>>,
              Nothing) >>),
     If(Is({",", ";"}), <<Advance>>, Nothing), Close("object") >>

(* An object without a colon is kept under its id.                         *)
entry ==
  << Open, Text, Advance,
     If(Is({":"}), <<Advance, Call("parseProperty"), Close("field")>>,
        <<Call("parseDataObjectBody"), Close("identified")>>) >>

parseDataObjectBody == <<Open, Advance, Call("fields")>>

fields ==
  << Switch(<< <<Is({"}"}),   <<Advance, Close("object")>>>>,
               <<Is({"EOF"}), <<Close("object")>>>> >>,
       << Open, Text, Advance,
          Switch(<< <<Is({":"}), <<Advance, Call("parseProperty"), Close("field")>>>>,
                    <<Is({"{"}), <<Call("parseDataObjectBody"), Drop, Close("field"), Drop>>>> >>,
            <<Close("field"), Drop>>),
          Call("fields") >>) >>

parseProperty ==
  << Switch(<< <<Is({"IDENTIFIER"}),
                 << If(Peek({"{"}),
                       <<Open, Text, Advance, Call("parseDataObjectBody"), Close("typed")>>,
                       <<Open, Text, Close("string"), Advance>>) >>>>,
               <<Is({"STRINGLITERAL"}), <<Open, Text, Close("string"), Advance>>>>,
               <<Is({"INTLITERAL"}),    <<Open, Text, Close("int"), Advance>>>>,
               <<Is({"["}),             <<Call("parseArrayValue")>>>> >>,
       <<Push(<<"undefined">>)>>) >>

parseArrayValue == <<Open, Advance, Call("elements"), Advance, Close("array")>>

elements ==
  << If(Not({"]", "EOF"}),
        << Call("parseProperty"),
           If(Is({","}), <<Advance, Call("elements")>>, Nothing) >>, Nothing) >>

(***************************************************************************)
(* The functions by name.                                                  *)
(***************************************************************************)
Body == [
  parseImport |-> parseImport, template |-> template, parseNamespace |-> parseNamespace,
  parseClass |-> parseClass,
  parseTopLevelIdentifer |-> parseTopLevelIdentifer,
  parseClassBody |-> parseClassBody, begin |-> begin, member |-> member,
  parseNamedMember |-> parseNamedMember, parseLet |-> parseLet,
  parseOnStmt |-> parseOnStmt, parseAttribute |-> parseAttribute,
  parseEnum |-> parseEnum, parseSymbol |-> parseSymbol, prototype |-> prototype,
  parseFunction |-> parseFunction, parseParamsList |-> parseParamsList,
  parseQualType |-> parseQualType, parseBlock |-> parseBlock, rest |-> rest,
  parseStatement |-> parseStatement, parseBranch |-> parseBranch,
  parseWhileLoop |-> parseWhileLoop, parseForLoop |-> parseForLoop,
  parseVariableDecl |-> parseVariableDecl,
  parseExpression |-> parseExpression, operand |-> operand,
  parsePrimaryExpression |-> parsePrimaryExpression, access |-> access,
  parseMemberAccess |-> parseMemberAccess,
  parseIdentityExpression |-> parseIdentityExpression,
  parseArgsList |-> parseArgsList, parseNew |-> parseNew,
  parseTypename |-> parseTypename, parseInitBlock |-> parseInitBlock,
  parseDataValue |-> parseDataValue, entry |-> entry,
  parseDataObjectBody |-> parseDataObjectBody, fields |-> fields,
  parseProperty |-> parseProperty, parseArrayValue |-> parseArrayValue,
  elements |-> elements ]

=============================================================================
