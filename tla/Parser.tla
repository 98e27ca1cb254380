-------------------------------- MODULE Parser --------------------------------
(***************************************************************************)
(* RzParser over the tokens of the lexer: the functions of module Grammar  *)
(* on a token cursor.  todo is what is left of all functions entered, the  *)
(* innermost first: the call stack.  nodes holds the nodes that are not    *)
(* yet part of another one, a Mark where one has begun.                    *)
(***************************************************************************)
EXTENDS Lexer, Grammar

CONSTANTS
  TypeNames   (* the names ctx->getTypeInfo knows                          *)

VARIABLES
  pos,      (* how many tokens were fetched: peekAhead(0) is the next one  *)
  Tok,      (* the current token                                           *)
  todo,     (* steps left, the next one first                              *)
  nodes,    (* finished nodes, the newest last                             *)
  outcome   (* "idle", "parsing", "done", "failed", "threw", "overrun"     *)

parseVars == <<pos, Tok, todo, nodes, outcome>>
vars == <<lexVars, parseVars>>

Mark == <<"mark">>
NoToken == [type |-> "UNKNOWN", text |-> ""]

ParseInit ==
  /\ pos = 0 /\ Tok = NoToken
  /\ todo = <<>> /\ nodes = <<>>
  /\ outcome = "idle"

(* startParse for a unit, RzDocument::parse for a document.                *)
Begin(steps) ==
  /\ lexer = "lexed" /\ outcome = "idle"
  /\ todo' = <<Advance>> \o steps
  /\ outcome' = "parsing"
  /\ UNCHANGED <<lexVars, pos, Tok, nodes>>

(* The step at hand, and what is to be done after it.                      *)
Step(kind) == outcome = "parsing" /\ todo # <<>> /\ Head(todo)[1] = kind
Continue(steps) == todo' = steps \o Tail(todo)
KeepsCursor == UNCHANGED <<lexVars, pos, Tok, outcome>>

(* A plausible slip: the end of the file is not looked for.                *)
Fetch_PastEnd ==
  LET p == pos + 1
  IN pos' = p /\ Tok' = IF p \in DOMAIN tokens THEN tokens[p] ELSE NoToken

(* getNextToken skips comments and stays at the end of the file.           *)
Fetch ==
  IF Tok.type = "EOF" THEN UNCHANGED <<pos, Tok>>
  ELSE LET p == Min({q \in (pos + 1)..Len(tokens) : tokens[q].type \notin Comments})
       IN pos' = p /\ Tok' = tokens[p]

getNextToken ==
  /\ Step("getNextToken") /\ Fetch /\ Continue(<<>>)
  /\ UNCHANGED <<lexVars, nodes, outcome>>

skipNewlines ==
  /\ Step("skipNewlines")
  /\ IF Tok.type = "NEWLINE" THEN Fetch /\ UNCHANGED todo
     ELSE Continue(<<>>) /\ UNCHANGED <<pos, Tok>>
  /\ UNCHANGED <<lexVars, nodes, outcome>>

EXPECT ==
  /\ Step("EXPECT") /\ Tok.type = Head(todo)[2]
  /\ Fetch /\ Continue(<<>>)
  /\ UNCHANGED <<lexVars, nodes, outcome>>

Throw ==
  /\ Step("EXPECT") /\ Tok.type # Head(todo)[2]
  /\ outcome' = "threw" /\ todo' = <<>>
  /\ UNCHANGED <<lexVars, pos, Tok, nodes>>

(* An import without an end of line makes startParse return false.         *)
Fail ==
  /\ Step("fail")
  /\ outcome' = "failed" /\ todo' = <<>>
  /\ UNCHANGED <<lexVars, pos, Tok, nodes>>

Enter ==
  /\ Step("call")
  /\ Continue(Body[Head(todo)[2]])
  /\ KeepsCursor /\ UNCHANGED nodes

(* The condition of a branch or a loop; a peek reads the next token.       *)
Holds(c) ==
  CASE c[1] = "type" -> Tok.type \in c[2]
    [] c[1] = "nottype" -> Tok.type \notin c[2]
    [] c[1] = "text" -> Tok.text \in c[2]
    [] c[1] = "nottext" -> Tok.text \notin c[2]
    [] c[1] = "peek" -> tokens[pos + 1].type \in c[2] \/ tokens[pos + 1].text \in c[2]
    [] c[1] = "null" -> Last(nodes) = Null
    [] c[1] = "istype" -> Last(nodes)[1] = "id" /\ Last(nodes)[2][2] \in TypeNames

(* The arms of a switch are tried in order; a peek is an arm of its own.   *)
Arms == Head(todo)[2]
Chosen == {n \in DOMAIN Arms : Holds(Arms[n][1])}
PeeksBeyond == Arms[1][1][1] = "peek" /\ pos = Len(tokens)

Decide ==
  /\ Step("switch") /\ ~PeeksBeyond
  /\ Continue(IF Chosen = {} THEN Head(todo)[3] ELSE Arms[Min(Chosen)][2])
  /\ KeepsCursor /\ UNCHANGED nodes

(* peekAhead beyond the vector of tokens.                                  *)
Overreach ==
  /\ Step("switch") /\ PeeksBeyond
  /\ outcome' = "overrun" /\ todo' = <<>>
  /\ UNCHANGED <<lexVars, pos, Tok, nodes>>

Repeat ==
  /\ Step("while")
  /\ Continue(IF Holds(Head(todo)[2]) THEN Append(Head(todo)[3], Head(todo)) ELSE <<>>)
  /\ KeepsCursor /\ UNCHANGED nodes

(***************************************************************************)
(* Nodes.                                                                  *)
(***************************************************************************)
Opened == Max({n \in DOMAIN nodes : nodes[n] = Mark})
Parts == SubSeq(nodes, Opened + 1, Len(nodes))
Closed(node) == nodes' = Append(SubSeq(nodes, 1, Opened - 1), node)

(* The operators, by how strongly they bind; others are 0 in the map.      *)
mOperatorTable == [ op \in {">", "<", ">=", "<=", "+", "-", "^", "*", "/", "%", "||", "&&"} |->
  CASE op \in {"+", "-"} -> 20 [] op \in {"^", "*", "/", "%"} -> 30 [] OTHER -> 10 ]
Binds(op) == IF op \in DOMAIN mOperatorTable THEN mOperatorTable[op] ELSE 0

(* A plausible slip: operators of one rank are not grouped from the left.  *)
Hierarchy_Right(parts) ==
  LET Bin(n, r) == <<"bin", parts[2 * n][2], parts[2 * n - 1], r>>
      count == Len(parts) \div 2
  IN FoldRight(LAMBDA n, r : Bin(n, r), [n \in 1..count |-> n], Last(parts))

(* The hierarchy, from left to right: an operator that binds less than the *)
(* next one takes the next operation as its right side, and the loop goes  *)
(* on after that.                                                          *)
Hierarchy(parts) ==
  LET term(n) == parts[2 * n - 1]
      op(n) == parts[2 * n][2]
      count == Len(parts) \div 2
      Bin(o, l, r) == <<"bin", o, l, r>>
      Turn(acc, n) ==
        IF acc.skip THEN [lhs |-> acc.lhs, skip |-> FALSE]
        ELSE IF n = count \/ Binds(op(n)) >= Binds(op(n + 1))
        THEN [lhs |-> Bin(op(n), acc.lhs, term(n + 1)), skip |-> FALSE]
        ELSE [lhs |-> Bin(op(n), acc.lhs, Bin(op(n + 1), term(n + 1), term(n + 2))),
              skip |-> TRUE]
  IN FoldLeft(Turn, [lhs |-> term(1), skip |-> FALSE], [n \in 1..count |-> n]).lhs

(* The last of the prefix operators wraps the operand, the others are lost.*)
Wrapped(parts) ==
  IF Len(parts) = 1 THEN parts[1]
  ELSE <<"unary", parts[Len(parts) - 1][2], Last(parts)>>

(* Objects of data documents.  A value is true if it is an object or a     *)
(* positive number; the property of a name is the first one.               *)
Object(parts) == IF parts = <<>> THEN <<"undefined">> ELSE <<"object">> \o parts
With(value, field) == Append(IF value[1] = "object" THEN value ELSE <<"object">>, field)
Typename(value, text) == With(value, <<"field", <<"text", "typename">>, <<"string", text>>>>)
Ids(value) == IF value[1] # "object" THEN {}
              ELSE {n \in 2..Len(value) : value[n][2][2] = "id"}
IdOf(value) == value[Min(Ids(value))][3]
Identified(value) == Ids(value) # {} /\ IdOf(value)[1] \in {"int", "object"}

(* What a node becomes when it ends.                                       *)
Finished(tag, parts) ==
  CASE tag = "none" -> Null
    [] tag = "same" -> parts[1]
    [] tag = "object" -> Object(parts)
    [] tag = "typed" -> Typename(parts[2], parts[1])
    [] tag \in {"string", "int"} -> <<tag, parts[1]>>
    [] OTHER -> <<tag>> \o parts

Build ==
  /\ KeepsCursor
  /\ \/ Step("open") /\ nodes' = Append(nodes, Mark) /\ Continue(<<>>)
     \/ Step("text") /\ nodes' = Append(nodes, <<"text", Tok.text>>) /\ Continue(<<>>)
     \/ Step("push") /\ nodes' = Append(nodes, Head(todo)[2]) /\ Continue(<<>>)
     \/ Step("drop") /\ nodes' = Front(nodes) /\ Continue(<<>>)
     \/ Step("climb") /\ Closed(Hierarchy(Parts)) /\ Continue(<<>>)
     \/ Step("wrap") /\ Closed(Wrapped(Parts)) /\ Continue(<<>>)
     \/ /\ Step("close") /\ Head(todo)[2] # "identified"
        /\ Closed(Finished(Head(todo)[2], Parts)) /\ Continue(<<>>)
     (* the node on top becomes the first part of a new one                *)
     \/ /\ Step("reopen") /\ Continue(<<>>)
        /\ nodes' = Front(nodes) \o <<Mark, Last(nodes)>>
     (* an object of a document is a property if it has an id              *)
     \/ /\ Step("close") /\ Head(todo)[2] = "identified" /\ Continue(<<>>)
        /\ IF Identified(Parts[2])
           THEN Closed(<<"field", IdOf(Parts[2]), Typename(Parts[2], Parts[1])>>)
           ELSE nodes' = SubSeq(nodes, 1, Opened - 1)
     (* the empty statements of a block in a row count as one              *)
     \/ /\ Step("one") /\ Continue(<<>>)
        /\ nodes' = IF Len(nodes) > 1 /\ Last(nodes) = Null /\ nodes[Len(nodes) - 1] = Null
                    THEN Front(nodes) ELSE nodes

Finish ==
  /\ outcome = "parsing" /\ todo = <<>>
  /\ outcome' = "done"
  /\ UNCHANGED <<lexVars, pos, Tok, todo, nodes>>

ParseStep ==
  \/ getNextToken \/ skipNewlines \/ EXPECT \/ Throw \/ Fail
  \/ Enter \/ Decide \/ Overreach \/ Repeat \/ Build \/ Finish

=============================================================================
