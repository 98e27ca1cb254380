# A verification project for the Razer language

Razer is an embeddable scripting language: a host program creates an engine, exports
native types and functions to it, builds scripts and calls them. This directory holds
TLA+ models of the library under `src/src/razer`, TLC configurations that check them on
small instances, and proofs that TLAPS checks for all instances. Paths below are relative
to the root of the repository's tree (`src/`), line numbers to its one commit.

Run `tlc -config X.cfg M` for a run of `PROJECT.json`, `tlapm M.tla` for the proofs.

## 1. The system

```
 source --TokenParser/RzParser--> AST --RzBuilder--> RzCompiler --+--> bytecode in RzModule
                                                                  +--> IR --> CodeGenVM --> module "test"
 host --RzEngine (modules, types, heaps)--> RzVirtualMachine::call --> dispatch_execute
                                                    |                        |
                                                    +---- native functions --+
```

| component | state | operations | interacts with |
|---|---|---|---|
| lexer, parser (`frontend/Parser`) | token list, index, lookahead | `getNextToken`, one `parseX` for each construct | builds the AST |
| data parser (`RzParserData`) | token index, tree under construction | `parse` | dynamic values |
| builder (`RzBuilder`) | parse trees, one module | `build`: parse, collect, generate | compiler, engine |
| compiler, declarations (`RzCompiler.cpp`, `RzCompilerCollect.cpp`) | `m_classes`, `m_currentStruct`, types, functions of the module | `collect`, `generate`, `compileStruct`, `compileImport` | module, engine, IR |
| compiler, frames (`CompileFunctions.cpp`, `CompileAllocation.cpp`, `RzCompiler.cpp`) | `m_scopes`, `m_OffsetFromBasePtr`, code | `compileFunction`, `emitBlock`, `compileVarDecl`, `destructLocalVar` | thread stack, debug canaries |
| compiler, expressions and control flow | code, `m_cursor` | `emitExpressionEval`, `emitBranchCode`, loops | module pools |
| property bindings (`sema/dependency_analysis`, `CompileAssignment.cpp`) | bound elements, visited list; at run time the fields of an object | `detect_circular_references`, the trigger after an assignment | classes |
| IR and its code generation (`compiler/emit_function.cpp`, `ir`, `codegen`) | IR functions, blocks, values | `EmitFunction`, `CodeGenVM::build` | module "test" |
| module (`runtime/Module.cpp`) | types, functions, code, literal tables, dependencies | `registerType`, `createFunction`, `getFunction`, `identifierPoolIndex`, `resolveModule` | everything |
| engine (`runtime/RzEngine.cpp`) | modules, type database, object heaps | `createModule`, `createObject`, `destroyObject`, `resolveTypeImport` | host |
| virtual machine (`vm`) | frames, `ebp`, `esp`, `pc`, stack memory | `call`, `dispatch_execute`, one `DoX` for each instruction | native functions |
| dynamic values (`runtime/RzValue.cpp`, `AEObject.cpp`) | shared strings, arrays, objects | constructors, assignment, `setProperty`, release | dynamic instructions |
| debugger | breakpoints, console | `DoDebugOp` | virtual machine |
| standard library, command line driver, experiments | host side | exports, options | engine |

**What is hard in it.** One thread runs everything, so nothing interleaves; what is hard is
sequences and partial failure. Three layers must agree about the same frame (the caller that
pushes arguments, the callee's slot offsets, the instruction that releases them) and nothing
at run time checks it. Every compile function has abort paths that leave state behind: scopes,
canaries, `m_classes`, registered functions. Tables are searched by name and the first match
wins, so a later class or function can be shadowed by an older one. Operands are eight bits
wide. Bindings are evaluated once, in the order of their text.

**What makes each part correct.**
 - *Frames*: slots in scope are disjoint and above the stack pointer; a block gives back what
   it took, aborted or not; arguments pushed are arguments released; a name means a variable of
   this function; canaries report a leak exactly when there is one.
 - *Bindings*: no circular class is accepted; the check ends; after an assignment every target
   has the value of its expression.
 - *Classes*: fields lie inside the object and apart from each other; a function is compiled
   once; an error anywhere makes the build fail.
 - *Virtual machine*: `ebp` belongs to the running frame; a method's receiver is an object; the
   stack is balanced at the end of each statement; `pc` stays in the function.
 - *Modules*: an index in an instruction refers to what the compiler meant.
 - *Values*: a value leads to a live cell of its kind; a string in use is freed by nothing but a host's own
   `release()`, which does not look for other holders (section 9).

`PROJECT.json` lists the hazards of the code at the lines where they bite.

## 2. Modules and plan

| module | models | state |
|---|---|---|
| `FrameLayout`, `MCFrameLayout`, `FrameLayoutProofs` | scopes, slots, canaries, abort paths | written, checked, proved |
| `BindingCheck`, `MCBindingCheck` | the search for circular bindings | written, checked, proved |
| `BindingUpdate`, `MCBindingUpdate`, `BindingProofs` | assignments and the bindings they trigger; extends `BindingCheck` | written, checked, proved |
| `ClassBuild`, `MCClassBuild`, `ClassBuildProofs`, `ClassLayoutProofs`, `ClassLookupProofs` | builds: collecting, imports, classes, layout of members, constructors, the two code generators' tables | written, checked, proved |
| `Lexer`, `Grammar`, `Parser`, `Frontend`, `MCFrontend`, `FrontendProofs` | from characters to tokens to trees; `Parser` extends `Lexer` and runs the functions of `Grammar`, `Frontend` composes them | written, checked, proved but for the trees |
| `Scripts`, `Terms`, `Meaning`, `Source` | method bodies and what they say: values, the order of assignments and tests; `Source` is the abstract specification | written |
| `Emit`, `Machine`, `Methods`, `MCMachine`, `MachineProofs` | expressions, branches and loops compiled and run; `Machine` extends `Emit` and `Meaning` and implements `Source`; `Methods` says for which bodies | written, checked, its safety proved |
| `Calls` | the abstract specification of a script: the calls its host sees | written |
| `IR`, `IRMachine`, `MCIR` | the second compiler and the frames, calls and natives of the machine; `IRMachine` extends `IR` and implements `Calls` | written, checked |
| `Values`, `ValuesProofs` | dynamic values, their sharing, and the code for `var` variables | written, checked, proved |

Every safety property the runs check is a theorem, but for `TreeIsSource` and those of `IRMachine`: the second
compiler (section 8) stays with TLC, as does liveness (see "What only TLC checks").

## 3. FrameLayout

*Correspondence.* `m_scopes` and `locals` are `m_scopes` of the compiler (each scope with the
call that opened it and its first local; `locals` lists the variables of all scopes, oldest
first). `m_OffsetFromBasePtr` is the running offset. `depth` (`ebp - esp`), `canary` and
`leaked` follow the code emitted so far along the path that runs every block once.
`compileFunction`, `emitBlock`, the branch and loop emitters are recursive in the code; here
each opener remembers the caller, so one action is one statement or one scope operation:
`BeginFunction`, `FreeFunction`, `DeclareThis`, `DeclareParam`, `BeginBody`, `OpenBlock`, `OpenNested`,
`OpenFor`, `OpenForBlock`, `DeclareLocal`, `DeclareVariant`, `RejectRedefinition`,
`RejectStatement`, `Crash`, `CloseBlock`, `destructLocalVar`, `PopBlock`, `PopForScope`,
`PopAborted`, `EndFunction`. `emitBlock` has no return statement, so what its caller reads is
chosen from `BlockResults`.

| run | asks | bounds |
|---|---|---|
| `frame_functions` | with static, non-native locals, any statement of which may fail to compile: are slots gapless (`SlotsContiguous`), inside the frame (`SlotsInFrame`), arguments released (`ArgumentsReleased`), do blocks close (`BlocksClose`) and leave only parameter scopes (`OnlyParametersRemain`)? | two functions, so that scopes of the first are below the second; four locals in four scopes cover every pair of nested constructs |
| `frame_types` | do the canaries pair up and report no leak (`CanaryHonest`, `CanaryBalanced`) with every kind of type? | one function |

The model contains disagreements that follow at once from reading an action. Arguments are released
as words of `RzStackValue` while each was pushed with its own size (`RzCompiler.cpp:142`, `OP_RETURN`),
so `ArgumentsReleased` is checked with parameters of that size. Parameter scopes are never popped
(`:140`), and `getVariable` finds the parameters of earlier functions, whose slots are in another frame.
`destructLocalVar` does not give back the offset of a native or dynamic local
(`RzCompiler.cpp:198`; that is why the frame properties assume there are none), `PopAborted` of a
for body leaves a canary (`:634`), an aborted function keeps `m_compiled`
(`CompileFunctions.cpp:90`), a local that is not the name of a field is a null dereference (`Crash`,
`RzCompiler.cpp:179`), so is a function outside a class (`FreeFunction`, `CompileFunctions.cpp:26`),
and `Operand` wraps beyond 127.

*Fairness.* `WF(Unwind)` only: once a block begins to close, the compiler is sequential code
that keeps running. Whether another statement follows is the source's choice.

*Proved* (`FrameLayoutProofs`), for any names, types, sizes and bounds: `TypeCorrect`; and, if
no local is native or dynamic and none is larger than an operand can say (`PodLocals`),
`FrameIsContiguous` and `VariablesStayInFrame`. `SlotsInFrame` is not inductive. The invariant
`IInv` adds the shape of `m_scopes` (parameter scopes below, one function scope, blocks above,
marks in order), and that the offset equals the end of the last slot and never exceeds the
depth; closing a block needs the first to know which locals go, the second to know what remains.

*Proved* (`FrameLayoutProofs`, second half), for any types, sizes and bounds, native and dynamic locals among them:
 - `ScopesUnwound` (`OnlyParametersRemain`), with no hypothesis, whatever fails to compile. The property
   speaks of the moments between functions only; `Remain` says of every other one that there is one scope
   per function begun, and that below the first local of the body lie the result and the parameters of each
   function, counted by `Own`, and nothing else.
 - `CallerFindsResult` (`ArgumentsReleased`), if `OperandsFit` (no local but a `var` is larger than an
   operand can say) and `ArgumentsFit` (every parameter takes one `RzStackValue`, which is how
   `releaseParametersContext` counts, and `OP_FREE` can say them all). `Kept` relates the depth to the size
   of every local of the body, so that closing its scopes gives back exactly what was pushed after
   `BodyStart`; `Released` says that what lies there is the result and the arguments.
 - `CanariesEnd` (`CanaryBalanced`), if every statement compiles (`Compiles`), and `CanariesAreHonest`
   (`CanaryHonest`), if `OperandsFit` as well. Neither property mentions scopes; `Matched` ties each pending
   canary to the block that set it, in order, and its value to the depth at which that block began. The
   scope of a `for` header has none, and an aborted body leaves one behind, which is why `Compiles` is needed.

## 4. BindingCheck and BindingUpdate

*Correspondence.* `Track` is the loop of `compileStruct` over `m_bindings`; `NextRoot`, `Abort`
its second loop; `visited` and `result` are the locals of `detect_circular_references`; `frames`
is the recursion of `sema::visit`, with the index of the next child of each activation.
`VisitNew` and `VisitSeen` are the two outcomes of the callback: the second returns from one
activation only, and the ones below go on. A binding has `operands`, which
`ast_visit_identities` reaches, and `hidden` reads, which it does not look for.

`BindingUpdate` goes on with an accepted class. One step is one `OP_SET`. `Assign` and
`AssignLocal` start the evaluation of all bindings (`Trigger`, one per step); `AssignDynamic`
(`compileVarAssign`) and `AssignOutside` (a method of another class) do not. Three things distort an
evaluation, and all three are in the model. The type of the triggering assignment is the width of every
store: `int32` and `float` have 4 bytes, all else is stored as a pointer of 8, although a `bool` or `string`
field has 4 (`StoreOf`, `Bytes`); `Stored` says what `DoAssign` leaves in a target that is larger and in the
fields `Behind` one that is smaller: any value. The names in a binding go through `getVariable`, which looks
at the locals and parameters of the method first, and those of earlier functions still in `m_scopes`: for each
assignment a set of `shadows` is chosen, whose fields the bindings neither read nor write; what is read
instead is whatever lies where `OP_LOAD` looks (section 7). Expressions are an arbitrary function
`Eval` of what they read. The variable `rounds` is history: how often in a row the bindings were evaluated
undistorted (`Clean`) since something else was assigned.

| run | asks | bounds |
|---|---|---|
| `binding_verdict` | does the check end (`Decides`), pass no circular class (`AcceptedAcyclic`), and what exactly does it accept (`VerdictIsTree`)? | three fields, three bindings with two identifiers each: all cycles of up to three, diamonds, repeated reads, a target bound twice |
| `binding_rounds` | does an assignment end (`AssignmentEnds`); when are the bindings true: after one clean evaluation in dependency order (`RelationshipHolds`), after how many in another (`BindingsConverge`)? | an int32, a bool, an int32 and a var side by side; two bindings with hidden reads, three in either order; local stores of both widths, one shadowed name, two values |

`VerdictIsTree` is the answer to what the search really decides: a class passes if and only if
every target reaches each element along exactly one path, so `a: b + b` is called circular. The
relationship that `doc/temp/raven/Features.md:11` says "will always remain true", set "from anywhere", does not
survive an assignment from another class (`AssignOutside`), since only methods of the class have the trigger,
nor one to a `var`, a shadowed name or a store of the wrong width. What is true is what `RelationshipHolds`
and `BindingsConverge` say: none of this lasts. The next clean evaluation makes the bindings of a class in
dependency order true again, since each of them is evaluated from the fields as they are; written in another
order it takes as many evaluations as there are bindings, and the check for circular bindings is what makes
that enough. Both are conditional on `Clean`; the run reaches the states where it fails. A cycle through a
call argument (`hidden`) is accepted, and never settles.

*Fairness.* Weak fairness of the check and of `Trigger`: both are straight-line work of one
thread between two statements.

*Proved* (`BindingProofs`), for any set of elements, any classes, any expressions:
`CheckTypeCorrect`, `UpdateTypeCorrect`, `NoCircularBindingPasses`, `OrderedBindingsHold`,
`AcceptedBindingsConverge`. For
acceptance, `AcceptedAcyclic` alone says nothing about the search under way. The invariant is
`CycleAhead`: while nothing has been seen twice, every cycle through the target has an element
on the stack of activations with a child on the cycle still to come; when the stack is empty
there can be none (`CheckedClear`). For the updates, `EvaluatedSoFar`: the bindings before the
pending one hold, and a later store does not disturb them, since in dependency order no earlier
binding reads or sets its target. The theorem assumes nothing about layout, order, shadows or who assigns:
the conditions are in the property.

About the search itself: `VisitFollowsPath` (`RecursionIsPath`, by `PathInv`: an element with an
activation has been visited, so `visit` does not take it again), and from it, for finitely many
elements, `VisitDepthBounded`: the recursion is never deeper than there are elements.
`CheckDecidesTrees` (`VerdictIsTree`), for finitely many elements, has two halves. `Explored` says
of a search under way that every visited element but the target was entered through an edge passed
so far, that no two such edges lead to the same element, and that an activation is no deeper than
its element (`Deep`). When a search ends with nothing seen twice, the visited elements are all that
can be reached, and the edges are exactly one for each but the target, which is what the reference
`IsTree` counts (`TreeByTargets`). When an element is seen again, there is one edge more than
elements to enter (`NoTreeByTargets`). The elements reached are counted by rounds (`Rounds`), a
function on the natural numbers which closes after as many rounds as there are elements; that it
does is shown by the least counterexample.

`AcceptedBindingsConverge` (`BindingsConverge`) joins the two modules. A set of bindings is `Settled` when they
hold and read only what bindings of the set, or none, set: no clean evaluation disturbs it
(`SettledStays`). `SettledSoFar` says that there is one with at least as many members as `rounds`, and that in a
round under way some further binding is `Ready`: it reads from settled ones alone, and holds from its turn
on. That there is one (`SomeReady`) is where `AcceptedAcyclic` comes in: otherwise the targets of all
bindings that are not settled would be `Circular`.

## 5. ClassBuild

*Correspondence.* `StartBuild` to `FinishBuild` follow `RzBuilder::build`. `phase` says where it
is, `trees` are the parse trees of the batch, `u`, `c` and `f` the loop indexes over units,
classes and functions. `CollectClass` is one turn of `collect`; `BeginUnit`, `Import`,
`RejectImport`, `EndImports`, `EndUnit` are `generate`; `RejectInheritance`, `BeginClass`,
`LayoutMember`, `CheckBindings`, `EndClass` are the parts of `compileStruct`; `EndMembers` and
`AddSize` are `RzType::computeMetrics`, one field per step; `emitClassConstructors`,
`CompileFunction` and `EmitIR` are the functions of that name, `Generate` is one turn of
`CodeGenVM::build`. Between builds the host may create objects (`CreateObject`). `types` are the
`RzType` objects, and `m_types`, `typedb`, `object_heaps` hold indexes into it, as the code holds
pointers. Classes have members only: the parser fills `m_members` and leaves `m_fields` of the
class empty (`RzParser.cpp:453`).

The code of a function is one element of `m_code`, its name. Operands and instructions are the
subject of `FrameLayout` and of the machines of sections 7 and 8.

| run | asks | bounds |
|---|---|---|
| `build_tables` | do names lead to the latest code (`LookupIsCurrent`), do members fit (`SlotsInObject`, `ObjectsHoldFields`), is code generated only from a batch that was compiled (`GeneratedWhenCompiled`)? | two builds, so that a class is declared again or a second unit follows a failed one; two classes, so that one is a member of the other, before or after it; two members, for an offset behind another; one error in any place |

The offset recorded for a function of module "test" is not where its code starts (`Function.h:42`) from
the second build on: each `CodeGenVM` counts from 0 (`cg_vm.cpp:41`), the code of earlier builds stays.
Other disagreements follow from reading an action: an import that fails
does not fail the build when classes follow it (`RejectImport`, `RzCompiler.cpp:275`); nor does a
function (`CompileFunction(FALSE)`, `:448`); functions of all classes become `App.` and their name
(`Generate`, `cg_vm.cpp:40`), while `createObject` looks for the constructor under the class's own name
(`RzEngine.cpp:180`); a class declared again in a later build goes on with the type of the first
and appends to it (`BeginClass`), which is why the two layout properties are about classes
compiled `Once`; a member of a class compiled later gets size 0 (`getSize`); a member of unknown
type is dereferenced as null (`Crash`, `RzCompiler.cpp:695`).

*Fairness.* None: a build is straight-line work, and no liveness is claimed.

*Proved*, for any classes, functions, sizes, batches and bounds: `ClassTypeCorrect`,
`MembersInsideObject`, `ObjectsLargeEnough`, `NamesLeadToLatestCode`. That a search finds what the
compiler dereferences needs `Collected` (every class of the batch that has been collected is in
the tables, with its functions) and `Placed`. For the layout, `LayoutInv` relates the two loops:
the size summed over the first fields is at least the end of each of them, since no type's size
shrinks while a class compiled once is summed. For the lookup, `Current` says it at every moment,
except for the constructor the compiler has added and not compiled yet (`Pending`), whose entry is
not compiled; `CursorAtEnd` says that the compiler writes where it thinks it does.

`GeneratesCompiledCode` (`GeneratedWhenCompiled`) needs to know how far the loops have come: `DoneInv`
says that the classes before the one at hand (`Past`) have code for their constructor and all their functions,
that of the class at hand the functions before `f` have, and that code generation begins behind the last
unit. The class at which a unit ends counts only if `ret` is "ok": an error leaves the loop
early, and code generation is not reached. That no later class takes the code away again follows from
`createFunction` appending and `getFunction` finding the first of a name.

## 6. Frontend

*Correspondence.* `Lexer` is `RzTokenParser`: `i` is its index into the source (from -1), `getToken`
one call, `EndOfSource` what `tokenize` does last. Words are single characters; every other lexeme is
spelled out, since what the lexer does at the second character of one is what can go wrong. `Grammar`
holds the functions of `RzParser` and `RzParserData`, each as the sequence of what it does: fetch a
token, skip newlines, branch on the token, call, begin or end a node. `Parser` runs them: `Tok` and
`pos` are the cursor, `todo` the call stack, `nodes` the nodes not yet part of another. One step is one
token or one decision, so that every state of the cursor between two functions is a state. An empty source
has no tokens, not even the one for its end: `tokenize` returns at once (`TokenParser.cpp:19`). `parseNothing`
is what follows: the builder gives up before it parses (`RzBuilder.cpp:38`), while `RzDocument::parse` goes on
and its first `getNextToken` reads `tokens[0]` of an empty vector (`overrun`). `Climb` is
the loop of `parseExpression` over the collected operators, `Build` what a function does with the parts.

| run | asks | bounds |
|---|---|---|
| `frontend` | is the cursor always on a token, but for an empty document (`CursorInTokens`), does every construct of a source laid out as the samples are give its tree (`TreeIsSource`), does the parser go on or stop whatever it reads (`Advances`)? | 340 regular units and 31 documents: every statement and member the parser knows, blocks two deep, two operators of every two ranks, all pairs of members; 820 texts of two arbitrary characters or keywords, in a class, a function, a namespace or a document that ends or does not; the empty unit and the empty document |

The trees are written down beside the sources by `MCFrontend`, not computed from the grammar.
`Advances` asks of other texts that the parser stops or has taken every token: at the end of the
file its loops may go round for ever (a `{` without its end in `parseDataValue`), and so does
`startParse` at a top-level `using`, which nothing reads. Regular sources are what the samples of
the repository look like. Outside them the code goes wrong, which the model shows as it is: a block
whose last statement has no terminator takes the closing bracket for it; an access level at the
start of a line is a member's name unless a variable stands before it; `==` and `!=` are never one
token; an expression of three operators may be grouped wrongly, as `Climb` looks one ahead; a line
comment takes the newline with it; `else`, `do`, and `return x` are not read as such; an enum over
several lines loses members; the body of a range `for` becomes its sibling; a nested namespace is
added to itself; `peekAhead` reads beyond the tokens at the end (`overrun`), and so does the lexer
in an unclosed comment or string; nested objects of a document without a colon are dropped.

*Fairness.* `WF(Next)`: parsing is one loop on one thread.

*Proved* (`FrontendProofs`), for any set of inputs over any alphabet in which words, keywords, digits and
signs are different characters (`LexerAssumption`): `TypeCorrect` and `CursorStaysInTokens`
(`CursorInTokens`). `CursorInTokens` says that a parser that has begun has tokens, that the last of them and no
other has the type of the end of the file, that the cursor stays on a token or before the first, and that
only an empty document makes the parser read a token where there is none. The invariant adds that
no token of that type is made while the lexer runs (`NoEnd`): each branch of `getToken` makes a type of its
own, and a word becomes the end of the file only if that were a keyword.

## 7. Emit and Machine, against Source

*Correspondence.* `Scripts` says what a method body is. `Emit` has an operator for each `emitX` and
`compileX` that appends code: `emitExpressionEval`, `emitArithmeticOp`, `performConversion`,
`compileStaticAssign`, `emitBranchCode`, `emitWhileLoop`, `emitForLoop`, `emitBlock`, `compileFunction`, and
the type rules of `TypeResolver`. Where the code recurs on the tree, the definition is a recursive function
(`resolveQualifiedType`, `emitExpressionEval`, `Statements`), and the functions it calls take the code of the
parts. `Machine` is `dispatch_execute`: one action per instruction, named for its `DoX`. `pc` advances as in the
code, after the instruction. The stack holds the locals of the method and its operands. Values are terms
(`Terms`), so that two programs that compute the same from different operands differ.

`Meaning` gives a body its meaning without looking at code: `Value` of an expression, `Edges` (which
statement follows which outcome of which), `Does` (what a statement assigns or tests, given the locals in
scope). `Source` is the abstract specification made of them: from the first statement on, the next effect is
one of the statement that follows. `Machine` implements it, with its own `last` for that of `Source`; a test
yields either outcome in both. The values are terms over *what `OP_LOAD` yields* for each variable (`Reads`),
the targets are the variables themselves (`Writes`): `Implements` is about order, conversions, operators,
which variables and on which side. It does not say that a load yields what the variable holds. That is
`LoadsTheLocal`, and false: the frame is below `ebp`, where `OP_LOADADDR` points (`ebp - offset`), and `OP_LOAD`
reads `ebp + offset` (`vm_general.cpp:290`). So every read of a local, and of `this`, which every use of a field
begins with, gets memory of the caller. The frame is the one of `RzVirtualMachine::call`, which moves `this`
below `ebp`; `RzCall`, which leaves it at `ebp + 0`, is only used for code of the other compiler.

`compileVarDecl` asks `getVariable` for the name first: a local in scope aborts the method, and a name that is
not a field of the class either dereferences null. `Emit` has a mark that is no instruction for both
(`Refused`), `FrameLayout` what follows from it, and `Methods` leaves such bodies out. So the locals of the
programs have the names of fields, as in any script this compiler compiles.

| run | asks | bounds |
|---|---|---|
| `machine` | does the machine never leave the code (`TypeOK`), is nothing left on the stack between statements or of the blocks that ended (`StackBalanced`), does it follow the source (`InOrder`), and does the next thing always come (`Implements`)? | targets and sums of every kind; `if`, `while` and `for` around bodies with declarations, branches and loops, two deep, and a statement after them |
| `machine_v_jump` (violation) | does a failed test go forwards (`InOrder`)? | one `if` around 26 assignments |
| `machine_v_load` (violation) | does `OP_LOAD` push the contents of the local (`LoadsTheLocal`)? | `int k = 1` and `int b = k` |

Both violations are findings: over more than 127 instructions the operand of the jump wraps, and a local is
not read where it was written.

*Left out of the programs*, because the code as written cannot do what they say. `Methods` states it as a
condition on each statement, `Means(body)`, which the run evaluates on its programs and the theorems assume:
`>=` and `<=` (their instructions are empty), `&&` and `||` (`if (a < b && c < d)` tests one side only: `DoAnd`
compares the second operand twice; `CompileExpressions.cpp:459` says a bool is expected), a bare name as the
test of a loop, names that are neither local nor a field, declarations of a name in scope, stored comparisons of floats, fields of type pointer read through `this`, arithmetic on bools,
float tests of an `if`, `++` on floats, jumps over more than 127 instructions, two statements of one name.
Bindings are left out of `Scripts`. `emitBlock`, `emitArithmeticOp` and `emitLoadAddress` have paths without
a return statement.

*Fairness.* `WF(Next)`: `dispatch_execute` is a loop on one thread.

*Proved* (`MachineProofs`), for any class, any finite trees of expressions and blocks however deep, any width
of an operand, and any set of bodies for which `Means` holds (`MethodsMean`): `TypeCorrect` (`TypeOK`),
`StatementsBalance` (`StackBalanced`), and `OrderAndOperandsHold`: `Src!Init` and `InOrder`, the safety of
`Implements`, with the reading of variables left open as above. This is the correctness of the compiler, by induction on the trees:
 - The library's induction theorems take an operator as a parameter. `Induct` needs none: the trees have
   depths (`ExprDepth`, `BodyDepth`, constants with assumptions of `Scripts`), the set of trees without the
   property has one of least depth. From it `Fixpoint`: a function that is given on each tree by its values
   on lower ones exists, so that each recursive function of `Emit`, `Meaning` and `Methods` has its equation.
 - A certificate of a piece of code is a point for each of its positions: the stack, and the statement that
   is to come next. `Certifies` says that each instruction takes the point at its position to the point at
   the next or at its target. Certificates of two pieces that agree where they meet make one of the pieces
   together; the jump of a loop meets its own test.
 - Expressions: their code, from any stack, leaves that stack and one value, the one of `Value` (its address
   when it is a target); where an operand is converted the term says so. Assignments,
   declarations, branches and loops: their code goes from the point at which the statement is to come to
   that at which what `Edges` says comes after it is, on a stack of slots.
 - The invariant is `Inv`: there is a certificate of the method's code, and `stack` and `last` are at the
   point of `pc`. No state formula without the certificate is inductive: in the middle of an expression
   what lies on the stack depends on what is still to come.

## 8. IR and IRMachine, against Calls

The second compiler is the one the command line runs. `EmitFunction` makes a list of IR instructions per
function, `CodeGenVM` turns the lists into the code of module "test".

*Correspondence.* `IR` has `compileBlock`, `compileExpression`, `compileNewExpression`, `compileFor`,
`compileWhile` of `EmitFunction`, the `createX` of `IRBuilder`, the scopes of `ScopeStack`, and the `buildX` of
`CodeGenVM` with its table of functions and its count of reads. `IRMachine` runs the result as
`buildAndRun` of `main_rz.cpp` does: `createObject` calls the constructor on a machine of its own, then the
host pushes the object on a second one and calls `App.main`. `frames`, `ebp` and `stack` are those of
`RzThreadContext`; `DoCall` and `DoReturn` push and pop frames; `DoNativeCall` is a wrapper that takes its
operands from the stack itself (external: the signatures registered by the SDK). `heap` says what each
allocation holds, `raw` until its constructor ran.

`Calls` is the abstract specification: the native calls and assignments of the script in order, each with
the values its arguments have at that moment. Both have loops that never end: the IR has a label and an
unconditional jump and no test. `WF(Next)` makes the machine go round them.

| run | asks | bounds |
|---|---|---|
| `ir` | does every call reach its function with its arguments (`Implements`), on a stack that is empty between statements (`StackBalanced`) and with objects whose constructor ran (`FieldsConstructed`)? | two statements of nine kinds about a window, or of six about an object with a method in the script, in every order, alone, before a loop, in a loop, in a loop in a loop, with and without a constructor, four allocations; two fields, of which a script names one |
| `ir_v_receiver` (violation) | is the receiver of a native method its object (`ReceiverIsObject`)? | `testbed/irtest.rz`, in a class of two fields |

*Fields.* The parser makes members, and `AEStructNode::getFieldIndex` returns `true` for a member: every field
of a class is compiled to the address of its second field, and in a class with one field `buildDestructure`
reads past the end of `m_fields`. So two fields of a script are one, and a script that sets one and reads the
other gets the wrong value. `getFieldIndex` and `buildDestructure` have this as it is; the scripts of the run
each name one field of a class of two (the first or the second: `w` is set in the place of `b`), and
`Implements` compares what a field holds in `Calls` with what lies where the code addresses it (`Held`).
`StackBalanced` and `FieldsConstructed` do not depend on it.

`ir_v_receiver` is a finding: the receiver of a method with arguments is pushed first, under the arguments,
and the wrapper takes its object first, from the top: the last value pushed, which is the first argument. Nearby, and visible in the definitions: a call whose value nobody uses leaves it on the stack; a
local is never read back (`int k = 5` stores into what lies on the stack, the host's `this`, as
`field = 5` does); a `new` of a class of a script does not take its receiver off; a plain call of a method of
the same class takes the caller's `this`; `f(new T, 3)` and `f(g(1), h(2))` mix up their arguments; `a = b`
of fields stores an address; `if`, `return x`, and tests are dropped; two functions of one name are
one, as all become `App.` and their name; `createObject` finds constructors of class App only; the index of a
function is an int8; a script without `App.main`, or with an empty one, dereferences null. The scripts of the
run are those none of this touches.

## 9. Values

*Correspondence.* A host variable or a variable of the script is an `RzValue`: a type and the number
of a cell in `strings` (`AEString`), `objects` (`AEObject`) or `arrays` (`AEArray`). `Assigned` is
`operator=` of two values, `Plus` `operator+`, `setValue`, `property`, `getValueRef` and `makeArray`
the functions of those names, `release` and `call` too; `AssignInt`, `AssignReal`, `AssignText` and
`AssignFunction` assign what they say, `setText` is `setValue` of a text, and `HostStep` lets a host call
them all in any order. Three of them leave a tag without its payload, and the model keeps what is there:
a real is written under the tag the value has (`:434`), so what claims to be a pointer is the bits of a
real (`Overlaid`); `operator=` has no arm for functions and prototypes (`:382`), so the old payload stays
under the new tag; a released value (`:114`) is undefined and keeps the address. A function of a script
declares `var` variables and assigns: `compileVarAssign` and its neighbours give the instructions,
`code` is what is left of the statement, and each instruction is one action (`PushOperand`,
`PushVar`, `PopVar`, `DoVarLoadRef`, `DoVarStore`, `ExecVariantCall`). `status` is "running" until a
null or freed place is followed: the code is undefined from there on and the model stops. `lhs` is
read by the properties only.

| run | asks | bounds |
|---|---|---|
| `values` | do values lead to cells of their kind (`TypeOK`), is a deleted string only where a host left it, by releasing what was shared (`StringsLive`), does every statement leave the variables and nothing else (`StackBalanced`), and does an assignment mean that what is read back is what was assigned (`StoreMeansAssign`)? | five statements or calls of two hosts and two locals, one property name (so that objects nest, hold themselves and are shared), two strings and arrays, three objects with three entries |

Copies are not counted (`:402`) and `release` takes one off and deletes at zero, so a string is deleted at
its first release, for all who share it. A host that does that has dangling values, which the model lets it
follow (`status` "freed memory"); `fate` keeps on record that the string was shared at that moment.
`StringsLive` says nothing else makes a value dangle: the destructor releases nothing (`:73`; one that did
what its comment says would break the property, as its mutant shows), and the address that stays in a
released value comes back as no string. Scripts have no instruction that releases.

Two statements are no assignments, and `StoreMeansAssign` leaves them out (`Overwrites`): `x.f = new T` over
an integer is dropped silently, against `InstructionSet.h:88`, and `x.f = y` over one writes a value where an
integer is. Others end the model with a status: a `var` store through an undefined base (the integer and
object stores refuse, `vm_dynamic.cpp:94`), `x.f = x; x.f.g = 1`, a path through an integer, printing
an array that holds itself or what must not be followed, a null string plus an integer, a call of a function
that was assigned, a string or an entry through the bits of a real. As the code has it: `var b;` begins as a copy of the first
variable (`CompileAllocation.cpp:70`); `x = 2.5` makes an object of its bits; string plus integer is a null
string; an undefined value given to its own `setValue` becomes an object that holds itself (`:167`); a host
that sets a name twice never reads the second. Left out are values constructed in place from a function
or a list (an array filled one by one), floats of more than 20 significant bits over an integer, and what a
prototype holds, which nothing reads. Reading `y.f` takes the pending reference
from the stack, so it is not among the expressions. Functions are static (no `this` in the first slot), and
without inner scopes, whose effect on offsets section 3 shows.

*Fairness.* None: hosts and scripts need not go on.

*Proved* (`ValuesProofs`), for any hosts, names, integers and bounds:
 - `TypeCorrect`, `StringsStayLive` (`StringsLive`) and `StatementsBalance` (`StackBalanced`), from
   one inductive invariant, `IInv` (theorem `Invariance`). `Shapes` types the variables one at a
   time; `HostLeads`, `ObjectsLead`, `ArraysLead` and `StackLeads` say that every value anywhere
   leads to a cell of its kind, and to a string that is live or was released while shared, and `RefsLead` that a reference on the stack leads to a place that
   exists, below itself or in an object. What an instruction may find on the stack follows from none
   of them: `Progress` says it, for every point of a statement (`Declaring`, `Assigning`,
   `Popping`), by what is left of its code.
 - `AssignmentsMeanWhatTheySay` (`StoreMeansAssign`), the property with the longest proof: reading
   the left side after `OP_VARSTORE` gives the value that was assigned, and every other variable and
   property reads as before. It needs two more invariants. `Aimed`: the reference on the stack leads
   to the same place as the part of the left side whose names have been taken, and to the first
   entry of its name there, since `getValueRef` and `property` search from the front. `Apart`: the
   objects of the script are none of a host's, and it has no functions or prototypes. A host's `setProperty` may append a name an object
   has already, and a reference into such an object could be to the entry nobody reads; the objects
   a script made have a second entry of a name only while it is undefined. `Apart` says that there
   is a set of objects no host has, closed under what the script's variables and its objects'
   properties hold; a host never gets into it, and a store never leads out of it.

## What only TLC checks

 - Liveness under fairness: `BlocksClose`, `Decides`, `AssignmentEnds`, `Advances`. The safety facts such an
   argument would rest on are proved where there are any (`VisitDepthBounded` for `Decides`).
 - `TreeIsSource`: the trees are written down source by source in `MCFrontend`, so there is no statement
   about every source to prove.
 - The liveness of `Implements` in section 7: that the next effect always comes.
 - Everything of section 8: `TypeOK`, `StackBalanced`, `FieldsConstructed` of `IRMachine` and `Implements`.
   `IR` and `Calls` compile and read trees by recursive operators, which the prover does not take; the
   argument of section 7 would apply, with certificates that span functions.

## What is not modelled

 - Input and output: the standard library's wrappers (`src/sdk`), reading options and files
   (`main_rz.cpp`, but for `buildAndRun`), and printing. The debugger is a console loop that changes
   nothing the machine reads.
 - Threads and coroutines are declared and empty (`ThreadHandler`, `executeAsync`); the experiments
   `sts`, `aion` and `testbed` are not part of the library.
 - Calls in the first compiler: the body of `CompileCalls.cpp` is commented out, a call expression emits
   no code. Calls are modelled where they exist, in the second one.
 - Parser functions that nothing reaches from `startParse` (`parseStructField`, `parseFunctionCall`,
   `parse_identifier_sub`), and `parsePropertyValue` of the data parser.
 - What a host does to the registries by hand: registering native types and functions, typedefs (two of
   each other make `getTypeInfo` recurse for ever, `RzEngine.cpp:319`), releasing modules.
 - Numbers. Arithmetic is symbolic in `Machine`, so what a width does to a value is not seen; operands of
   instructions keep their eight bits.
 - An assignment inside a binding makes the compiler recurse without an end (`CompileAssignment.cpp:126`).
