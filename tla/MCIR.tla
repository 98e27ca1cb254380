---------------------------------- MODULE MCIR ---------------------------------
(***************************************************************************)
(* Scripts for module IRMachine: the natives of a window and three plain   *)
(* ones, a class App with two fields, and a class with an empty method.    *)
(***************************************************************************)
EXTENDS IRMachine

MCMemory == {<<"memory", n>> : n \in 1 .. 4}
MCFields == [App |-> <<"w", "b">>, Block |-> <<>>]
Native(of, takes, gives) == [of |-> of, constructs |-> FALSE, takes |-> takes, gives |-> gives]
MCNatives ==
  ("Window.Window" :> [Native("Window", 1, FALSE) EXCEPT !.constructs = TRUE])
  @@ ("Window.open" :> Native("Window", 1, FALSE)) @@ ("Window.width" :> Native("Window", 1, TRUE))
  @@ ("Window.drawRect" :> Native("Window", 5, FALSE))
  @@ ("print" :> Native("", 1, FALSE)) @@ ("pair" :> Native("", 2, FALSE)) @@ ("make" :> Native("", 0, TRUE))

Integer(n) == [is |-> "int", value |-> n]
Name(x) == [is |-> "name", name |-> x]
New(id) == [is |-> "new", id |-> id, type |-> "Window"]
Call(id, f, args) == [is |-> "call", id |-> id, fun |-> f, args |-> args]
Dot(id, x, f, args) == [is |-> "dot", id |-> id, on |-> Name(x), fun |-> f, args |-> args]
Assign(id, x, rhs) == [is |-> "=", id |-> id, lhs |-> Name(x), rhs |-> rhs]
Local(x, init) == [is |-> "var", name |-> x, init |-> init]
While(body) == [is |-> "while", body |-> body]
For(body, update) == [is |-> "for", body |-> body, update |-> update]
Return == [is |-> "return"]

(* Statements, their ids made from the place p.  All members have one      *)
(* index: a script of two would have one field for both, so each names     *)
(* only the window or only the block.                                      *)
Plain(p) ==
  { Call(p \o "p", "print", << Integer(42) >>), Call(p \o "q", "pair", << Integer(1), Integer(2) >>),
    Call(p \o "r", "pair", << Integer(3), Call(p \o "s", "make", <<>>) >>),
    Call(p \o "t", "pair", << Integer(4), New(p \o "n") >>), Local("k", New(p \o "k")) }

OnWindow(p) ==
  Plain(p) \cup
  { Dot(p \o "o", "w", "Window.open", <<>>), Call(p \o "u", "print", << Dot(p \o "x", "w", "Window.width", <<>>) >>),
    Assign(p \o "v", "w", New(p \o "m")), Assign(p \o "w", "w", Call(p \o "z", "make", <<>>)) }

OnBlock(p) == Plain(p) \cup { Dot(p \o "b", "b", "Block.step", <<>>) }

Two(Statements(_)) == {<< s, t >> : s \in Statements("1"), t \in Statements("2")}
Bodies(Statements(_), update) ==
  Two(Statements)
  \cup {<< s, While(<< t, u >>) >> : s \in Statements("1"), t \in Statements("2"), u \in Statements("3")}
  \cup {<< For(b, update) >> : b \in Two(Statements)}
  \cup {Append(b, Return) : b \in Two(Statements)}
  \cup {<< While(<< s, For(b, Call("g", "print", << Integer(9) >>)) >>) >>
           : s \in Statements("3"), b \in Two(Statements)}

Function(class, name, body) == [class |-> class, name |-> name, body |-> body]
MCScripts ==
  LET made == << Assign("c", "w", New("d")) >>
      step == Function("Block", "step", <<>>)
  IN {<< step, Function("App", "App", made), Function("App", "main", b) >>
        : b \in Bodies(OnWindow, Dot("f", "w", "Window.open", <<>>))}
     \cup {<< Function("App", "main", made \o b), step >> : b \in Two(OnWindow)}
     \cup {<< step, Function("App", "main", b) >> : b \in Bodies(OnBlock, Dot("f", "b", "Block.step", <<>>))}

(* testbed/irtest.rz, with its window made.                                *)
Size == << Integer(20), Integer(20), Integer(50), Integer(50) >>
MCDraw ==
  {<< Function("App", "App", << Assign("c", "w", New("d")) >>),
      Function("App", "main",
        << Dot("o", "w", "Window.open", <<>>),
           While(<< Dot("e", "w", "Window.drawRect", Size) >>) >>) >>}

===============================================================================
