-------------------------- MODULE MCDeferLowering --------------------------
EXTENDS DeferLowering

S(k, n) == [k |-> k, n |-> n, c |-> Open, b |-> << >>, e |-> << >>]
B(k, n, block) == [S(k, n) EXCEPT !.b = block]
IfElse(block, other) == [B("if", NoName, block) EXCEPT !.e = <<other>>]
Defer(k, n) == B("defer", NoName, <<S(k, n)>>)

\* The statements a small block is made of.  x is declared by every body.
Leaves ==
    { S("alloc", "x"), S("zalloc", "y"), S("try", "y"), S("use", "y"), S("free", "x"),
      Defer("use", "x"), Defer("use", "y"), Defer("free", "x"),
      S("return", NoName), S("return", "y") }
Small == {<<a>> : a \in Leaves} \union {<<a, b>> : a, b \in Leaves} \union
         {<<a, b, c>> : a \in {S("zalloc", "y"), S("try", "y")}, b, c \in Leaves}

Around(block) ==
    { B("if", NoName, block), IfElse(block, <<S("return", NoName)>>),
      IfElse(<<Defer("use", "x")>>, block),
      B("while", NoName, block), B("loop", NoName, block),
      B("for", "i", block), B("zone", NoName, block) }

\* One compound statement, then two nested ones with statements around.
OneLevel == UNION {Around(block) : block \in Small}
Inner == UNION { Around(<<a>> \o b) :
                 a \in {S("zalloc", "z"), Defer("use", "y"), S("return", "y")},
                 b \in {<< >>, <<S("return", NoName)>>, <<Defer("use", "x")>>} }
TwoLevels ==
    UNION { Around(<<a, s>> \o b) :
            a \in {S("zalloc", "y"), S("try", "y"), Defer("use", "x")},
            s \in Inner,
            b \in {<< >>, <<S("return", "y")>>} }

CleanupPrograms ==
    { <<S("alloc", "x")>> \o d \o <<s>> \o t :
      d \in {<< >>, <<Defer("free", "x")>>},
      s \in OneLevel \union TwoLevels,
      t \in {<< >>, <<S("return", "x")>>} }

\* Bodies about a result r and a bool f that was defined from it.
C(k, n, c, block) == [B(k, n, block) EXCEPT !.c = c]
Else(s, block) == [s EXCEPT !.e = <<block>>]
Ok == Condition("ok", "r", TRUE, << >>)
Flag == Condition("name", "f", TRUE, << >>)
Not(c) == Condition("not", NoName, TRUE, <<c>>)
Op(op, lit, parts) == Condition(op, NoName, lit, parts)
Conditions ==
    { Open, Ok, Flag, Not(Ok), Op("==", FALSE, <<Ok>>), Op("!=", FALSE, <<Ok>>),
      Op("&&", TRUE, <<Ok, Open>>), Op("||", TRUE, <<Ok, Open>>),
      Op("||", TRUE, <<Not(Flag), Open>>) }
Aliases == {Ok, Op("&&", TRUE, <<Open, Ok>>), Op("||", TRUE, <<Not(Ok), Open>>)}

Steps ==
    { S("set", "r"), S("setok", "r"), S("value", "r"), S("result", "r"), S("return", NoName),
      Defer("value", "r") }
Blocks == {<< >>} \union {<<a>> : a \in Steps} \union
          {<<a, b>> : a \in {S("set", "r"), S("value", "r"), S("result", "r"), Defer("value", "r")}, b \in Steps}
Returns == <<S("return", NoName)>>
Read == S("value", "r")

\* A test of r around a block, then a read of r that may be left to a test of f.
Tests ==
    UNION { { C("if", NoName, c, b), C("while", NoName, c, b), Else(C("if", NoName, c, b), Returns),
              Else(C("if", NoName, c, Returns), b), Else(C("if", NoName, c, b), <<Read>>) } :
            c \in Conditions, b \in Blocks }
Nested ==
    { C("if", NoName, c, <<s>> \o b) :
      c \in {Ok, Flag},
      s \in {C(k, NoName, d, a) : k \in {"if", "while", "loop", "zone"}, d \in {Open, Ok},
             a \in {<<S("set", "r")>>, <<Read, S("set", "r")>>, <<S("setok", "r")>>}},
      b \in {<< >>, <<Read>>} }
ResultPrograms ==
    { <<S("result", "r"), C("bool", "f", alias, << >>), s, t>> :
      alias \in Aliases,
      s \in Tests \union Nested,
      t \in {Read, C("if", NoName, Flag, <<Read>>), S("return", NoName)} }

MCPrograms == CleanupPrograms \union ResultPrograms
=============================================================================
