----------------------------- MODULE ParserProofs -----------------------------
(***************************************************************************)
(* The parser never leaves its token buffer, whatever the tokens are, and  *)
(* never drops a piece of the text without an error.                       *)
(***************************************************************************)
EXTENDS Parser, SetSums, SequenceTheorems, TLAPS

-------------------------------------------------------------------------------
(* Lists of steps.                                                             *)

Levels == {"or", "and", "equality", "comparison", "term", "factor"}

Functions ==
  {"program", "unexpected", "import_decl", "import_path", "const_decl", "struct_decl",
   "struct_fields", "function", "parameters", "parameter", "parameter_end", "block",
   "statements", "statement", "let_statement", "return_statement", "try_statement",
   "free_statement", "defer_statement", "if_statement", "else", "while_statement",
   "loop_statement", "zone_statement", "for_statement", "assignment_or_expr", "assignment",
   "type", "type_atom", "type_suffix", "type_sized", "expression", "unary", "postfix",
   "postfix_loop", "arguments", "arguments_more", "index", "index_end", "slice", "primary",
   "alloc", "if_expression", "if_branch", "if_expr_else", "struct_literal", "field_inits",
   "field_init_end", "array_literal", "array_items", "array_more"} \cup Levels

Modes == {"want", "need", "bail", "stop", "same", "statement", "toplevel"}

\* No step asks for the end-of-file token; a slice is not called.
Steps ==
  [op : {"consume"}, kinds : SUBSET Kinds, mode : Modes]
    \cup [op : {"call"}, fn : Functions \ {"slice"}, mode : Modes]
    \cup [op : {"goto"}, fn : Functions]
    \cup [op : {"operands"}, fn : Levels]
    \cup [op : {"prefixes"}, n : Nat]
    \cup [op : {"opt"}, kind : Kinds]
    \cup [op : {"place"}, is : BOOLEAN]
    \cup [op : {"take", "fail", "stop", "guard", "drop", "target"}]

\* The steps that look at the current token to find out what follows.
Looks == {"goto", "operands", "prefixes"}

\* The bound of a slice is read where its ".." was seen and not yet taken.
IsSlice(s) == s.op = "goto" /\ s.fn = "slice"

\* Tokens that are taken unseen come first, and there are that many before the
\* end of the buffer; a step that looks is the last.
Good(todo, room) ==
  /\ todo \in Seq(Steps)
  /\ \A i \in 1..Len(todo) :
       /\ todo[i].op = "take" => i <= room /\ \A j \in 1..i : todo[j].op = "take"
       /\ todo[i].op \in Looks => i = Len(todo)
       /\ IsSlice(todo[i]) => i = 1 /\ room >= 1

\* A frame that waits for the function it called.
Waits(todo) == todo # <<>> /\ Head(todo).op = "call" /\ Good(todo, 0)

\* What is left of the outermost function: it ends in its loop, and an error
\* in a declaration does not end it.
Loops(todo) ==
  /\ todo # <<>>
  /\ todo[Len(todo)].op = "goto" /\ todo[Len(todo)].fn = "program"
  /\ \A i \in 1..Len(todo) - 1 :
       todo[i].op = "take" \/ (todo[i].op = "call" /\ todo[i].mode = "toplevel")

Frames == [todo : Seq(Steps), ok : BOOLEAN, place : BOOLEAN]

Room == Len(tokens) - index

TInv ==
  /\ input \in Inputs
  /\ index \in 1..Len(tokens)
  /\ stack \in Seq(Frames) /\ stack # <<>>
  /\ diags \in 0..DiagCap /\ kept \in Nat /\ lost \in BOOLEAN

SInv ==
  /\ Good(Top.todo, Room)
  /\ \A i \in 1..Len(stack) - 1 : Waits(stack[i].todo)

\* A NULL that is on its way up was reported when it arose.
NInv == \A i \in 1..Len(stack) : ~stack[i].ok => diags > 0

BInv ==
  \/ Loops(stack[1].todo)
  \/ Len(stack) = 1 /\ stack[1].todo = <<>> /\ cn_parser_current = "eof"

PInv == TInv /\ SInv /\ NInv /\ BInv /\ (lost => diags > 0)

-------------------------------------------------------------------------------
(* The steps the parse functions are made of.                                  *)

Plain(s) == s \in Steps /\ s.op # "take" /\ s.op \notin Looks
Final(s) == s \in Steps /\ s.op # "take" /\ ~IsSlice(s)

\* A consumed token is one step, of a kind other than the end of the file.
LEMMA TokStep ==
  ASSUME NEW kinds, kinds \subseteq Kinds, NEW mode \in Modes
  PROVE  Plain(Tok(kinds, mode))
  BY DEF Plain, Tok, Steps, Looks

\* A token the grammar requires, its absence only reported.
LEMMA WantStep ==
  ASSUME NEW kind \in Kinds
  PROVE  Plain(Want(kind))
  <1>1. {kind} \subseteq Kinds /\ "want" \in Modes
    BY DEF Modes
  <1> QED
    BY <1>1, TokStep DEF Want

\* A call of a parse function.
LEMMA CallStep ==
  ASSUME NEW f \in Functions \ {"slice"}, NEW mode \in Modes
  PROVE  Plain(Call(f, mode))
  BY DEF Plain, Call, Steps, Looks

\* A token that may be there (cn_parser_match).
LEMMA OptStep ==
  ASSUME NEW kind \in Kinds
  PROVE  Plain(Opt(kind))
  BY DEF Plain, Opt, Steps, Looks

\* Setting whether the expression at hand is a place.
LEMMA PlaceStep ==
  ASSUME NEW b \in BOOLEAN
  PROVE  Plain(Place(b))
  BY DEF Plain, Place, Steps, Looks

\* The steps without an argument.
LEMMA SingleSteps == Plain(Fail) /\ Plain(Stop) /\ Plain(Guard) /\ Plain(Drop) /\ Plain(Target)
  BY DEF Plain, Fail, Stop, Guard, Drop, Target, Steps, Looks

\* A jump inside a parse function looks at the token and ends its list.
LEMMA GotoStep ==
  ASSUME NEW f \in Functions, f # "slice"
  PROVE  Final(Goto(f))
  BY DEF Final, Goto, Steps, IsSlice

\* The loop of an operator level ends its list.
LEMMA OperandsStep ==
  ASSUME NEW f \in Levels
  PROVE  Final(Operands(f))
  BY DEF Final, Operands, Steps, IsSlice

\* The loop over type prefixes ends its list.
LEMMA PrefixesStep ==
  ASSUME NEW n \in Nat
  PROVE  Final(PrefixesFrom(n))
  BY DEF Final, PrefixesFrom, Steps, IsSlice

\* A plain step may stand last too.
LEMMA PlainIsFinal ==
  ASSUME NEW s, Plain(s)
  PROVE  Final(s)
  BY DEF Plain, Final, IsSlice, Looks

\* cn_parser_advance on a token that was looked at.
LEMMA TakeStep == Take \in Steps /\ Take.op = "take"
  BY DEF Take, Steps

\* What a step of each kind carries.
LEMMA StepFields ==
  ASSUME NEW s \in Steps
  PROVE  /\ s.op = "consume" => "eof" \notin s.kinds
         /\ s.op = "call" => s.fn \in Functions \ {"slice"}
         /\ s.op = "goto" => s.fn \in Functions
         /\ s.op = "operands" => s.fn \in Levels
         /\ s.op = "prefixes" => s.n \in Nat
         /\ s.op = "opt" => s.kind # "eof"
         /\ s.op = "place" => s.is \in BOOLEAN
  <1>1. s.op = "consume" => "eof" \notin s.kinds
    BY DEF Steps, Kinds, Ident, PlainType
  <1>2. s.op = "call" => s.fn \in Functions \ {"slice"}
    BY DEF Steps
  <1>3. s.op = "goto" => s.fn \in Functions
    BY DEF Steps
  <1>4. s.op = "operands" => s.fn \in Levels
    BY DEF Steps
  <1>5. s.op = "prefixes" => s.n \in Nat
    BY DEF Steps
  <1>6. s.op = "opt" => s.kind # "eof"
    BY DEF Steps, Kinds, Ident, PlainType
  <1>7. s.op = "place" => s.is \in BOOLEAN
    BY DEF Steps
  <1> QED
    BY <1>1, <1>2, <1>3, <1>4, <1>5, <1>6, <1>7

-------------------------------------------------------------------------------
(* Lists of them.                                                              *)

\* A list without takes, of up to eight steps, is good whatever the room.
LEMMA Good0 ==
  ASSUME NEW room
  PROVE  Good(<<>>, room)
  BY DEF Good

LEMMA Good1 ==
  ASSUME NEW room, NEW a, Final(a)
  PROVE  Good(<<a>>, room)
  BY DEF Good, Final

\* The bracket loop is only entered before the last token.
LEMMA SliceGood ==
  ASSUME NEW room \in Int, room >= 1
  PROVE  Good(<<Goto("slice")>>, room)
  BY DEF Good, Goto, Steps, Functions, IsSlice, Looks

LEMMA Good2 ==
  ASSUME NEW room, NEW a, NEW b,
         Plain(a), Final(b)
  PROVE  Good(<<a, b>>, room)
  BY DEF Good, Plain, Final, IsSlice, Looks

LEMMA Good3 ==
  ASSUME NEW room, NEW a, NEW b, NEW c,
         Plain(a), Plain(b), Final(c)
  PROVE  Good(<<a, b, c>>, room)
  BY DEF Good, Plain, Final, IsSlice, Looks

LEMMA Good4 ==
  ASSUME NEW room, NEW a, NEW b, NEW c, NEW d,
         Plain(a), Plain(b), Plain(c), Final(d)
  PROVE  Good(<<a, b, c, d>>, room)
  BY DEF Good, Plain, Final, IsSlice, Looks

LEMMA Good5 ==
  ASSUME NEW room, NEW a, NEW b, NEW c, NEW d, NEW e,
         Plain(a), Plain(b), Plain(c), Plain(d), Final(e)
  PROVE  Good(<<a, b, c, d, e>>, room)
  BY DEF Good, Plain, Final, IsSlice, Looks

LEMMA Good6 ==
  ASSUME NEW room, NEW a, NEW b, NEW c, NEW d, NEW e, NEW f,
         Plain(a), Plain(b), Plain(c), Plain(d), Plain(e), Final(f)
  PROVE  Good(<<a, b, c, d, e, f>>, room)
  BY DEF Good, Plain, Final, IsSlice, Looks

LEMMA Good7 ==
  ASSUME NEW room, NEW a, NEW b, NEW c, NEW d, NEW e, NEW f, NEW g,
         Plain(a), Plain(b), Plain(c), Plain(d), Plain(e), Plain(f), Final(g)
  PROVE  Good(<<a, b, c, d, e, f, g>>, room)
  BY DEF Good, Plain, Final, IsSlice, Looks

LEMMA Good8 ==
  ASSUME NEW room, NEW a, NEW b, NEW c, NEW d, NEW e, NEW f, NEW g, NEW h,
         Plain(a), Plain(b), Plain(c), Plain(d), Plain(e), Plain(f), Plain(g), Final(h)
  PROVE  Good(<<a, b, c, d, e, f, g, h>>, room)
  BY DEF Good, Plain, Final, IsSlice, Looks

\* One take needs one token before the end, two need two, three need three.
LEMMA TakeGood1 ==
  ASSUME NEW room \in Int, room >= 1
  PROVE  Good(<<Take>>, room)
  BY TakeStep DEF Good, Looks, IsSlice

LEMMA TakeGood2 ==
  ASSUME NEW room \in Int, room >= 1, NEW b, Final(b)
  PROVE  Good(<<Take, b>>, room)
  BY TakeStep DEF Good, Looks, IsSlice, Plain, Final

LEMMA TakeGood3 ==
  ASSUME NEW room \in Int, room >= 1, NEW b, NEW c, Plain(b), Final(c)
  PROVE  Good(<<Take, b, c>>, room)
  BY TakeStep DEF Good, Looks, IsSlice, Plain, Final

LEMMA TakeGood4 ==
  ASSUME NEW room \in Int, room >= 1, NEW b, NEW c, NEW d, Plain(b), Plain(c), Final(d)
  PROVE  Good(<<Take, b, c, d>>, room)
  BY TakeStep DEF Good, Looks, IsSlice, Plain, Final

LEMMA TakeGood5 ==
  ASSUME NEW room \in Int, room >= 1, NEW b, NEW c, NEW d, NEW e,
         Plain(b), Plain(c), Plain(d), Final(e)
  PROVE  Good(<<Take, b, c, d, e>>, room)
  BY TakeStep DEF Good, Looks, IsSlice, Plain, Final

LEMMA TwoTakesGood3 ==
  ASSUME NEW room \in Int, room >= 2, NEW c, Final(c)
  PROVE  Good(<<Take, Take, c>>, room)
  BY TakeStep DEF Good, Looks, IsSlice, Plain, Final

LEMMA TwoTakesGood4 ==
  ASSUME NEW room \in Int, room >= 2, NEW c, NEW d, Plain(c), Final(d)
  PROVE  Good(<<Take, Take, c, d>>, room)
  BY TakeStep DEF Good, Looks, IsSlice, Plain, Final

LEMMA ThreeTakesGood5 ==
  ASSUME NEW room \in Int, room >= 3, NEW d, NEW e, Plain(d), Final(e)
  PROVE  Good(<<Take, Take, Take, d, e>>, room)
  BY TakeStep DEF Good, Looks, IsSlice, Plain, Final

-------------------------------------------------------------------------------
(* What each parse function goes on to do is such a list.                      *)

AtToken == input \in Inputs /\ index \in 1..Len(tokens)

\* A token other than the end of the file has another behind it.
LEMMA TokensFacts ==
  ASSUME AtToken
  PROVE  /\ tokens \in Seq(Kinds \cup {"eof"}) /\ Len(tokens) \in Nat /\ Room \in Nat
         /\ tokens[Len(tokens)] = "eof"
         /\ cn_parser_current # "eof" <=> Room >= 1
         /\ \A d \in Nat : cn_parser_peek(d) # "eof" => Room >= d + 1
  <1>1. /\ tokens \in Seq(Kinds \cup {"eof"})
        /\ \A i \in 1..Len(tokens) : tokens[i] = "eof" <=> i = Len(tokens)
    BY InputsAssumption DEF AtToken, tokens
  <1>2. Len(tokens) \in Nat
    BY <1>1, LenProperties
  <1> DEFINE n == Len(tokens)
  <1>3. /\ n \in Nat /\ index \in 1..n
        /\ \A i \in 1..n : tokens[i] = "eof" <=> i = n
    BY <1>1, <1>2 DEF AtToken
  <1>8. tokens[n] = "eof" /\ n \in 1..n
    BY <1>3
  <1>4. Room = n - index /\ cn_parser_current = tokens[index]
    BY DEF Room, cn_parser_current
  <1>5. \A d : cn_parser_peek(d) = tokens[IF index + d > n THEN n ELSE index + d]
    BY DEF cn_parser_peek
  <1> HIDE DEF n
  <1>6. cn_parser_current # "eof" <=> Room >= 1
    <2>1. tokens[index] # "eof" <=> index # n
      BY <1>3
    <2>2. Room >= 1 <=> index # n
      BY <1>3, <1>4
    <2> QED
      BY <1>4, <2>1, <2>2
  <1>7. \A d \in Nat : cn_parser_peek(d) # "eof" => Room >= d + 1
    <2> SUFFICES ASSUME NEW d \in Nat, cn_parser_peek(d) # "eof"
                 PROVE  Room >= d + 1
      OBVIOUS
    <2>1. ~(index + d > n)
      BY <1>3, <1>5, <1>8
    <2>2. index + d # n
      BY <1>3, <1>5, <1>8, <2>1
    <2> QED
      BY <1>3, <1>4, <2>1, <2>2
  <1> QED
    BY <1>1, <1>2, <1>3, <1>4, <1>6, <1>7, <1>8 DEF n

\* The tokens, the calls and the jumps that occur in the parse functions.
LEMMA TokenSteps ==
  /\ Plain(Want("]")) /\ Plain(Want("{")) /\ Plain(Want("}")) /\ Plain(Want(":"))
  /\ Plain(Want(")")) /\ Plain(Want("=")) /\ Plain(Want(";")) /\ Plain(Want("in"))
  /\ Plain(Want("..")) /\ Plain(Tok(Ident, "bail")) /\ Plain(Tok(Ident, "need"))
  /\ Plain(Tok({"{"}, "bail")) /\ Plain(Tok(Ident \cup {"ok"}, "stop"))
  /\ Plain(Tok(Ident, "want")) /\ Plain(Tok({":"}, "bail")) /\ Plain(Tok({"="}, "bail"))
  /\ Plain(Tok({"("}, "bail")) /\ Plain(Tok({")"}, "bail")) /\ Plain(Opt(","))
  /\ Plain(Opt("mut"))
  <1>1. /\ Ident \subseteq Kinds /\ Ident \cup {"ok"} \subseteq Kinds
        /\ {"("} \subseteq Kinds /\ {")"} \subseteq Kinds /\ {":"} \subseteq Kinds
        /\ {"="} \subseteq Kinds /\ {"{"} \subseteq Kinds
        /\ "]" \in Kinds /\ "{" \in Kinds /\ "}" \in Kinds /\ ":" \in Kinds /\ ")" \in Kinds
        /\ "=" \in Kinds /\ ";" \in Kinds /\ "in" \in Kinds /\ ".." \in Kinds /\ "," \in Kinds
        /\ "mut" \in Kinds
    BY DEF Ident, PlainType, Kinds
  <1>2. "bail" \in Modes /\ "need" \in Modes /\ "want" \in Modes /\ "stop" \in Modes
    BY DEF Modes
  <1>3. /\ Plain(Want("]")) /\ Plain(Want("{")) /\ Plain(Want("}")) /\ Plain(Want(":"))
        /\ Plain(Want(")")) /\ Plain(Want("=")) /\ Plain(Want(";")) /\ Plain(Want("in"))
        /\ Plain(Want(".."))
    BY <1>1, WantStep
  <1>4. Plain(Opt(",")) /\ Plain(Opt("mut"))
    BY <1>1, OptStep
  <1>5. /\ Plain(Tok(Ident, "bail")) /\ Plain(Tok(Ident, "need")) /\ Plain(Tok({"{"}, "bail"))
        /\ Plain(Tok(Ident \cup {"ok"}, "stop")) /\ Plain(Tok(Ident, "want"))
        /\ Plain(Tok({":"}, "bail")) /\ Plain(Tok({"="}, "bail")) /\ Plain(Tok({"("}, "bail"))
        /\ Plain(Tok({")"}, "bail"))
    BY <1>1, <1>2, TokStep
  <1> QED
    BY <1>3, <1>4, <1>5

\* The calls that occur in the parse functions.
LEMMA CallSteps ==
  /\ Plain(Call("type_atom", "bail")) /\ Plain(Call("expression", "need"))
  /\ Plain(Call("expression", "stop")) /\ Plain(Call("type", "bail"))
  /\ Plain(Call("if_branch", "need")) /\ Plain(Call("if_expression", "bail"))
  /\ Plain(Call("if_branch", "bail")) /\ Plain(Call("alloc", "bail"))
  /\ Plain(Call("struct_literal", "bail")) /\ Plain(Call("array_literal", "bail"))
  /\ Plain(Call("expression", "same")) /\ Plain(Call("primary", "bail"))
  /\ Plain(Call("unary", "bail")) /\ Plain(Call("postfix", "bail"))
  /\ Plain(Call("expression", "bail")) /\ Plain(Call("or", "bail"))
  /\ Plain(Call("type", "need")) /\ Plain(Call("expression", "want"))
  /\ Plain(Call("free_statement", "need")) /\ Plain(Call("block", "need"))
  /\ Plain(Call("if_statement", "want")) /\ Plain(Call("block", "want"))
  /\ Plain(Call("block", "bail")) /\ Plain(Call("let_statement", "bail"))
  /\ Plain(Call("return_statement", "bail")) /\ Plain(Call("zone_statement", "bail"))
  /\ Plain(Call("try_statement", "bail")) /\ Plain(Call("free_statement", "bail"))
  /\ Plain(Call("defer_statement", "bail")) /\ Plain(Call("if_statement", "bail"))
  /\ Plain(Call("while_statement", "bail")) /\ Plain(Call("loop_statement", "bail"))
  /\ Plain(Call("for_statement", "bail")) /\ Plain(Call("assignment_or_expr", "bail"))
  /\ Plain(Call("statement", "statement")) /\ Plain(Call("import_decl", "toplevel"))
  /\ Plain(Call("const_decl", "toplevel")) /\ Plain(Call("struct_decl", "toplevel"))
  /\ Plain(Call("function", "toplevel")) /\ Plain(Call("unexpected", "toplevel"))
  <1>1. /\ "alloc" \in Functions \ {"slice"} /\ "array_literal" \in Functions \ {"slice"}
        /\ "assignment_or_expr" \in Functions \ {"slice"} /\ "block" \in Functions \ {"slice"}
        /\ "const_decl" \in Functions \ {"slice"} /\ "defer_statement" \in Functions \ {"slice"}
        /\ "expression" \in Functions \ {"slice"} /\ "for_statement" \in Functions \ {"slice"}
        /\ "free_statement" \in Functions \ {"slice"} /\ "function" \in Functions \ {"slice"}
        /\ "if_branch" \in Functions \ {"slice"} /\ "if_expression" \in Functions \ {"slice"}
        /\ "if_statement" \in Functions \ {"slice"} /\ "import_decl" \in Functions \ {"slice"}
        /\ "let_statement" \in Functions \ {"slice"} /\ "loop_statement" \in Functions \ {"slice"}
        /\ "or" \in Functions \ {"slice"} /\ "postfix" \in Functions \ {"slice"}
        /\ "primary" \in Functions \ {"slice"} /\ "return_statement" \in Functions \ {"slice"}
        /\ "statement" \in Functions \ {"slice"} /\ "struct_decl" \in Functions \ {"slice"}
        /\ "struct_literal" \in Functions \ {"slice"} /\ "try_statement" \in Functions \ {"slice"}
        /\ "type" \in Functions \ {"slice"} /\ "type_atom" \in Functions \ {"slice"}
        /\ "unary" \in Functions \ {"slice"} /\ "unexpected" \in Functions \ {"slice"}
        /\ "while_statement" \in Functions \ {"slice"}
        /\ "zone_statement" \in Functions \ {"slice"}
    BY DEF Functions, Levels
  <1>2. \A m \in {"bail", "need", "want", "stop", "same", "statement", "toplevel"} : m \in Modes
    BY DEF Modes
  <1> QED
    BY <1>1, <1>2, CallStep

\* The steps some function ends with.
LEMMA LastSteps ==
  /\ Final(Tok(Ident, "bail")) /\ Final(Fail) /\ Final(Drop) /\ Final(Want("]"))
  /\ Final(Want("}")) /\ Final(Place(FALSE)) /\ Final(Call("alloc", "bail"))
  /\ Final(Call("if_expression", "bail")) /\ Final(Place(TRUE)) /\ Final(Want(")"))
  /\ Final(Stop) /\ Final(Call("expression", "stop")) /\ Final(Call("postfix", "bail"))
  /\ Final(Call("or", "bail")) /\ Final(Want(";")) /\ Final(Call("free_statement", "need"))
  /\ Final(Call("if_statement", "want")) /\ Final(Call("block", "want"))
  /\ Final(Call("block", "need")) /\ Final(Call("block", "bail")) /\ Final(Target)
  /\ Final(Call("let_statement", "bail")) /\ Final(Call("return_statement", "bail"))
  /\ Final(Call("zone_statement", "bail")) /\ Final(Call("try_statement", "bail"))
  /\ Final(Call("free_statement", "bail")) /\ Final(Call("defer_statement", "bail"))
  /\ Final(Call("if_statement", "bail")) /\ Final(Call("while_statement", "bail"))
  /\ Final(Call("loop_statement", "bail")) /\ Final(Call("for_statement", "bail"))
  /\ Final(Call("assignment_or_expr", "bail"))
  BY TokenSteps, CallSteps, SingleSteps, PlaceStep, PlainIsFinal

\* The jumps that occur in the parse functions.
LEMMA GotoSteps ==
  /\ Final(Goto("type_suffix")) /\ Final(Goto("type_sized")) /\ Final(Goto("array_items"))
  /\ Final(Goto("array_more")) /\ Final(Goto("field_inits"))
  /\ Final(Goto("field_init_end")) /\ Final(Goto("if_expr_else"))
  /\ Final(Goto("postfix_loop")) /\ Final(Goto("arguments")) /\ Final(Goto("index"))
  /\ Final(Goto("arguments_more")) /\ Final(Goto("index_end")) /\ Final(Goto("else"))
  /\ Final(Goto("assignment")) /\ Final(Goto("statements")) /\ Final(Goto("import_path"))
  /\ Final(Goto("struct_fields")) /\ Final(Goto("parameters")) /\ Final(Goto("parameter"))
  /\ Final(Goto("parameter_end")) /\ Final(Goto("program"))
  <1>1. /\ "arguments" \in Functions /\ "arguments_more" \in Functions
        /\ "array_items" \in Functions /\ "array_more" \in Functions /\ "assignment" \in Functions
        /\ "else" \in Functions /\ "field_init_end" \in Functions /\ "field_inits" \in Functions
        /\ "if_expr_else" \in Functions /\ "import_path" \in Functions /\ "index" \in Functions
        /\ "index_end" \in Functions /\ "parameter" \in Functions /\ "parameter_end" \in Functions
        /\ "parameters" \in Functions /\ "postfix_loop" \in Functions /\ "program" \in Functions
        /\ "statements" \in Functions /\ "struct_fields" \in Functions
        /\ "type_sized" \in Functions /\ "type_suffix" \in Functions
    BY DEF Functions, Levels
  <1> QED
    BY <1>1, GotoStep

\* Marking a place, and unmarking it.
LEMMA PlaceSteps == Plain(Place(TRUE)) /\ Plain(Place(FALSE))
  BY PlaceStep

\* The six levels of operators call each other and then the unary ones.
LEMMA ChainFacts ==
  /\ DOMAIN BinaryChain = Levels
  /\ \A f \in Levels : /\ BinaryChain[f].sub \in Functions \ {"slice"}
                        /\ "eof" \notin BinaryChain[f].kinds
  <1>1. DOMAIN BinaryChain = Levels
    BY DEF BinaryChain, Levels
  <1>2. \A f \in Levels : BinaryChain[f].sub \in Functions \ {"slice"}
    BY DEF BinaryChain, Levels, Functions
  <1>3. \A f \in Levels : "eof" \notin BinaryChain[f].kinds
    BY DEF BinaryChain, Levels
  <1> QED
    BY <1>1, <1>2, <1>3

\* Joining short lists.
LEMMA JoinOne ==
  ASSUME NEW a, NEW c, NEW d, NEW e
  PROVE  <<a>> \o <<c, d, e>> = <<a, c, d, e>>
  <1> DEFINE S == {a, c, d, e}
             head == <<a>>
             rest == <<c, d, e>>
             all == <<a, c, d, e>>
  <1>1. head \in Seq(S) /\ rest \in Seq(S) /\ all \in Seq(S)
    OBVIOUS
  <1>2. /\ Len(head) = 1 /\ Len(rest) = 3 /\ Len(all) = 4
        /\ head[1] = a /\ rest[1] = c /\ rest[2] = d /\ rest[3] = e
        /\ all[1] = a /\ all[2] = c /\ all[3] = d /\ all[4] = e
    OBVIOUS
  <1> HIDE DEF S, head, rest, all
  <1>3. /\ head \o rest \in Seq(S) /\ Len(head \o rest) = Len(head) + Len(rest)
        /\ \A i \in 1 .. Len(head) + Len(rest) :
             (head \o rest)[i] = IF i <= Len(head) THEN head[i] ELSE rest[i - Len(head)]
    BY ONLY <1>1, ConcatProperties
  <1>4. /\ Len(head \o rest) = 4
        /\ \A i \in 1 .. 4 : (head \o rest)[i] = IF i <= 1 THEN head[i] ELSE rest[i - 1]
    BY ONLY <1>2, <1>3
  <1>5. \A i \in 1 .. 4 : (head \o rest)[i] = all[i]
    BY ONLY <1>2, <1>4
  <1>6. head \o rest = all
    BY <1>1, <1>2, <1>3, <1>4, <1>5, SeqEqual
  <1> QED
    BY <1>6 DEF head, rest, all

\* Two steps in front of three.
LEMMA JoinTwo ==
  ASSUME NEW a, NEW b, NEW c, NEW d, NEW e
  PROVE  <<a, b>> \o <<c, d, e>> = <<a, b, c, d, e>>
  <1> DEFINE S == {a, b, c, d, e}
             head == <<a, b>>
             rest == <<c, d, e>>
             all == <<a, b, c, d, e>>
  <1>1. head \in Seq(S) /\ rest \in Seq(S) /\ all \in Seq(S)
    OBVIOUS
  <1>2. /\ Len(head) = 2 /\ Len(rest) = 3 /\ Len(all) = 5
        /\ head[1] = a /\ head[2] = b /\ rest[1] = c /\ rest[2] = d /\ rest[3] = e
        /\ all[1] = a /\ all[2] = b /\ all[3] = c /\ all[4] = d /\ all[5] = e
    OBVIOUS
  <1> HIDE DEF S, head, rest, all
  <1>3. /\ head \o rest \in Seq(S) /\ Len(head \o rest) = Len(head) + Len(rest)
        /\ \A i \in 1 .. Len(head) + Len(rest) :
             (head \o rest)[i] = IF i <= Len(head) THEN head[i] ELSE rest[i - Len(head)]
    BY ONLY <1>1, ConcatProperties
  <1>4. /\ Len(head \o rest) = 5
        /\ \A i \in 1 .. 5 : (head \o rest)[i] = IF i <= 2 THEN head[i] ELSE rest[i - 2]
    BY ONLY <1>2, <1>3
  <1>5. \A i \in 1 .. 5 : (head \o rest)[i] = all[i]
    BY ONLY <1>2, <1>4
  <1>6. head \o rest = all
    BY <1>1, <1>2, <1>3, <1>4, <1>5, SeqEqual
  <1> QED
    BY <1>6 DEF head, rest, all

\* Types.
LEMMA TypeBodies ==
  ASSUME AtToken
  PROVE  /\ Good(cn_parse_type_atom, Room)
         /\ Good(TypeSuffix, Room)
         /\ Good(TypeSized(TRUE), Room)
         /\ Good(TypeSized(FALSE), Room)
  <1>1. Room \in Int /\ (cn_parser_current # "eof" => Room >= 1)
    BY TokensFacts
  <1>2. /\ cn_parser_peek(1) # "eof" => Room >= 2
        /\ cn_parser_peek(2) # "eof" => Room >= 3
    <2>1. \A d \in Nat : cn_parser_peek(d) # "eof" => Room >= d + 1
      BY TokensFacts
    <2>2. 1 \in Nat /\ 2 \in Nat
      OBVIOUS
    <2> QED
      BY ONLY <2>1, <2>2, <1>1
  <1>10. Good(cn_parse_type_atom, Room)
    BY ONLY <1>1, <1>2, LastSteps, TakeGood1, TwoTakesGood3, Good1 DEF cn_parse_type_atom, Ident,
       PlainType
  <1>11. Good(TypeSuffix, Room)
    BY ONLY <1>1, TokenSteps, CallSteps, GotoSteps, TakeGood4, Good0 DEF TypeSuffix
  <1>12. Good(TypeSized(TRUE), Room)
    BY ONLY GotoSteps, LastSteps, Good1 DEF TypeSized
  <1>13. Good(TypeSized(FALSE), Room)
    BY ONLY GotoSteps, LastSteps, Good1 DEF TypeSized
  <1> QED
    BY ONLY <1>10, <1>11, <1>12, <1>13

\* Literals, allocations and if expressions.
LEMMA LiteralBodies ==
  ASSUME AtToken
  PROVE  /\ Good(cn_parse_array_literal, Room)
         /\ Good(ArrayItems, Room)
         /\ Good(ArrayMore, Room)
         /\ Good(cn_parse_struct_literal, Room)
         /\ Good(FieldInits, Room)
         /\ Good(FieldInitEnd(TRUE), Room)
         /\ Good(FieldInitEnd(FALSE), Room)
         /\ Good(cn_parse_alloc_expression, Room)
         /\ Good(cn_parse_if_expression_branch, Room)
         /\ Good(cn_parse_if_expression, Room)
         /\ Good(IfExpressionElse, Room)
  <1>1. Room \in Int /\ (cn_parser_current # "eof" => Room >= 1)
    BY TokensFacts
  <1>2. /\ cn_parser_peek(1) # "eof" => Room >= 2
        /\ cn_parser_peek(2) # "eof" => Room >= 3
    <2>1. \A d \in Nat : cn_parser_peek(d) # "eof" => Room >= d + 1
      BY TokensFacts
    <2>2. 1 \in Nat /\ 2 \in Nat
      OBVIOUS
    <2> QED
      BY ONLY <2>1, <2>2, <1>1
  <1>10. Good(cn_parse_array_literal, Room)
    BY ONLY <1>1, CallSteps, GotoSteps, TakeGood1, Good2 DEF cn_parse_array_literal
  <1>11. Good(ArrayItems, Room)
    BY ONLY <1>1, TokenSteps, CallSteps, GotoSteps, LastSteps, TakeGood3, Good1 DEF ArrayItems
  <1>12. Good(ArrayMore, Room)
    BY ONLY <1>1, TokenSteps, CallSteps, GotoSteps, LastSteps, TakeGood3, Good1 DEF ArrayMore
  <1>13. Good(cn_parse_struct_literal, Room)
    BY ONLY TokenSteps, GotoSteps, Good2 DEF cn_parse_struct_literal
  <1>14. Good(FieldInits, Room)
    BY ONLY TokenSteps, CallSteps, GotoSteps, LastSteps, Good1, Good4 DEF FieldInits
  <1>15. Good(FieldInitEnd(TRUE), Room)
    BY ONLY TokenSteps, GotoSteps, Good2 DEF FieldInitEnd
  <1>16. Good(FieldInitEnd(FALSE), Room)
    BY ONLY SingleSteps, LastSteps, Good2 DEF FieldInitEnd
  <1>17. Good(cn_parse_alloc_expression, Room)
    BY ONLY CallSteps, LastSteps, Good2 DEF cn_parse_alloc_expression
  <1>18. Good(cn_parse_if_expression_branch, Room)
    BY ONLY TokenSteps, CallSteps, LastSteps, Good3 DEF cn_parse_if_expression_branch
  <1>19. Good(cn_parse_if_expression, Room)
    BY ONLY CallSteps, SingleSteps, GotoSteps, Good4 DEF cn_parse_if_expression
  <1>20. Good(IfExpressionElse, Room)
    BY ONLY <1>1, <1>2, CallSteps, PlaceSteps, LastSteps, SingleSteps, TakeGood3, TwoTakesGood4,
       Good1 DEF IfExpressionElse
  <1> QED
    BY ONLY <1>10, <1>11, <1>12, <1>13, <1>14, <1>15, <1>16, <1>17, <1>18, <1>19, <1>20

\* Expressions.
LEMMA ExpressionBodies ==
  ASSUME AtToken
  PROVE  /\ Good(cn_parse_primary, Room)
         /\ Good(cn_parse_postfix, Room)
         /\ Good(PostfixLoop, Room)
         /\ Good(Arguments, Room)
         /\ Good(ArgumentsMore, Room)
         /\ Good(Index, Room)
         /\ Good(IndexEnd, Room)
         /\ Room >= 1 => Good(Slice, Room)
         /\ Good(cn_parse_unary, Room)
         /\ Good(cn_parse_ok_expression, Room)
  <1>1. Room \in Int /\ (cn_parser_current # "eof" => Room >= 1)
    BY TokensFacts
  <1>2. /\ cn_parser_peek(1) # "eof" => Room >= 2
        /\ cn_parser_peek(2) # "eof" => Room >= 3
    <2>1. \A d \in Nat : cn_parser_peek(d) # "eof" => Room >= d + 1
      BY TokensFacts
    <2>2. 1 \in Nat /\ 2 \in Nat
      OBVIOUS
    <2> QED
      BY ONLY <2>1, <2>2, <1>1
  <1>10. Good(cn_parse_primary, Room)
    BY ONLY <1>1, <1>2, TokenSteps, CallSteps, PlaceSteps, LastSteps, TakeGood2, TakeGood3,
       ThreeTakesGood5, Good1 DEF cn_parse_primary, StartsLiteral, Ident
  <1>11. Good(cn_parse_postfix, Room)
    BY ONLY CallSteps, GotoSteps, Good2 DEF cn_parse_postfix
  <1>12. Good(PostfixLoop, Room)
    BY ONLY <1>1, TokenSteps, PlaceSteps, GotoSteps, TakeGood2, TakeGood3, TakeGood4, Good0 DEF
       PostfixLoop
  <1>13. Good(Arguments, Room)
    BY ONLY <1>1, CallSteps, GotoSteps, TakeGood2, Good2 DEF Arguments
  <1>14. Good(ArgumentsMore, Room)
    BY ONLY <1>1, TokenSteps, CallSteps, GotoSteps, TakeGood3, Good2 DEF ArgumentsMore
  <1>15. Good(Index, Room)
    BY ONLY <1>1, CallSteps, GotoSteps, LastSteps, TakeGood2, SliceGood, Good2 DEF Index
  <1>16. Good(IndexEnd, Room)
    BY ONLY <1>1, TokenSteps, PlaceSteps, GotoSteps, SliceGood, Good3 DEF IndexEnd
  <1>17. Room >= 1 => Good(Slice, Room)
    <2> DEFINE c == Call("expression", "stop")
               w == Want("]")
               p == Place(FALSE)
               g == Goto("postfix_loop")
    <2>1. Plain(c) /\ Plain(w) /\ Plain(p) /\ Final(g)
      BY ONLY TokenSteps, CallSteps, PlaceSteps, GotoSteps
    <2>2. Slice = (IF cn_parser_peek(1) = "]" THEN <<Take>> ELSE <<Take, c>>) \o <<w, p, g>>
      BY DEF Slice
    <2> HIDE DEF c, w, p, g
    <2>3. <<Take>> \o <<w, p, g>> = <<Take, w, p, g>>
      BY ONLY JoinOne
    <2>4. <<Take, c>> \o <<w, p, g>> = <<Take, c, w, p, g>>
      BY ONLY JoinTwo
    <2>5. Room >= 1 => Good(<<Take, w, p, g>>, Room) /\ Good(<<Take, c, w, p, g>>, Room)
      BY ONLY <2>1, <1>1, TakeGood4, TakeGood5
    <2> QED
      BY ONLY <1>1, <2>2, <2>3, <2>4, <2>5
  <1>18. Good(cn_parse_unary, Room)
    BY ONLY <1>1, CallSteps, LastSteps, TakeGood3, Good1 DEF cn_parse_unary
  <1>19. Good(cn_parse_ok_expression, Room)
    BY ONLY <1>1, CallSteps, LastSteps, TakeGood3, Good1 DEF cn_parse_ok_expression
  <1> QED
    BY ONLY <1>10, <1>11, <1>12, <1>13, <1>14, <1>15, <1>16, <1>17, <1>18, <1>19

\* Statements.
LEMMA StatementBodies ==
  ASSUME AtToken
  PROVE  /\ Good(cn_parse_let_statement, Room)
         /\ Good(cn_parse_return_statement, Room)
         /\ Good(cn_parse_try_statement, Room)
         /\ Good(cn_parse_free_statement, Room)
         /\ Good(cn_parse_defer_statement, Room)
         /\ Good(cn_parse_if_statement, Room)
         /\ Good(Else, Room)
         /\ Good(cn_parse_while_statement, Room)
         /\ Good(cn_parse_loop_statement, Room)
         /\ Good(cn_parse_zone_statement, Room)
         /\ Good(cn_parse_for_statement, Room)
         /\ Good(cn_parse_assignment_or_expr_statement, Room)
         /\ Good(Assignment, Room)
         /\ Good(cn_parse_statement, Room)
         /\ Good(cn_parse_block, Room)
         /\ Good(Statements, Room)
  <1>1. Room \in Int /\ (cn_parser_current # "eof" => Room >= 1)
    BY TokensFacts
  <1>2. /\ cn_parser_peek(1) # "eof" => Room >= 2
        /\ cn_parser_peek(2) # "eof" => Room >= 3
    <2>1. \A d \in Nat : cn_parser_peek(d) # "eof" => Room >= d + 1
      BY TokensFacts
    <2>2. 1 \in Nat /\ 2 \in Nat
      OBVIOUS
    <2> QED
      BY ONLY <2>1, <2>2, <1>1
  <1>10. Good(cn_parse_let_statement, Room)
    <2>1. /\ Plain(Opt("mut")) /\ Plain(Tok(Ident, "need")) /\ Plain(Want(":"))
          /\ Plain(Call("type", "need")) /\ Plain(Want("=")) /\ Plain(Call("expression", "need"))
          /\ Final(Want(";"))
      BY ONLY TokenSteps, CallSteps, LastSteps
    <2> QED
      BY ONLY <2>1, Good7 DEF cn_parse_let_statement
  <1>11. Good(cn_parse_return_statement, Room)
    BY ONLY <1>1, TokenSteps, CallSteps, LastSteps, TakeGood1, Good2 DEF cn_parse_return_statement
  <1>12. Good(cn_parse_try_statement, Room)
    BY ONLY TokenSteps, CallSteps, LastSteps, Good4 DEF cn_parse_try_statement
  <1>13. Good(cn_parse_free_statement, Room)
    BY ONLY CallSteps, LastSteps, Good2 DEF cn_parse_free_statement
  <1>14. Good(cn_parse_defer_statement, Room)
    BY ONLY <1>1, CallSteps, LastSteps, TakeGood2, Good2 DEF cn_parse_defer_statement
  <1>15. Good(cn_parse_if_statement, Room)
    BY ONLY CallSteps, SingleSteps, GotoSteps, Good4 DEF cn_parse_if_statement
  <1>16. Good(Else, Room)
    BY ONLY <1>1, <1>2, LastSteps, TakeGood2, TwoTakesGood3, Good0 DEF Else
  <1>17. Good(cn_parse_while_statement, Room)
    BY ONLY CallSteps, LastSteps, Good2 DEF cn_parse_while_statement
  <1>18. Good(cn_parse_loop_statement, Room)
    BY ONLY LastSteps, Good1 DEF cn_parse_loop_statement
  <1>19. Good(cn_parse_zone_statement, Room)
    BY ONLY LastSteps, Good1 DEF cn_parse_zone_statement
  <1>20. Good(cn_parse_for_statement, Room)
    <2>1. /\ Plain(Tok(Ident, "need")) /\ Plain(Want(":")) /\ Plain(Call("type", "need"))
          /\ Plain(Want("in")) /\ Plain(Call("expression", "need")) /\ Plain(Want(".."))
          /\ Final(Call("block", "need"))
      BY ONLY TokenSteps, CallSteps, LastSteps
    <2> QED
      BY ONLY <2>1, Good8 DEF cn_parse_for_statement
  <1>21. Good(cn_parse_assignment_or_expr_statement, Room)
    BY ONLY CallSteps, GotoSteps, Good2 DEF cn_parse_assignment_or_expr_statement
  <1>22. Good(Assignment, Room)
    BY ONLY <1>1, TokenSteps, CallSteps, SingleSteps, LastSteps, TakeGood5, Good1 DEF Assignment
  <1>23. Good(cn_parse_statement, Room)
    BY ONLY <1>1, LastSteps, TakeGood2, Good1 DEF cn_parse_statement
  <1>24. Good(cn_parse_block, Room)
    BY ONLY TokenSteps, GotoSteps, Good2 DEF cn_parse_block
  <1>25. Good(Statements, Room)
    BY ONLY CallSteps, GotoSteps, LastSteps, Good1, Good2 DEF Statements
  <1> QED
    BY ONLY <1>10, <1>11, <1>12, <1>13, <1>14, <1>15, <1>16, <1>17, <1>18, <1>19, <1>20, <1>21,
       <1>22, <1>23, <1>24, <1>25

\* Declarations.
LEMMA DeclarationBodies ==
  ASSUME AtToken
  PROVE  /\ Good(cn_parse_import_decl, Room)
         /\ Good(cn_parser_parse_import_path, Room)
         /\ Good(cn_parse_const_decl, Room)
         /\ Good(cn_parse_struct_decl, Room)
         /\ Good(StructFields, Room)
         /\ Good(cn_parse_function, Room)
         /\ Good(Parameters, Room)
         /\ Good(Parameter, Room)
         /\ Good(ParameterEnd, Room)
         /\ Good(cn_parse_program, Room)
  <1>1. Room \in Int /\ (cn_parser_current # "eof" => Room >= 1)
    BY TokensFacts
  <1>10. Good(cn_parse_import_decl, Room)
    BY ONLY TokenSteps, GotoSteps, Good2 DEF cn_parse_import_decl
  <1>11. Good(cn_parser_parse_import_path, Room)
    BY ONLY <1>1, TokenSteps, GotoSteps, LastSteps, TakeGood3, Good1 DEF cn_parser_parse_import_path
  <1>12. Good(cn_parse_const_decl, Room)
    BY ONLY TokenSteps, CallSteps, LastSteps, Good6 DEF cn_parse_const_decl
  <1>13. Good(cn_parse_struct_decl, Room)
    BY ONLY TokenSteps, GotoSteps, Good3 DEF cn_parse_struct_decl
  <1>14. Good(StructFields, Room)
    BY ONLY TokenSteps, CallSteps, GotoSteps, LastSteps, SingleSteps, Good1, Good6 DEF StructFields
  <1>15. Good(cn_parse_function, Room)
    BY ONLY TokenSteps, CallSteps, GotoSteps, Good5 DEF cn_parse_function
  <1>16. Good(Parameters, Room)
    BY ONLY <1>1, GotoSteps, LastSteps, TakeGood2, Good1 DEF Parameters
  <1>17. Good(Parameter, Room)
    BY ONLY TokenSteps, CallSteps, SingleSteps, GotoSteps, Good5 DEF Parameter
  <1>18. Good(ParameterEnd, Room)
    BY ONLY <1>1, TokenSteps, GotoSteps, LastSteps, TakeGood2, Good2 DEF ParameterEnd
  <1>19. Good(cn_parse_program, Room)
    BY ONLY <1>1, CallSteps, GotoSteps, TakeGood3, Good0, Good2 DEF cn_parse_program
  <1> QED
    BY ONLY <1>10, <1>11, <1>12, <1>13, <1>14, <1>15, <1>16, <1>17, <1>18, <1>19

\* What any function does when it is called, or from where it goes on.
LEMMA BodyGood ==
  ASSUME AtToken, NEW f \in Functions, NEW ok \in BOOLEAN,
         f = "slice" => Room >= 1
  PROVE  Good(Body(f, ok), Room)
  <1>1. Good(<<Fail>>, Room)
    BY ONLY LastSteps, Good1
  <1>2. Good(TypeSized(ok), Room) /\ Good(FieldInitEnd(ok), Room)
    <2>1. ok = TRUE \/ ok = FALSE
      OBVIOUS
    <2> QED
      BY ONLY <2>1, TypeBodies, LiteralBodies, AtToken
  <1>3. f \in Levels => Good(cn_parse_binary_chain(f), Room)
    <2> SUFFICES ASSUME f \in Levels PROVE Good(cn_parse_binary_chain(f), Room)
      OBVIOUS
    <2>1. BinaryChain[f].sub \in Functions \ {"slice"} /\ "bail" \in Modes
      BY ChainFacts DEF Modes
    <2>2. Plain(Call(BinaryChain[f].sub, "bail")) /\ Final(Operands(f))
      BY <2>1, CallStep, OperandsStep
    <2> QED
      BY ONLY <2>2, Good2 DEF cn_parse_binary_chain
  <1>4. Good(cn_parse_type, Room)
    <2>1. Final(PrefixesFrom(0))
      BY PrefixesStep
    <2> QED
      BY ONLY <2>1, Good1 DEF cn_parse_type
  <1>5. DOMAIN BinaryChain = Levels
    BY ChainFacts
  <1> QED
    BY ONLY <1>1, <1>2, <1>3, <1>4, <1>5, AtToken, f \in Functions,
            f = "slice" => Room >= 1,
            TypeBodies, LiteralBodies, ExpressionBodies, StatementBodies, DeclarationBodies
       DEF Body, Functions, Levels

\* What the loop over type prefixes does next.
LEMMA PrefixesGood ==
  ASSUME AtToken, NEW n \in Nat
  PROVE  Good(TypePrefixes(n), Room)
  <1>1. Room \in Int /\ (cn_parser_current # "eof" => Room >= 1)
    BY TokensFacts
  <1>2. AtPrefix(n) => cn_parser_current # "eof"
    BY DEF AtPrefix
  <1>3. Final(PrefixesFrom(n + 1))
    BY PrefixesStep
  <1> QED
    BY ONLY <1>1, <1>2, <1>3, CallSteps, GotoSteps, LastSteps, Good1, Good2, TakeGood2
       DEF TypePrefixes

\* What the loop of an operator level does next.
LEMMA OperandsGood ==
  ASSUME AtToken, NEW f \in Levels
  PROVE  Good(MoreOperands(f), Room)
  <1>1. Room \in Int /\ (cn_parser_current # "eof" => Room >= 1)
    BY TokensFacts
  <1>2. /\ BinaryChain[f].sub \in Functions \ {"slice"} /\ "stop" \in Modes
        /\ "eof" \notin BinaryChain[f].kinds
    BY ChainFacts DEF Modes
  <1>3. /\ Plain(Call(BinaryChain[f].sub, "stop")) /\ Plain(Place(FALSE)) /\ Final(Operands(f))
    BY <1>2, CallStep, OperandsStep, PlaceSteps
  <1>4. Good(<<>>, Room) /\ (Room >= 1 =>
          Good(<<Take, Call(BinaryChain[f].sub, "stop"), Place(FALSE), Operands(f)>>, Room))
    BY ONLY <1>1, <1>3, TakeGood4, Good0
  <1> QED
    BY ONLY <1>1, <1>2, <1>4 DEF MoreOperands

-------------------------------------------------------------------------------
(* Going on with a list.                                                       *)

\* The head and the tail of a good list.
LEMMA GoodParts ==
  ASSUME NEW t, NEW room \in Int, Good(t, room), t # <<>>
  PROVE  /\ t \in Seq(Steps) /\ Tail(t) \in Seq(Steps) /\ Head(t) = t[1] /\ Head(t) \in Steps
         /\ Len(t) \in Nat \ {0} /\ Len(Tail(t)) = Len(t) - 1
         /\ \A i \in 1 .. Len(Tail(t)) : Tail(t)[i] = t[i + 1]
  <1>1. t \in Seq(Steps)
    BY DEF Good
  <1>2. Head(t) = t[1]
    BY <1>1
  <1> QED
    BY <1>1, <1>2, HeadTailProperties, EmptySeq

\* The step at the head is done; the parser moved on by at most one token.
LEMMA TailGood ==
  ASSUME NEW t, NEW room \in Int, Good(t, room), t # <<>>, NEW r \in Int, r >= room - 1
  PROVE  Good(Tail(t), r)
  <1> DEFINE n == Len(t)
             u == Tail(t)
             m == Len(u)
  <1>1. u \in Seq(Steps) /\ n \in Nat /\ m = n - 1 /\ \A i \in 1 .. m : u[i] = t[i + 1]
    BY GoodParts
  <1>2. \A i \in 1 .. n : /\ t[i].op = "take" => i <= room /\ \A j \in 1 .. i : t[j].op = "take"
                          /\ t[i].op \in Looks => i = n
                          /\ IsSlice(t[i]) => i = 1 /\ room >= 1
    BY DEF Good
  <1> HIDE DEF n, m, u
  <1>3. ASSUME NEW i \in 1 .. m
        PROVE  /\ u[i].op = "take" => i <= r /\ \A j \in 1 .. i : u[j].op = "take"
               /\ u[i].op \in Looks => i = m
               /\ ~IsSlice(u[i])
    <2>1. i + 1 \in 1 .. n /\ u[i] = t[i + 1]
      BY <1>1
    <2>2. u[i].op \in Looks => i = m
      BY <1>1, <1>2, <2>1
    <2>3. ~IsSlice(u[i])
      BY <1>2, <2>1
    <2>4. ASSUME u[i].op = "take" PROVE i <= r /\ \A j \in 1 .. i : u[j].op = "take"
      <3>1. i + 1 <= room /\ \A j \in 1 .. i + 1 : t[j].op = "take"
        BY <1>2, <2>1, <2>4
      <3>2. \A j \in 1 .. i : u[j] = t[j + 1] /\ j + 1 \in 1 .. i + 1
        BY <1>1
      <3> QED
        BY <3>1, <3>2
    <2> QED
      BY <2>2, <2>3, <2>4
  <1>4. Good(u, r)
    BY <1>1, <1>3 DEF Good, m
  <1> QED
    BY <1>4 DEF u

\* Nothing follows a step that looks at the current token.
LEMMA LookIsLast ==
  ASSUME NEW t, NEW room \in Int, Good(t, room), t # <<>>, Head(t).op \in Looks
  PROVE  Tail(t) = <<>>
  <1> DEFINE n == Len(t)
             u == Tail(t)
             m == Len(u)
  <1>1. u \in Seq(Steps) /\ n \in Nat \ {0} /\ m = n - 1 /\ t[1].op \in Looks
    BY GoodParts
  <1>2. n = 1
    BY <1>1 DEF Good
  <1>3. m = 0
    BY <1>1, <1>2
  <1> QED
    BY <1>1, <1>3, EmptySeq

\* A function that calls another takes nothing unseen when it goes on.
LEMMA CallWaits ==
  ASSUME NEW t, NEW room \in Int, Good(t, room), t # <<>>, Head(t).op = "call"
  PROVE  Waits(t)
  <1> DEFINE n == Len(t)
  <1>1. t \in Seq(Steps) /\ n \in Nat \ {0} /\ t[1].op = "call"
    BY GoodParts
  <1>2. \A i \in 1 .. n : /\ t[i].op = "take" => i <= room /\ \A j \in 1 .. i : t[j].op = "take"
                          /\ t[i].op \in Looks => i = n
                          /\ IsSlice(t[i]) => i = 1 /\ room >= 1
    BY DEF Good
  <1> HIDE DEF n
  <1>3. \A i \in 1 .. n : t[i].op # "take"
    <2> SUFFICES ASSUME NEW i \in 1 .. n, t[i].op = "take" PROVE FALSE
      OBVIOUS
    <2>1. 1 \in 1 .. i /\ \A j \in 1 .. i : t[j].op = "take"
      BY <1>1, <1>2
    <2> QED
      BY <1>1, <2>1
  <1>4. \A i \in 1 .. n : ~IsSlice(t[i])
    BY <1>1, <1>2 DEF IsSlice
  <1> QED
    BY <1>1, <1>2, <1>3, <1>4 DEF Waits, Good, n

\* A caller goes on behind its call, wherever the call left the index.
LEMMA WaitsTail ==
  ASSUME NEW t, Waits(t), NEW r \in Int
  PROVE  /\ t \in Seq(Steps) /\ t # <<>> /\ Head(t) \in Steps /\ Head(t).op = "call"
         /\ Good(Tail(t), r)
  <1>1. t # <<>> /\ Head(t).op = "call" /\ Good(t, 0) /\ 0 \in Int
    BY DEF Waits
  <1>2. t \in Seq(Steps) /\ Head(t) \in Steps
    BY <1>1, GoodParts
  <1>3. Good(Tail(t), 0)
    BY <1>1, TailGood
  <1> DEFINE u == Tail(t)
             m == Len(u)
  <1>4. \A i \in 1 .. m : u[i].op # "take" /\ ~IsSlice(u[i])
    <2> HIDE DEF u
    <2>1. u \in Seq(Steps) /\ m \in Nat
      BY <1>3, LenProperties DEF Good, u
    <2>2. \A i \in 1 .. m : /\ u[i].op = "take" => i <= 0
                            /\ IsSlice(u[i]) => 0 >= 1
      BY <1>3 DEF Good, u
    <2> HIDE DEF m
    <2> QED
      BY <2>1, <2>2
  <1>5. Good(u, r)
    BY <1>3, <1>4 DEF Good
  <1> QED
    BY <1>1, <1>2, <1>5

-------------------------------------------------------------------------------
(* The machine's steps.                                                        *)

\* Parsing starts in the invariant.
LEMMA Initially == cn_parser_init => PInv
  <1> SUFFICES ASSUME cn_parser_init PROVE PInv
    OBVIOUS
  <1> DEFINE g == Goto("program")
             t == <<g>>
             f == Frame(t)
  <1>1. Final(g) /\ g.op = "goto" /\ g.fn = "program"
    BY GotoSteps DEF Goto
  <1>2. f = [todo |-> t, ok |-> TRUE, place |-> FALSE] /\ stack = <<f>>
    BY DEF Frame, cn_parser_init
  <1> HIDE DEF g
  <1>3. Good(t, Room) /\ t # <<>> /\ Len(t) = 1 /\ t[1] = g
    BY <1>1, Good1
  <1>4. t \in Seq(Steps)
    BY <1>3 DEF Good
  <1> HIDE DEF t
  <1>5. f \in Frames /\ f.todo = t /\ f.ok = TRUE
    BY <1>2, <1>4 DEF Frames
  <1> HIDE DEF f
  <1>6. stack \in Seq(Frames) /\ stack # <<>> /\ Len(stack) = 1 /\ stack[1] = f /\ Top = f
    BY <1>2, <1>5 DEF Top
  <1>7. index \in 1 .. Len(tokens)
    <2>1. tokens \in Seq(Kinds \cup {"eof"}) /\ tokens # <<>>
      BY InputsAssumption DEF cn_parser_init, tokens
    <2>2. Len(tokens) \in Nat \ {0}
      BY <2>1, EmptySeq
    <2> QED
      BY <2>2 DEF cn_parser_init
  <1>8. TInv
    <2>1. diags \in 0 .. DiagCap /\ kept \in Nat /\ lost \in BOOLEAN
      <3>1. DiagCap \in Nat /\ diags = 0 /\ kept = 0
        BY BoundsAssumption DEF cn_parser_init
      <3>2. lost \in BOOLEAN
        BY DEF cn_parser_init
      <3> QED
        BY <3>1, <3>2
    <2> QED
      BY <1>6, <1>7, <2>1 DEF TInv, cn_parser_init
  <1>9. SInv
    BY <1>3, <1>5, <1>6 DEF SInv
  <1>10. NInv
    BY <1>5, <1>6 DEF NInv
  <1>11. BInv
    <2>1. Loops(t)
      BY <1>1, <1>3 DEF Loops
    <2> QED
      BY <1>5, <1>6, <2>1 DEF BInv
  <1> QED
    BY <1>8, <1>9, <1>10, <1>11 DEF PInv, cn_parser_init

\* What the invariant says of the frames.
LEMMA StackFacts ==
  ASSUME PInv
  PROVE  /\ AtToken /\ Room \in Nat
         /\ Len(stack) \in Nat \ {0} /\ Top = stack[Len(stack)]
         /\ \A i \in 1 .. Len(stack) : stack[i] \in Frames
         /\ Top \in Frames /\ Top.ok \in BOOLEAN /\ Top.place \in BOOLEAN
         /\ Good(Top.todo, Room)
         /\ ~Top.ok => diags > 0
  <1>1. AtToken
    BY DEF PInv, TInv, AtToken
  <1>2. stack \in Seq(Frames) /\ stack # <<>>
    BY DEF PInv, TInv
  <1>3. Len(stack) \in Nat \ {0} /\ \A i \in 1 .. Len(stack) : stack[i] \in Frames
    BY <1>2, EmptySeq, ElementOfSeq
  <1> DEFINE n == Len(stack)
  <1>4. Top = stack[n] /\ Top \in Frames
    <2>1. n \in 1 .. n
      BY <1>3
    <2> QED
      BY <2>1, <1>3 DEF Top
  <1>5. Top.ok \in BOOLEAN /\ Top.place \in BOOLEAN
    BY <1>4 DEF Frames
  <1>6. Good(Top.todo, Room)
    BY DEF PInv, SInv
  <1>7. ~Top.ok => diags > 0
    <2>1. n \in 1 .. n
      BY <1>3
    <2> QED
      BY <2>1, <1>4 DEF PInv, NInv
  <1> QED
    BY <1>1, <1>2, <1>3, <1>4, <1>5, <1>6, <1>7, TokensFacts

\* The innermost function goes on: what the new list and the new counters must
\* satisfy.
LEMMA ContinueKeeps ==
  ASSUME PInv, NEW todo, NEW ok \in BOOLEAN, NEW place \in BOOLEAN,
         Continue(todo, ok, place), input' = input,
         index' \in 1 .. Len(tokens), Good(todo, Len(tokens) - index'),
         diags' \in 0 .. DiagCap, diags' >= diags, kept' = kept, lost' \in BOOLEAN,
         ~ok => diags' > 0, lost' => diags' > 0,
         Len(stack) = 1 => Loops(todo) \/ (todo = <<>> /\ tokens[index'] = "eof")
  PROVE  PInv'
  <1> DEFINE n == Len(stack)
             f == [todo |-> todo, ok |-> ok, place |-> place]
  <1>1. n \in Nat \ {0} /\ stack \in Seq(Frames) /\ diags \in 0 .. DiagCap /\ kept \in Nat
    BY StackFacts DEF PInv, TInv
  <1>2. stack' = [stack EXCEPT ![n] = f]
    BY DEF Continue
  <1>3. f \in Frames /\ f.todo = todo /\ f.ok = ok
    BY DEF Frames, Good
  <1> HIDE DEF f, n
  <1>4. n \in 1 .. n
    BY <1>1
  <1>5. /\ stack' \in Seq(Frames) /\ Len(stack') = n
        /\ \A j \in 1 .. n : stack'[j] = IF j = n THEN f ELSE stack[j]
    BY <1>1, <1>2, <1>3, <1>4, ExceptSeq DEF n
  <1>6. stack' # <<>>
    BY <1>1, <1>5
  <1>7. tokens' = tokens
    BY DEF tokens
  <1>8. Top' = f
    BY <1>4, <1>5 DEF Top
  <1>9. TInv'
    BY <1>1, <1>5, <1>6, <1>7 DEF TInv, PInv
  <1>10. SInv'
    <2>1. Good(Top'.todo, Room')
      BY <1>3, <1>7, <1>8 DEF Room
    <2>2. \A i \in 1 .. n - 1 : Waits(stack[i].todo)
      BY DEF PInv, SInv, n
    <2>3. \A i \in 1 .. n - 1 : stack'[i] = stack[i]
      BY <1>1, <1>5
    <2>4. \A i \in 1 .. n - 1 : Waits(stack'[i].todo)
      BY <2>2, <2>3
    <2> QED
      BY <1>5, <2>1, <2>4 DEF SInv
  <1>11. NInv'
    <2>1. \A i \in 1 .. n : ~stack[i].ok => diags > 0
      BY DEF PInv, NInv, n
    <2>2. diags > 0 => diags' > 0
      BY <1>1
    <2>3. \A i \in 1 .. n : ~stack'[i].ok => diags' > 0
      <3> SUFFICES ASSUME NEW i \in 1 .. n, ~stack'[i].ok PROVE diags' > 0
        OBVIOUS
      <3>1. CASE i = n
        BY <3>1, <1>3, <1>5
      <3>2. CASE i # n
        BY <3>2, <1>5, <2>1, <2>2
      <3> QED
        BY <3>1, <3>2
    <2> QED
      BY <1>5, <2>3 DEF NInv
  <1>12. BInv'
    <2>1. CASE n = 1
      <3>1. stack'[1] = f /\ Len(stack') = 1
        BY <2>1, <1>5
      <3> QED
        BY <2>1, <3>1, <1>3, <1>7 DEF BInv, cn_parser_current, n
    <2>2. CASE n # 1
      <3>1. stack'[1] = stack[1]
        BY <2>2, <1>1, <1>5
      <3>2. Loops(stack[1].todo)
        BY <2>2 DEF PInv, BInv, n
      <3> QED
        BY <3>1, <3>2 DEF BInv
    <2> QED
      BY <2>1, <2>2
  <1> QED
    BY <1>9, <1>10, <1>11, <1>12 DEF PInv

\* What cn_parse_program is about to do, and that it loops.
LEMMA LoopsFacts ==
  ASSUME NEW t \in Seq(Steps), Loops(t)
  PROVE  /\ t # <<>>
         /\ Head(t).op \in {"take", "call", "goto"}
         /\ Head(t).op = "goto" => Head(t).fn = "program"
         /\ Head(t).op = "call" => Head(t).mode = "toplevel"
         /\ Head(t).op # "goto" => Loops(Tail(t))
  <1> DEFINE n == Len(t)
             u == Tail(t)
             m == Len(u)
  <1>1. t # <<>> /\ t[n].op = "goto" /\ t[n].fn = "program"
    BY DEF Loops
  <1>2. \A i \in 1 .. n - 1 : t[i].op = "take" \/ (t[i].op = "call" /\ t[i].mode = "toplevel")
    BY DEF Loops
  <1>3. /\ n \in Nat \ {0} /\ u \in Seq(Steps) /\ m = n - 1
        /\ \A i \in 1 .. m : u[i] = t[i + 1]
    BY <1>1, HeadTailProperties, EmptySeq
  <1>4. Head(t) = t[1]
    BY <1>1
  <1> HIDE DEF n, u, m
  <1>5. n = 1 \/ 1 \in 1 .. n - 1
    BY <1>3
  <1>6. /\ t[1].op \in {"take", "call", "goto"}
        /\ t[1].op = "goto" => t[1].fn = "program"
        /\ t[1].op = "call" => t[1].mode = "toplevel"
    BY <1>1, <1>2, <1>5
  <1>7. ASSUME t[1].op # "goto" PROVE Loops(u)
    <2>1. m \in Nat \ {0} /\ u[m] = t[n]
      BY <1>1, <1>3, <1>7
    <2>2. u # <<>>
      BY <2>1, <1>3, EmptySeq DEF m
    <2>3. \A i \in 1 .. m - 1 : u[i].op = "take" \/ (u[i].op = "call" /\ u[i].mode = "toplevel")
      <3> SUFFICES ASSUME NEW i \in 1 .. m - 1
                   PROVE  u[i].op = "take" \/ (u[i].op = "call" /\ u[i].mode = "toplevel")
        OBVIOUS
      <3>1. u[i] = t[i + 1] /\ i + 1 \in 1 .. n - 1
        BY <1>3, <2>1
      <3> QED
        BY <3>1, <1>2
    <2> QED
      BY <1>1, <2>1, <2>2, <2>3 DEF Loops, m
  <1> QED
    BY <1>1, <1>4, <1>6, <1>7 DEF u

\* The outermost loop: a declaration, or the end of the text.
LEMMA ProgramLoops ==
  ASSUME NEW ok
  PROVE  \/ Loops(Body("program", ok))
         \/ Body("program", ok) = <<>> /\ cn_parser_current = "eof"
  <1>1. Body("program", ok) = cn_parse_program
    BY ONLY ChainFacts DEF Body, Levels
  <1>2. ASSUME NEW f PROVE Loops(<<Take, Call(f, "toplevel"), Goto("program")>>)
    BY DEF Loops, Take, Call, Goto
  <1>3. ASSUME NEW f PROVE Loops(<<Call(f, "toplevel"), Goto("program")>>)
    BY DEF Loops, Call, Goto
  <1> QED
    BY ONLY <1>1, <1>2, <1>3 DEF cn_parse_program

\* What a step of the innermost function finds.
LEMMA RunningFacts ==
  ASSUME PInv, NEW op, Running(op)
  PROVE  /\ Top.todo \in Seq(Steps) /\ Top.todo # <<>>
         /\ Step = Head(Top.todo) /\ Rest = Tail(Top.todo)
         /\ Step \in Steps /\ Step.op = op
         /\ Good(Rest, Room) /\ Good(Rest, Room - 1)
         /\ Len(stack) = 1 => op \in {"take", "call", "goto"}
         /\ Len(stack) = 1 /\ op = "goto" => Step.fn = "program"
         /\ Len(stack) = 1 /\ op # "goto" => Loops(Rest)
  <1>1. Top.todo # <<>> /\ Step.op = op /\ Step = Head(Top.todo) /\ Rest = Tail(Top.todo)
    BY DEF Running, Step, Rest
  <1>2. Room \in Int /\ Room - 1 \in Int /\ Room >= Room - 1 /\ Room - 1 >= Room - 1
    BY StackFacts
  <1>3. Good(Top.todo, Room)
    BY StackFacts
  <1>4. Good(Rest, Room) /\ Good(Rest, Room - 1)
    BY <1>1, <1>2, <1>3, TailGood
  <1>5. Top.todo \in Seq(Steps) /\ Step \in Steps
    BY <1>1, <1>2, <1>3, GoodParts
  <1>6. Len(stack) = 1 => Loops(Top.todo)
    BY <1>1, StackFacts DEF PInv, BInv
  <1>7. Len(stack) = 1 => /\ op \in {"take", "call", "goto"}
                          /\ op = "goto" => Step.fn = "program"
                          /\ op # "goto" => Loops(Rest)
    BY <1>1, <1>5, <1>6, LoopsFacts
  <1> QED
    BY <1>1, <1>4, <1>5, <1>7

\* A diagnostic is counted, up to the cap, and never taken back.
LEMMA EmitFacts ==
  ASSUME PInv, Emit
  PROVE  diags' \in 0 .. DiagCap /\ diags' >= diags /\ diags' > 0
  <1>1. diags \in 0 .. DiagCap /\ DiagCap \in Nat \ {0}
    BY BoundsAssumption DEF PInv, TInv
  <1> QED
    BY <1>1 DEF Emit

\* Without a diagnostic the count stays.
LEMMA QuietFacts ==
  ASSUME PInv, UNCHANGED diags
  PROVE  diags' \in 0 .. DiagCap /\ diags' >= diags
  BY DEF PInv, TInv

\* Taking a token that is not the last stays in the buffer.
LEMMA AdvanceFacts ==
  ASSUME PInv, Advance, Room >= 1
  PROVE  index' \in 1 .. Len(tokens) /\ Len(tokens) - index' = Room - 1
  <1> DEFINE n == Len(tokens)
  <1>1. n \in Nat /\ index \in 1 .. n /\ Room = n - index
    BY StackFacts, TokensFacts DEF AtToken, Room
  <1>2. index' = index + 1
    BY StackFacts, TokensFacts DEF Advance
  <1> HIDE DEF n
  <1>3. index' \in 1 .. n /\ n - index' = Room - 1
    BY <1>1, <1>2
  <1> QED
    BY <1>3 DEF n

\* Not taking one does too.
LEMMA StayFacts ==
  ASSUME PInv, UNCHANGED index
  PROVE  index' \in 1 .. Len(tokens) /\ Len(tokens) - index' = Room
  BY DEF PInv, TInv, Room

\* What holds of the counters and of the innermost frame.
LEMMA CounterFacts ==
  ASSUME PInv
  PROVE  /\ lost \in BOOLEAN /\ (lost => diags > 0) /\ diags \in Nat
         /\ Top.ok \in BOOLEAN /\ Top.place \in BOOLEAN /\ (~Top.ok => diags > 0)
  <1>1. diags \in 0 .. DiagCap /\ lost \in BOOLEAN /\ (lost => diags > 0)
    BY DEF PInv, TInv
  <1> QED
    BY <1>1, StackFacts

\* cn_parser_consume: the token is taken, or its absence reported.
LEMMA ConsumeStep ==
  ASSUME PInv, cn_parser_consume
  PROVE  PInv'
  <1>1. Running("consume") /\ input' = input /\ kept' = kept /\ lost' = lost
    BY DEF cn_parser_consume
  <1>2. /\ Step \in Steps /\ Step.op = "consume" /\ Good(Rest, Room) /\ Good(Rest, Room - 1)
        /\ Len(stack) # 1
    BY <1>1, RunningFacts
  <1>3. "eof" \notin Step.kinds
    BY <1>2, StepFields
  <1>4. /\ lost \in BOOLEAN /\ (lost => diags > 0) /\ diags \in Nat
        /\ Top.ok \in BOOLEAN /\ Top.place \in BOOLEAN /\ (~Top.ok => diags > 0)
    BY CounterFacts
  <1>5. CASE cn_parser_current \in Step.kinds
    <2>1. Advance /\ ContinueWith(Rest) /\ UNCHANGED diags
      BY <1>5 DEF cn_parser_consume
    <2>2. Room >= 1
      BY <1>3, <1>5, StackFacts, TokensFacts
    <2>3. index' \in 1 .. Len(tokens) /\ Good(Rest, Len(tokens) - index')
      BY <1>2, <2>1, <2>2, AdvanceFacts
    <2>4. diags' \in 0 .. DiagCap /\ diags' >= diags /\ diags' = diags
      BY <2>1, QuietFacts
    <2>5. Continue(Rest, Top.ok, Top.place)
      BY <2>1 DEF ContinueWith
    <2>6. (~Top.ok => diags' > 0) /\ (lost' => diags' > 0) /\ lost' \in BOOLEAN
      BY <1>1, <1>4, <2>4
    <2> QED
      BY ONLY PInv, <1>1, <1>2, <1>4, <2>3, <2>4, <2>5, <2>6, ContinueKeeps
  <1>6. CASE cn_parser_current \notin Step.kinds
    <2> DEFINE todo == AfterNull(Step.mode, Rest)
               ok == StillOk(Step.mode)
    <2>1. Emit /\ Continue(todo, ok, Top.place) /\ UNCHANGED index
      BY <1>6 DEF cn_parser_consume
    <2>2. index' \in 1 .. Len(tokens) /\ Len(tokens) - index' = Room
      BY <2>1, StayFacts
    <2>3. Good(todo, Len(tokens) - index')
      BY <1>2, <2>2, Good0 DEF AfterNull
    <2>4. diags' \in 0 .. DiagCap /\ diags' >= diags /\ diags' > 0
      BY <2>1, EmitFacts
    <2>5. ok \in BOOLEAN
      BY <1>4 DEF StillOk
    <2>6. (~ok => diags' > 0) /\ (lost' => diags' > 0) /\ lost' \in BOOLEAN
      BY <1>1, <1>4, <2>4
    <2> HIDE DEF todo, ok
    <2> QED
      BY ONLY PInv, <1>1, <1>2, <1>4, <2>1, <2>2, <2>3, <2>4, <2>5, <2>6, ContinueKeeps
  <1> QED
    BY <1>5, <1>6

\* The innermost function goes on quietly, at this token or the next.
\* A step of one frame that reports nothing.
LEMMA GoesOn ==
  ASSUME PInv, NEW todo, NEW place \in BOOLEAN, Continue(todo, Top.ok, place),
         input' = input, diags' = diags, kept' = kept, lost' = lost,
         index' \in 1 .. Len(tokens), Good(todo, Len(tokens) - index'),
         Len(stack) = 1 => Loops(todo) \/ (todo = <<>> /\ tokens[index'] = "eof")
  PROVE  PInv'
  <1>1. /\ lost' \in BOOLEAN /\ (lost' => diags' > 0)
        /\ Top.ok \in BOOLEAN /\ (~Top.ok => diags' > 0)
    BY CounterFacts
  <1>2. diags' \in 0 .. DiagCap /\ diags' >= diags
    BY QuietFacts
  <1>3. kept' = kept /\ input' = input
    OBVIOUS
  <1> DEFINE ok == Top.ok
  <1>4. ok \in BOOLEAN /\ Continue(todo, ok, place) /\ (~ok => diags' > 0)
    BY <1>1
  <1> HIDE DEF ok
  <1> QED
    BY ONLY PInv, place \in BOOLEAN, <1>1, <1>2, <1>3, <1>4, ContinueKeeps,
            index' \in 1 .. Len(tokens), Good(todo, Len(tokens) - index'),
            Len(stack) = 1 => Loops(todo) \/ (todo = <<>> /\ tokens[index'] = "eof")

\* A take that is next has a token to take.
LEMMA TakeHasRoom ==
  ASSUME PInv, Running("take")
  PROVE  Room >= 1 /\ cn_parser_current # "eof"
  <1>1. Top.todo # <<>> /\ Head(Top.todo).op = "take"
    BY RunningFacts
  <1>2. Good(Top.todo, Room) /\ Room \in Int /\ AtToken
    BY StackFacts
  <1>3. Head(Top.todo) = Top.todo[1] /\ Len(Top.todo) \in Nat \ {0}
    BY <1>1, <1>2, GoodParts
  <1>4. 1 \in 1 .. Len(Top.todo)
    BY <1>3
  <1>5. Room >= 1
    BY <1>1, <1>2, <1>3, <1>4 DEF Good
  <1> QED
    BY <1>2, <1>5, TokensFacts

\* cn_parser_advance behind a look.
LEMMA AdvanceStep ==
  ASSUME PInv, cn_parser_advance
  PROVE  PInv'
  <1>1. /\ Running("take") /\ input' = input /\ kept' = kept /\ lost' = lost /\ diags' = diags
        /\ Advance /\ Continue(Rest, Top.ok, Top.place)
    BY DEF cn_parser_advance, ContinueWith
  <1>2. /\ Top.todo # <<>> /\ Head(Top.todo).op = "take" /\ Good(Rest, Room - 1)
        /\ Len(stack) = 1 => Loops(Rest)
    BY <1>1, RunningFacts
  <1>3. Room >= 1
    BY <1>1, TakeHasRoom
  <1>4. index' \in 1 .. Len(tokens) /\ Good(Rest, Len(tokens) - index')
    BY <1>1, <1>2, <1>3, AdvanceFacts
  <1>5. Top.place \in BOOLEAN
    BY StackFacts
  <1> QED
    BY ONLY PInv, <1>1, <1>2, <1>4, <1>5, GoesOn

\* cn_parser_match.
LEMMA MatchStep ==
  ASSUME PInv, cn_parser_match
  PROVE  PInv'
  <1>1. /\ Running("opt") /\ input' = input /\ kept' = kept /\ lost' = lost /\ diags' = diags
        /\ Continue(Rest, Top.ok, Top.place)
        /\ IF cn_parser_current = Step.kind THEN Advance ELSE UNCHANGED index
    BY DEF cn_parser_match, ContinueWith
  <1>2. /\ Step \in Steps /\ Step.op = "opt" /\ Good(Rest, Room) /\ Good(Rest, Room - 1)
        /\ Len(stack) # 1
    BY <1>1, RunningFacts
  <1>3. Step.kind # "eof"
    BY <1>2, StepFields
  <1>4. index' \in 1 .. Len(tokens) /\ Good(Rest, Len(tokens) - index')
    <2>1. CASE cn_parser_current = Step.kind
      <3>1. Room >= 1
        BY <1>3, <2>1, StackFacts, TokensFacts
      <3> QED
        BY <1>1, <1>2, <2>1, <3>1, AdvanceFacts
    <2>2. CASE cn_parser_current # Step.kind
      BY <1>1, <1>2, <2>2, StayFacts
    <2> QED
      BY <2>1, <2>2
  <1>5. Top.place \in BOOLEAN
    BY StackFacts
  <1> QED
    BY ONLY PInv, <1>1, <1>2, <1>4, <1>5, GoesOn

\* A function looks at the tokens and chooses how to go on.
LEMMA LookStep ==
  ASSUME PInv, Look
  PROVE  PInv'
  <1>1. input' = input /\ index' = index /\ kept' = kept /\ lost' = lost /\ diags' = diags
    BY DEF Look
  <1>2. /\ Top.place \in BOOLEAN /\ Top.ok \in BOOLEAN /\ AtToken /\ Room \in Int
        /\ Good(Top.todo, Room)
    BY StackFacts
  <1>3. /\ index' \in 1 .. Len(tokens) /\ Len(tokens) - index' = Room
        /\ tokens[index'] = cn_parser_current
    BY <1>1, StayFacts DEF cn_parser_current
  <1>4. ASSUME NEW op, Running(op), op \in Looks
        PROVE  Rest = <<>> /\ Step \in Steps /\ Step.op = op
    <2>1. /\ Top.todo # <<>> /\ Rest = Tail(Top.todo) /\ Head(Top.todo).op = op /\ Step \in Steps
          /\ Step.op = op
      BY <1>4, RunningFacts
    <2> QED
      BY <1>2, <1>4, <2>1, LookIsLast
  <1>5. ASSUME NEW todo, Good(todo, Room), Rest = <<>>, ContinueWith(todo \o Rest),
               Len(stack) = 1 => Loops(todo) \/ (todo = <<>> /\ cn_parser_current = "eof")
        PROVE  PInv'
    <2>1. todo \in Seq(Steps)
      BY <1>5 DEF Good
    <2>2. todo \o Rest = todo
      BY <1>5, <2>1, ConcatEmptySeq
    <2>3. Continue(todo, Top.ok, Top.place)
      BY <1>5, <2>2 DEF ContinueWith
    <2>4. Good(todo, Len(tokens) - index')
      BY <1>3, <1>5
    <2>5. Len(stack) = 1 => Loops(todo) \/ (todo = <<>> /\ tokens[index'] = "eof")
      BY <1>3, <1>5
    <2> QED
      BY ONLY PInv, <1>1, <1>2, <1>3, <2>3, <2>4, <2>5, GoesOn
  <1>6. CASE Running("goto") /\ ContinueWith(Body(Step.fn, Top.ok) \o Rest)
    <2>1. Rest = <<>> /\ Step \in Steps /\ Step.op = "goto" /\ Step = Head(Top.todo)
      BY <1>4, <1>6, RunningFacts DEF Looks
    <2>2. Step.fn \in Functions
      BY <2>1, StepFields
    <2>3. Step.fn = "slice" => Room >= 1
      <3>1. Head(Top.todo) = Top.todo[1] /\ Len(Top.todo) \in Nat \ {0}
        BY <1>2, <1>6, GoodParts, RunningFacts
      <3>2. 1 \in 1 .. Len(Top.todo)
        BY <3>1
      <3>3. IsSlice(Top.todo[1]) => Room >= 1
        BY <1>2, <3>2 DEF Good
      <3> QED
        BY <2>1, <3>1, <3>3 DEF IsSlice
    <2>4. Good(Body(Step.fn, Top.ok), Room)
      BY <1>2, <2>2, <2>3, BodyGood
    <2>5. Len(stack) = 1 => \/ Loops(Body(Step.fn, Top.ok))
                            \/ Body(Step.fn, Top.ok) = <<>> /\ cn_parser_current = "eof"
      BY <1>6, RunningFacts, ProgramLoops
    <2> QED
      BY <1>5, <1>6, <2>1, <2>4, <2>5
  <1>7. CASE Running("prefixes") /\ ContinueWith(TypePrefixes(Step.n) \o Rest)
    <2>1. Rest = <<>> /\ Step \in Steps /\ Step.op = "prefixes"
      BY <1>4, <1>7 DEF Looks
    <2>2. Step.n \in Nat /\ Len(stack) # 1
      BY <1>7, <2>1, StepFields, RunningFacts
    <2>3. Good(TypePrefixes(Step.n), Room)
      BY <1>2, <2>2, PrefixesGood
    <2> QED
      BY <1>5, <1>7, <2>1, <2>2, <2>3
  <1>8. CASE Running("operands") /\ ContinueWith(MoreOperands(Step.fn) \o Rest)
    <2>1. Rest = <<>> /\ Step \in Steps /\ Step.op = "operands"
      BY <1>4, <1>8 DEF Looks
    <2>2. Step.fn \in Levels /\ Len(stack) # 1
      BY <1>8, <2>1, StepFields, RunningFacts
    <2>3. Good(MoreOperands(Step.fn), Room)
      BY <1>2, <2>2, OperandsGood
    <2> QED
      BY <1>5, <1>8, <2>1, <2>2, <2>3
  <1> QED
    BY <1>6, <1>7, <1>8 DEF Look

\* A parse function calls another.
LEMMA CallStepKeeps ==
  ASSUME PInv, CallFunction
  PROVE  PInv'
  <1> DEFINE n == Len(stack)
             f == Frame(Body(Step.fn, TRUE))
  <1>1. /\ Running("call") /\ stack' = Append(stack, f)
        /\ input' = input /\ index' = index /\ diags' = diags /\ kept' = kept /\ lost' = lost
    BY DEF CallFunction
  <1>2. Step \in Steps /\ Step.op = "call" /\ Step = Head(Top.todo) /\ Top.todo # <<>>
    BY <1>1, RunningFacts
  <1>3. /\ AtToken /\ Room \in Int /\ Good(Top.todo, Room) /\ n \in Nat \ {0} /\ Top = stack[n]
        /\ stack \in Seq(Frames)
    BY StackFacts DEF PInv, TInv
  <1>4. Step.fn \in Functions /\ Step.fn # "slice"
    BY <1>2, StepFields
  <1>5. Good(Body(Step.fn, TRUE), Room)
    BY <1>3, <1>4, BodyGood
  <1>6. f.todo = Body(Step.fn, TRUE) /\ f.ok = TRUE /\ f \in Frames
    BY <1>5 DEF Frame, Frames, Good
  <1> HIDE DEF f, n
  <1>7. /\ stack' \in Seq(Frames) /\ stack' # <<>> /\ Len(stack') = n + 1
        /\ \A i \in 1 .. n : stack'[i] = stack[i]
        /\ stack'[n + 1] = f
    BY <1>1, <1>3, <1>6, AppendProperties DEF n
  <1>8. Top' = f /\ tokens' = tokens /\ Room' = Room
    BY <1>1, <1>7 DEF Top, tokens, Room
  <1>9. TInv'
    BY <1>1, <1>7, <1>8 DEF TInv, PInv
  <1>10. SInv'
    <2>1. Waits(stack[n].todo)
      BY <1>2, <1>3, CallWaits
    <2>2. \A i \in 1 .. n - 1 : Waits(stack[i].todo)
      BY DEF PInv, SInv, n
    <2>3. \A i \in 1 .. n : Waits(stack'[i].todo)
      <3> SUFFICES ASSUME NEW i \in 1 .. n PROVE Waits(stack'[i].todo)
        OBVIOUS
      <3>1. i = n \/ i \in 1 .. n - 1
        BY <1>3
      <3> QED
        BY <1>7, <2>1, <2>2, <3>1
    <2>4. Len(stack') - 1 = n
      BY <1>3, <1>7
    <2> QED
      BY <1>5, <1>6, <1>8, <2>3, <2>4 DEF SInv
  <1>11. NInv'
    <2>1. \A i \in 1 .. n : ~stack[i].ok => diags > 0
      BY DEF PInv, NInv, n
    <2>2. \A i \in 1 .. n + 1 : i = n + 1 \/ i \in 1 .. n
      BY <1>3
    <2>3. \A i \in 1 .. n + 1 : ~stack'[i].ok => diags' > 0
      BY <1>1, <1>6, <1>7, <2>1, <2>2
    <2> QED
      BY <1>7, <2>3 DEF NInv
  <1>12. BInv'
    <2>1. stack'[1] = stack[1]
      BY <1>3, <1>7
    <2>2. Loops(stack[1].todo)
      BY <1>2, <1>3 DEF PInv, BInv, n
    <2> QED
      BY <2>1, <2>2 DEF BInv
  <1> QED
    BY <1>1, <1>9, <1>10, <1>11, <1>12 DEF PInv

\* A diagnostic in place: a NULL, or going on without the piece.
LEMMA ReportStep ==
  ASSUME PInv, Report
  PROVE  PInv'
  <1>1. input' = input /\ index' = index /\ kept' = kept /\ lost' = lost
    BY DEF Report
  <1>2. index' \in 1 .. Len(tokens) /\ Len(tokens) - index' = Room
    BY <1>1, StayFacts
  <1>3. /\ lost' \in BOOLEAN /\ (lost => diags > 0) /\ diags \in Nat
        /\ Top.ok \in BOOLEAN /\ Top.place \in BOOLEAN /\ (~Top.ok => diags > 0)
    BY <1>1, CounterFacts
  <1>4. Good(<<>>, Len(tokens) - index')
    BY Good0
  <1>5. ASSUME NEW todo, NEW ok \in BOOLEAN, NEW place \in BOOLEAN, Emit,
               Continue(todo, ok, place), Good(todo, Len(tokens) - index'), Len(stack) # 1
        PROVE  PInv'
    <2>1. diags' \in 0 .. DiagCap /\ diags' >= diags /\ diags' > 0
      BY <1>5, EmitFacts
    <2> QED
      BY ONLY PInv, <1>1, <1>2, <1>3, <1>5, <2>1, ContinueKeeps
  <1>6. CASE Running("fail") /\ Emit /\ Continue(<<>>, FALSE, FALSE)
    <2>1. Len(stack) # 1 /\ FALSE \in BOOLEAN
      BY <1>6, RunningFacts
    <2> QED
      BY <1>4, <1>5, <1>6, <2>1
  <1>7. CASE Running("stop") /\ Emit /\ ContinueWith(<<>>)
    <2>1. Len(stack) # 1
      BY <1>7, RunningFacts
    <2>2. Continue(<<>>, Top.ok, Top.place)
      BY <1>7 DEF ContinueWith
    <2> QED
      BY <1>3, <1>4, <1>5, <1>7, <2>1, <2>2
  <1>8. CASE /\ Running("target")
             /\ IF Top.place THEN UNCHANGED diags ELSE Emit
             /\ ContinueWith(Rest)
    <2>1. Len(stack) # 1 /\ Good(Rest, Len(tokens) - index')
      BY <1>2, <1>8, RunningFacts
    <2>2. Continue(Rest, Top.ok, Top.place)
      BY <1>8 DEF ContinueWith
    <2>3. CASE UNCHANGED diags
      <3>1. diags' = diags
        BY <2>3
      <3> QED
        BY ONLY PInv, <1>1, <1>2, <1>3, <2>1, <2>2, <3>1, GoesOn
    <2>4. CASE Emit
      BY <1>3, <1>5, <2>1, <2>2, <2>4
    <2> QED
      BY <1>8, <2>3, <2>4
  <1> QED
    BY <1>6, <1>7, <1>8 DEF Report

\* Nodes are dropped, guarded or made a place.
LEMMA BuildStep ==
  ASSUME PInv, Build
  PROVE  PInv'
  <1>1. input' = input /\ index' = index /\ kept' = kept /\ diags' = diags
    BY DEF Build
  <1>2. index' \in 1 .. Len(tokens) /\ Len(tokens) - index' = Room
    BY <1>1, StayFacts
  <1>3. /\ lost \in BOOLEAN /\ (lost => diags > 0) /\ diags \in Nat
        /\ Top.ok \in BOOLEAN /\ Top.place \in BOOLEAN /\ (~Top.ok => diags > 0)
    BY CounterFacts
  <1>4. CASE Running("guard") /\ ContinueWith(IF Top.ok THEN Rest ELSE <<>>) /\ UNCHANGED lost
    <2> DEFINE todo == IF Top.ok THEN Rest ELSE <<>>
    <2>1. Len(stack) # 1 /\ Good(Rest, Room)
      BY <1>4, RunningFacts
    <2>2. Good(todo, Len(tokens) - index')
      BY <1>2, <2>1, Good0
    <2>3. Continue(todo, Top.ok, Top.place) /\ lost' = lost
      BY <1>4 DEF ContinueWith
    <2> HIDE DEF todo
    <2> QED
      BY ONLY PInv, <1>1, <1>2, <1>3, <2>1, <2>2, <2>3, GoesOn
  <1>5. CASE Running("drop") /\ Continue(Rest, TRUE, Top.place) /\ lost' = (lost \/ ~Top.ok)
    <2>1. Len(stack) # 1 /\ Good(Rest, Len(tokens) - index')
      BY <1>2, <1>5, RunningFacts
    <2>2. lost' \in BOOLEAN /\ (lost' => diags' > 0)
      BY <1>1, <1>3, <1>5
    <2>3. diags' \in 0 .. DiagCap /\ diags' >= diags
      BY <1>1, QuietFacts
    <2>4. TRUE \in BOOLEAN /\ Continue(Rest, TRUE, Top.place)
      BY <1>5
    <2> QED
      BY ONLY PInv, <1>1, <1>2, <1>3, <2>1, <2>2, <2>3, <2>4, ContinueKeeps
  <1>6. CASE Running("place") /\ Continue(Rest, Top.ok, Step.is) /\ UNCHANGED lost
    <2>1. Len(stack) # 1 /\ Good(Rest, Len(tokens) - index') /\ Step \in Steps /\ Step.op = "place"
      BY <1>2, <1>6, RunningFacts
    <2>2. Step.is \in BOOLEAN
      BY <2>1, StepFields
    <2>3. lost' = lost /\ Continue(Rest, Top.ok, Step.is)
      BY <1>6
    <2> QED
      BY ONLY PInv, <1>1, <1>2, <2>1, <2>2, <2>3, GoesOn
  <1> QED
    BY <1>4, <1>5, <1>6 DEF Build

\* Recovery stops inside the buffer, whatever it skips.
LEMMA SkipToFacts ==
  ASSUME AtToken, NEW stops, "eof" \in stops
  PROVE  SkipTo(stops) \in 1 .. Len(tokens)
  <1> DEFINE n == Len(tokens)
             T == {i \in index .. n : tokens[i] \in stops \cup {";"}}
             j == Min(T)
  <1>1. n \in Nat /\ index \in 1 .. n /\ tokens[n] = "eof"
    BY TokensFacts DEF AtToken
  <1>2. SkipTo(stops) = IF tokens[j] = ";" THEN j + 1 ELSE j
    BY DEF SkipTo
  <1> HIDE DEF n
  <1>3. T \in SUBSET Nat /\ T # {}
    <2>1. index .. n \subseteq Nat /\ n \in index .. n
      BY <1>1
    <2>2. n \in T
      BY <1>1, <2>1
    <2> QED
      BY <2>1, <2>2
  <1>4. \E x \in T : \A y \in T : x <= y
    BY <1>3, LeastNat
  <1>5. j \in T
    BY <1>4 DEF Min
  <1> HIDE DEF j
  <1>6. j \in index .. n
    BY <1>5
  <1>7. tokens[j] = ";" => j # n
    BY <1>1
  <1>8. SkipTo(stops) \in 1 .. n
    <2>1. j \in 1 .. n /\ (j # n => j + 1 \in 1 .. n)
      BY <1>1, <1>6
    <2> QED
      BY <1>2, <1>7, <2>1
  <1> QED
    BY <1>8 DEF n

\* Both ways of recovering stop inside the buffer.
LEMMA SyncFacts ==
  ASSUME AtToken
  PROVE  /\ cn_parser_sync_statement \in 1 .. Len(tokens)
         /\ cn_parser_sync_top_level \in 1 .. Len(tokens)
  BY SkipToFacts DEF cn_parser_sync_statement, cn_parser_sync_top_level, TopLevelStart

\* A parse function returns, and its caller takes the node or the NULL.
LEMMA ReturnStep ==
  ASSUME PInv, Return
  PROVE  PInv'
  <1> DEFINE n == Len(stack)
             caller == stack[n - 1]
             mode == Head(caller.todo).mode
             rest == Tail(caller.todo)
             null == ~Top.ok
             todo == IF null THEN AfterNull(mode, rest) ELSE rest
             ok == caller.ok /\ ~(null /\ mode \in {"bail", "need", "same"})
             place == IF mode \in {"bail", "same"} THEN Top.place ELSE caller.place
             back == [todo |-> todo, ok |-> ok, place |-> place]
             init == SubSeq(stack, 1, n - 2)
  <1>1. /\ n > 1 /\ Top.todo = <<>> /\ input' = input /\ diags' = diags
        /\ stack' = Append(init, back)
        /\ lost' = (lost \/ (null /\ mode \notin {"bail", "need", "same"}))
        /\ kept' = IF ~null /\ mode \in {"statement", "toplevel"} THEN kept + 1 ELSE kept
        /\ index' = CASE null /\ mode = "statement" -> cn_parser_sync_statement
                      [] null /\ mode = "toplevel"  -> cn_parser_sync_top_level
                      [] OTHER -> index
    BY DEF Return
  <1>2. /\ AtToken /\ n \in Nat /\ stack \in Seq(Frames) /\ n - 1 \in 1 .. n
        /\ \A i \in 1 .. n : stack[i] \in Frames
        /\ Top \in Frames /\ Top.ok \in BOOLEAN /\ Top.place \in BOOLEAN
    BY <1>1, StackFacts DEF PInv, TInv
  <1>3. caller \in Frames /\ caller.ok \in BOOLEAN /\ caller.place \in BOOLEAN
    BY <1>2 DEF Frames
  <1>4. Waits(caller.todo)
    <2>1. n - 1 \in 1 .. n - 1
      BY <1>1, <1>2
    <2> QED
      BY <2>1 DEF PInv, SInv
  <1>5. tokens' = tokens
    BY <1>1 DEF tokens
  <1>6. index' \in 1 .. Len(tokens)
    BY <1>1, <1>2, SyncFacts DEF AtToken
  <1>7. \A r \in Int : Good(rest, r) /\ Good(<<>>, r)
    BY <1>4, WaitsTail, Good0
  <1>8. Room' \in Int
    <2>1. Len(tokens) \in Nat
      BY <1>2, TokensFacts
    <2> QED
      BY <1>5, <1>6, <2>1 DEF Room
  <1>9. Good(todo, Room')
    BY <1>7, <1>8 DEF AfterNull
  <1>10. ok \in BOOLEAN /\ place \in BOOLEAN
    <2>1. place \in BOOLEAN
      BY <1>2, <1>3
    <2>2. ok \in BOOLEAN
      BY <1>3
    <2> QED
      BY <2>1, <2>2
  <1>11. todo \in Seq(Steps)
    BY <1>9 DEF Good
  <1>12. n = 2 => Loops(todo)
    <2> SUFFICES ASSUME n = 2 PROVE Loops(todo)
      OBVIOUS
    <2>1. /\ caller = stack[1] /\ caller.todo # <<>> /\ Head(caller.todo).op = "call"
          /\ caller.todo \in Seq(Steps)
      BY <1>4, WaitsTail
    <2>2. Loops(caller.todo)
      BY <1>1, <2>1 DEF PInv, BInv
    <2>3. mode = "toplevel" /\ Loops(rest)
      BY <2>1, <2>2, LoopsFacts
    <2> QED
      BY <2>3 DEF AfterNull
  <1>13. /\ caller.ok => (ok <=> ~(null /\ mode \in {"bail", "need", "same"}))
         /\ ~ok => ~caller.ok \/ null
    OBVIOUS
  <1>14. back \in Frames /\ back.todo = todo /\ back.ok = ok
    BY <1>10, <1>11 DEF Frames
  <1> HIDE DEF back, todo, ok, place, rest, mode
  <1>15. /\ init \in Seq(Frames) /\ Len(init) = n - 2
         /\ \A i \in 1 .. n - 2 : init[i] = stack[i]
    <2>1. 1 \in Int /\ n - 2 \in Int /\ \A i \in 1 .. n - 2 : stack[i] \in Frames
      BY <1>1, <1>2
    <2>2. /\ init \in Seq(Frames)
          /\ Len(init) = IF 1 <= n - 2 THEN (n - 2) - 1 + 1 ELSE 0
          /\ \A i \in 1 .. (n - 2) - 1 + 1 : init[i] = stack[1 + i - 1]
      BY ONLY <2>1, SubSeqProperties
    <2> HIDE DEF init, n
    <2> QED
      BY ONLY <1>1, <1>2, <2>2
  <1> HIDE DEF init
  <1>16. /\ stack' \in Seq(Frames) /\ stack' # <<>> /\ Len(stack') = n - 1
         /\ \A i \in 1 .. n - 2 : stack'[i] = stack[i]
         /\ stack'[n - 1] = back
    <2>1. /\ stack' \in Seq(Frames) /\ stack' # <<>> /\ Len(stack') = Len(init) + 1
          /\ \A i \in 1 .. Len(init) : stack'[i] = init[i]
          /\ stack'[Len(init) + 1] = back
      BY ONLY <1>1, <1>14, <1>15, AppendProperties
    <2>2. Len(init) + 1 = n - 1
      BY <1>2, <1>15
    <2> QED
      BY <1>15, <2>1, <2>2
  <1> HIDE DEF caller, null, n
  <1>17. Top' = back
    BY <1>16 DEF Top
  <1>18. TInv'
    <2>1. kept' \in Nat /\ lost' \in BOOLEAN
      <3>1. kept \in Nat /\ lost \in BOOLEAN
        BY DEF PInv, TInv
      <3>2. kept' \in Nat
        BY <1>1, <3>1
      <3>3. lost' \in BOOLEAN
        BY <1>1, <3>1
      <3> QED
        BY <3>2, <3>3
    <2> QED
      BY <1>1, <1>5, <1>6, <1>16, <2>1 DEF TInv, PInv
  <1>19. SInv'
    <2>1. \A i \in 1 .. n - 1 : Waits(stack[i].todo)
      BY DEF PInv, SInv, n
    <2>2. \A i \in 1 .. n - 2 : Waits(stack'[i].todo)
      BY <1>2, <1>16, <2>1
    <2>3. Len(stack') - 1 = n - 2
      BY <1>2, <1>16
    <2> QED
      BY <1>9, <1>14, <1>17, <2>2, <2>3 DEF SInv
  <1>20. /\ ~Top.ok => diags > 0
         /\ ~caller.ok => diags > 0
         /\ \A i \in 1 .. n : ~stack[i].ok => diags > 0
    BY <1>2, StackFacts DEF PInv, NInv, n, caller
  <1>21. NInv'
    <2>1. ~ok => diags' > 0
      BY <1>1, <1>13, <1>20 DEF null
    <2>2. \A i \in 1 .. n - 2 : i \in 1 .. n
      BY <1>2
    <2>3. \A i \in 1 .. n - 1 : i = n - 1 \/ i \in 1 .. n - 2
      BY <1>2
    <2>4. \A i \in 1 .. n - 1 : ~stack'[i].ok => diags' > 0
      <3> SUFFICES ASSUME NEW i \in 1 .. n - 1, ~stack'[i].ok PROVE diags' > 0
        OBVIOUS
      <3>1. CASE i = n - 1
        BY <1>14, <1>16, <2>1, <3>1
      <3>2. CASE i \in 1 .. n - 2
        BY <1>1, <1>16, <1>20, <2>2, <3>2
      <3> QED
        BY <2>3, <3>1, <3>2
    <2> QED
      BY <1>16, <2>4 DEF NInv
  <1>22. BInv'
    <2>1. CASE n = 2
      BY <1>12, <1>14, <1>16, <2>1 DEF BInv
    <2>2. CASE n # 2
      <3>1. 1 \in 1 .. n - 2 /\ n # 1
        BY <1>1, <1>2, <2>2
      <3>2. Loops(stack[1].todo)
        BY <3>1 DEF PInv, BInv, n
      <3> QED
        BY <1>16, <3>1, <3>2 DEF BInv
    <2> QED
      BY <2>1, <2>2
  <1>23. lost' => diags' > 0
    <2>1. lost => diags > 0
      BY DEF PInv
    <2> QED
      BY <1>1, <1>20, <2>1 DEF null
  <1> QED
    BY <1>18, <1>19, <1>21, <1>22, <1>23 DEF PInv

-------------------------------------------------------------------------------
(* The theorems.                                                               *)

\* Every step of the parser keeps the invariant.
LEMMA Inductive ==
  ASSUME PInv, [Next]_vars
  PROVE  PInv'
  <1>1. CASE UNCHANGED vars
    BY <1>1 DEF vars, PInv, TInv, SInv, NInv, BInv, Top, Room, tokens, cn_parser_current
  <1> QED
    BY <1>1, ConsumeStep, AdvanceStep, MatchStep, CallStepKeeps, LookStep, ReportStep, BuildStep,
       ReturnStep DEF Next

\* The inductive invariant of the parser, for every set of token buffers.
THEOREM ParserInvariant == Spec => []PInv
  BY Initially, Inductive, PTL DEF Spec

\* For every token buffer: the parser never reads in front of it or behind it
\* (parser.c:cn_parser_advance, cn_parser_peek and the two loops of recovery),
\* takes only tokens that are there, and each frame below the innermost one is at
\* the call it waits for.
THEOREM ParserStaysInBuffer == Spec => []TypeOK
  <1>1. PInv => TypeOK
    <2> SUFFICES ASSUME PInv PROVE TypeOK
      OBVIOUS
    <2>1. \A i \in 1 .. Len(stack) : stack[i].ok \in BOOLEAN /\ stack[i].place \in BOOLEAN
      BY StackFacts DEF Frames
    <2>2. \A i \in 1 .. Len(stack) - 1 : Head(stack[i].todo).op = "call"
      BY DEF PInv, SInv, Waits
    <2>3. Len(stack) > 0
      BY StackFacts
    <2>4. Running("take") => cn_parser_current # "eof"
      BY TakeHasRoom
    <2> QED
      BY <2>1, <2>2, <2>3, <2>4 DEF TypeOK, PInv, TInv
  <1> QED
    BY <1>1, ParserInvariant, PTL

\* For every token buffer: a piece of the text that is in no node of the tree
\* was reported, and parsing ends at the end of the text and nowhere before.
THEOREM ParserReportsLoss == Spec => []LossIsReported
  <1>1. PInv => LossIsReported
    BY DEF PInv, BInv, Loops, LossIsReported, Done, Top
  <1> QED
    BY <1>1, ParserInvariant, PTL
====
