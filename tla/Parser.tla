-------------------------------- MODULE Parser --------------------------------
(***************************************************************************)
(* The recursive-descent parser and its error recovery                     *)
(* (src/src/parse/parser.c) as a machine that consumes a token buffer.     *)
(*                                                                         *)
(* Each parse function is the sequence of steps it takes: tokens it        *)
(* consumes and functions it calls, each with what happens when that       *)
(* yields NULL.  A function that looks at the current token is written as  *)
(* the steps it takes for that token.  The C call stack is a stack of      *)
(* frames holding the steps still to take.                                 *)
(*                                                                         *)
(* Abstractions.  A token is its kind.  The AST is reduced to whether a    *)
(* function returns NULL, whether an expression could be assigned to, how  *)
(* many declarations and statements were kept, and whether any piece of    *)
(* the text was dropped on the way.                                        *)
(***************************************************************************)
EXTENDS Integers, Sequences, FiniteSets, FiniteSetsExt

CONSTANTS
  Inputs,      \* [tokens, pieces, edit]: token buffers that end in "eof", how many
               \* statements and declarations a valid one holds, and how a
               \* valid text was edited to get it ("none", "semicolon", "other")
  PrefixLimit, \* the 32 entries of prefixes[] in cn_parse_type
  DiagCap      \* bound: diagnostics are counted up to here

-------------------------------------------------------------------------------
(* Token kinds.  "result" is an identifier the type parser knows by its text, *)
(* and "lit" any literal.                                                     *)

Ident == {"ident", "result"}
PlainType == {"int", "u8", "bool", "str", "void"}

\* CnTokenKind, without the end of the file.
Kinds ==
  Ident \cup PlainType \cup
  {"lit", "fn", "pfn", "const", "pconst", "let", "mut", "return", "if", "else", "while",
   "loop", "for", "in", "struct", "pstruct", "import", "as", "ok", "err", "ptr", "alloc",
   "zalloc", "addr", "deref", "free", "defer", "try", "zone", "slice",
   "(", ")", "{", "}", "[", "]", ":", ";", ",", ".", "..", "+", "-", "*", "/", "%",
   "!", "=", "==", "!=", "<", "<=", ">", ">=", "&&", "||"}

\* The lexer ends its token buffer with an end-of-file token and emits no other.
ASSUME InputsAssumption ==
  \A text \in Inputs :
    /\ text.tokens \in Seq(Kinds \cup {"eof"}) /\ text.tokens # <<>>
    /\ \A i \in 1..Len(text.tokens) : text.tokens[i] = "eof" <=> i = Len(text.tokens)

ASSUME BoundsAssumption == PrefixLimit \in Nat /\ DiagCap \in Nat \ {0}

VARIABLES
  input,  \* the member of Inputs being parsed
  index,  \* parser->index, counted from 1
  stack,  \* the C call stack, innermost frame last
  diags,  \* errors emitted so far, up to DiagCap
  kept,   \* declarations and statements pushed onto their lists
  lost    \* some piece of the text is in no node of the tree

vars == <<input, index, stack, diags, kept, lost>>

tokens == input.tokens

-------------------------------------------------------------------------------
(* Looking at the tokens, and recovery.                                       *)

cn_parser_current == tokens[index]

cn_parser_peek(distance) ==
  tokens[IF index + distance > Len(tokens) THEN Len(tokens) ELSE index + distance]

cn_parser_type_starts_here == cn_parser_current \in PlainType \cup Ident

TopLevelStart == {"import", "const", "pconst", "struct", "pstruct", "fn", "pfn", "eof"}

StatementStart == {"let", "return", "free", "defer", "try", "zone", "if",
                   "while", "loop", "for"}

\* Recovery skips to the first token to stop at; a ';' is itself consumed.
SkipTo(stops) ==
  LET j == Min({i \in index..Len(tokens) : tokens[i] \in stops \cup {";"}})
  IN  IF tokens[j] = ";" THEN j + 1 ELSE j

cn_parser_sync_statement == SkipTo({"}"} \cup StatementStart \cup TopLevelStart)

SyncTopLevelAsStatement == cn_parser_sync_statement

SyncSkipsAToken ==
  IF index = Len(tokens) THEN index + 1
  ELSE LET j == Min({i \in index + 1..Len(tokens) : tokens[i] \in TopLevelStart \cup {";"}})
       IN  IF tokens[j] = ";" THEN j + 1 ELSE j

cn_parser_sync_top_level == SkipTo(TopLevelStart)

-------------------------------------------------------------------------------
(* Steps, with what a NULL does.  "want": it is ignored; "need": the function *)
(* will return NULL in the end; "bail": at once; "stop": it returns what it   *)
(* has built; "same": as "need", for the node that is returned itself;        *)
(* "statement", "toplevel": the caller recovers, or adds the node to its list.*)

Tok(kinds, mode) == [op |-> "consume", kinds |-> kinds, mode |-> mode]
Want(kind) == Tok({kind}, "want")
Call(f, mode) == [op |-> "call", fn |-> f, mode |-> mode]
Goto(f) == [op |-> "goto", fn |-> f]      \* the rest of the function, from here
Take == [op |-> "take"]                   \* consume a token already checked
Opt(kind) == [op |-> "opt", kind |-> kind] \* cn_parser_match, either way
Fail == [op |-> "fail"]                   \* emit an error and return NULL
Stop == [op |-> "stop"]                   \* emit an error, return what is built
Guard == [op |-> "guard"]                 \* return NULL if something needed is missing
Drop == [op |-> "drop"]                   \* or leave just this part out
Place(b) == [op |-> "place", is |-> b]    \* the node now built, assignable or not
Target == [op |-> "target"]               \* emit E1006 unless it is

-------------------------------------------------------------------------------
(* Types.                                                                     *)

cn_parse_type_atom ==
  CASE cn_parser_current \in PlainType -> <<Take>>
    [] cn_parser_current \in Ident /\ cn_parser_peek(1) = "." ->
         <<Take, Take, Tok(Ident, "bail")>>
    [] cn_parser_current \in Ident /\ cn_parser_peek(1) # "." -> <<Take>>
    [] OTHER -> <<Fail>>

\* One entry of prefixes[]; n are filled.
AtPrefix(n) ==
  /\ n < PrefixLimit
  /\ \/ cn_parser_current \in {"ptr", "slice"}
     \/ cn_parser_current = "result" /\ cn_parser_peek(1) # "."

PrefixesFrom(n) == [op |-> "prefixes", n |-> n]

TypePrefixes(n) ==
  IF AtPrefix(n) THEN <<Take, PrefixesFrom(n + 1)>>
  ELSE IF n > 0 /\ ~cn_parser_type_starts_here THEN <<Fail>>
  ELSE <<Call("type_atom", "bail"), Goto("type_suffix")>>

cn_parse_type == <<PrefixesFrom(0)>>

\* A size that did not parse ends the type, not the statement around it.
TypeSuffix ==
  IF cn_parser_current = "["
  THEN <<Take, Call("expression", "need"), Want("]"), Goto("type_sized")>>
  ELSE <<>>

TypeSized(ok) == IF ok THEN <<Goto("type_suffix")>> ELSE <<Drop>>

-------------------------------------------------------------------------------
(* Expressions.                                                               *)

cn_parse_array_literal ==
  IF cn_parser_current = "]" THEN <<Take>>
  ELSE <<Call("expression", "stop"), Goto("array_items")>>

ArrayItems ==
  CASE cn_parser_current = ";" -> <<Take, Call("expression", "stop"), Want("]")>>
    [] cn_parser_current = "," -> <<Take, Call("expression", "stop"), Goto("array_more")>>
    [] OTHER -> <<Want("]")>>

ArrayMore ==
  IF cn_parser_current = ","
  THEN <<Take, Call("expression", "stop"), Goto("array_more")>>
  ELSE <<Want("]")>>

cn_parse_struct_literal == <<Want("{"), Goto("field_inits")>>

FieldInits ==
  IF cn_parser_current \in {"}", "eof"} THEN <<Want("}")>>
  ELSE <<Tok(Ident, "need"), Want(":"), Call("expression", "need"), Goto("field_init_end")>>

\* A field without a name or a value ends the literal.
FieldInitEnd(ok) ==
  IF ok THEN <<Opt(","), Goto("field_inits")>> ELSE <<Drop, Want("}")>>

\* alloc T and zalloc T.
cn_parse_alloc_expression == <<Call("type", "bail"), Place(FALSE)>>

cn_parse_if_expression_branch ==
  <<Tok({"{"}, "bail"), Call("expression", "need"), Want("}")>>

cn_parse_if_expression ==
  <<Call("expression", "need"), Call("if_branch", "need"), Guard, Goto("if_expr_else")>>

IfExpressionElse ==
  CASE cn_parser_current # "else" -> <<Fail>>
    [] cn_parser_current = "else" /\ cn_parser_peek(1) = "if" ->
         <<Take, Take, Call("if_expression", "bail"), Place(FALSE)>>
    [] OTHER -> <<Take, Call("if_branch", "bail"), Place(FALSE)>>

StartsLiteral(d) ==
  /\ cn_parser_peek(d) = "{"
  /\ cn_parser_peek(d + 1) \in Ident
  /\ cn_parser_peek(d + 2) = ":"

cn_parse_primary ==
  CASE cn_parser_current \in {"lit", "err"} -> <<Take, Place(FALSE)>>
    [] cn_parser_current \in {"alloc", "zalloc"} -> <<Take, Call("alloc", "bail")>>
    [] cn_parser_current = "if" -> <<Take, Call("if_expression", "bail")>>
    [] cn_parser_current \in Ident ->
         CASE cn_parser_peek(1) = "." /\ cn_parser_peek(2) \in Ident /\ StartsLiteral(3) ->
                <<Take, Take, Take, Call("struct_literal", "bail"), Place(FALSE)>>
           [] StartsLiteral(1) -> <<Take, Call("struct_literal", "bail"), Place(FALSE)>>
           [] OTHER -> <<Take, Place(TRUE)>>
    [] cn_parser_current = "[" -> <<Take, Call("array_literal", "bail"), Place(FALSE)>>
    [] cn_parser_current = "(" -> <<Take, Call("expression", "same"), Want(")")>>
    [] OTHER -> <<Fail>>

cn_parse_postfix == <<Call("primary", "bail"), Goto("postfix_loop")>>

PostfixLoop ==
  CASE cn_parser_current = "(" -> <<Take, Place(FALSE), Goto("arguments")>>
    [] cn_parser_current = "[" -> <<Take, Goto("index")>>
    [] cn_parser_current = "." ->
         <<Take, Tok(Ident \cup {"ok"}, "stop"), Place(TRUE), Goto("postfix_loop")>>
    [] OTHER -> <<>>

Arguments ==
  IF cn_parser_current = ")" THEN <<Take, Goto("postfix_loop")>>
  ELSE <<Call("expression", "stop"), Goto("arguments_more")>>

ArgumentsMore ==
  IF cn_parser_current = ","
  THEN <<Take, Call("expression", "stop"), Goto("arguments_more")>>
  ELSE <<Want(")"), Goto("postfix_loop")>>

Index ==
  CASE cn_parser_current = "]" -> <<Take, Stop>>
    [] cn_parser_current = ".." -> <<Goto("slice")>>
    [] OTHER -> <<Call("expression", "stop"), Goto("index_end")>>

IndexEnd ==
  IF cn_parser_current = ".." THEN <<Goto("slice")>>
  ELSE <<Want("]"), Place(TRUE), Goto("postfix_loop")>>

Slice ==
  (IF cn_parser_peek(1) = "]" THEN <<Take>> ELSE <<Take, Call("expression", "stop")>>)
    \o <<Want("]"), Place(FALSE), Goto("postfix_loop")>>

cn_parse_unary ==
  CASE cn_parser_current \in {"-", "!", "addr"} ->
         <<Take, Call("unary", "bail"), Place(FALSE)>>
    [] cn_parser_current = "deref" -> <<Take, Call("unary", "bail"), Place(TRUE)>>
    [] OTHER -> <<Call("postfix", "bail")>>

\* The six levels of binary operators, the tightest last.
BinaryChain ==
  [or         |-> [sub |-> "and",        kinds |-> {"||"}],
   and        |-> [sub |-> "equality",   kinds |-> {"&&"}],
   equality   |-> [sub |-> "comparison", kinds |-> {"==", "!="}],
   comparison |-> [sub |-> "term",       kinds |-> {"<", "<=", ">", ">="}],
   term       |-> [sub |-> "factor",     kinds |-> {"+", "-"}],
   factor     |-> [sub |-> "unary",      kinds |-> {"*", "/", "%"}]]

Operands(f) == [op |-> "operands", fn |-> f]

cn_parse_binary_chain(f) == <<Call(BinaryChain[f].sub, "bail"), Operands(f)>>

\* An operator whose right operand is missing ends the chain at this level.
MoreOperands(f) ==
  IF cn_parser_current \in BinaryChain[f].kinds
  THEN <<Take, Call(BinaryChain[f].sub, "stop"), Place(FALSE), Operands(f)>>
  ELSE <<>>

cn_parse_ok_expression ==
  IF cn_parser_current = "ok" THEN <<Take, Call("expression", "bail"), Place(FALSE)>>
  ELSE <<Call("or", "bail")>>

-------------------------------------------------------------------------------
(* Statements.                                                                *)

LetRequiresSemicolon ==
  <<Opt("mut"), Tok(Ident, "need"), Want(":"), Call("type", "need"),
    Want("="), Call("expression", "need"), Tok({";"}, "need")>>

cn_parse_let_statement ==
  <<Opt("mut"), Tok(Ident, "need"), Want(":"), Call("type", "need"),
    Want("="), Call("expression", "need"), Want(";")>>

cn_parse_return_statement ==
  IF cn_parser_current = ";" THEN <<Take>>
  ELSE <<Call("expression", "want"), Want(";")>>

cn_parse_try_statement ==
  <<Tok(Ident, "need"), Want("="), Call("expression", "need"), Want(";")>>

cn_parse_free_statement == <<Call("expression", "need"), Want(";")>>

cn_parse_defer_statement ==
  IF cn_parser_current = "free" THEN <<Take, Call("free_statement", "need")>>
  ELSE <<Call("expression", "need"), Want(";")>>

\* Without a condition or a body the else is not looked for.
cn_parse_if_statement ==
  <<Call("expression", "need"), Call("block", "need"), Guard, Goto("else")>>

Else ==
  CASE cn_parser_current # "else" -> <<>>
    [] cn_parser_current = "else" /\ cn_parser_peek(1) = "if" ->
         <<Take, Take, Call("if_statement", "want")>>
    [] OTHER -> <<Take, Call("block", "want")>>

cn_parse_while_statement == <<Call("expression", "need"), Call("block", "need")>>

cn_parse_loop_statement == <<Call("block", "bail")>>

cn_parse_zone_statement == <<Call("block", "bail")>>

cn_parse_for_statement ==
  <<Tok(Ident, "need"), Want(":"), Call("type", "need"), Want("in"),
    Call("expression", "need"), Want(".."), Call("expression", "need"),
    Call("block", "need")>>

cn_parse_assignment_or_expr_statement == <<Call("expression", "bail"), Goto("assignment")>>

Assignment ==
  IF cn_parser_current = "="
  THEN <<Take, Call("expression", "need"), Want(";"), Guard, Target>>
  ELSE <<Want(";")>>

cn_parse_statement ==
  CASE cn_parser_current = "let"    -> <<Take, Call("let_statement", "bail")>>
    [] cn_parser_current = "return" -> <<Take, Call("return_statement", "bail")>>
    [] cn_parser_current = "zone"   -> <<Take, Call("zone_statement", "bail")>>
    [] cn_parser_current = "try"    -> <<Take, Call("try_statement", "bail")>>
    [] cn_parser_current = "free"   -> <<Take, Call("free_statement", "bail")>>
    [] cn_parser_current = "defer"  -> <<Take, Call("defer_statement", "bail")>>
    [] cn_parser_current = "if"     -> <<Take, Call("if_statement", "bail")>>
    [] cn_parser_current = "while"  -> <<Take, Call("while_statement", "bail")>>
    [] cn_parser_current = "loop"   -> <<Take, Call("loop_statement", "bail")>>
    [] cn_parser_current = "for"    -> <<Take, Call("for_statement", "bail")>>
    [] OTHER -> <<Call("assignment_or_expr", "bail")>>

cn_parse_block == <<Tok({"{"}, "bail"), Goto("statements")>>

Statements ==
  IF cn_parser_current \in {"}", "eof"} THEN <<Want("}")>>
  ELSE <<Call("statement", "statement"), Goto("statements")>>

-------------------------------------------------------------------------------
(* Declarations.                                                              *)

cn_parse_import_decl == <<Tok(Ident, "bail"), Goto("import_path")>>

\* The segments of the path, then the alias.
cn_parser_parse_import_path ==
  CASE cn_parser_current = "." -> <<Take, Tok(Ident, "bail"), Goto("import_path")>>
    [] cn_parser_current = "as" -> <<Take, Tok(Ident, "want"), Want(";")>>
    [] OTHER -> <<Want(";")>>

cn_parse_const_decl ==
  <<Tok(Ident, "bail"), Tok({":"}, "bail"), Call("type", "bail"), Tok({"="}, "bail"),
    Call("expression", "need"), Want(";")>>

cn_parse_struct_decl == <<Tok(Ident, "bail"), Tok({"{"}, "bail"), Goto("struct_fields")>>

StructFields ==
  IF cn_parser_current \in {"}", "eof"} THEN <<Want("}")>>
  ELSE <<Tok(Ident, "need"), Want(":"), Call("type", "need"), Want(";"), Drop,
         Goto("struct_fields")>>

cn_parse_function ==
  <<Tok({":"}, "bail"), Call("type", "bail"), Tok(Ident, "bail"), Tok({"("}, "bail"),
    Goto("parameters")>>

Parameters ==
  IF cn_parser_current = ")" THEN <<Take, Call("block", "bail")>>
  ELSE <<Goto("parameter")>>

Parameter ==
  <<Tok(Ident, "need"), Want(":"), Call("type", "need"), Drop, Goto("parameter_end")>>

ParameterEnd ==
  IF cn_parser_current = "," THEN <<Take, Goto("parameter")>>
  ELSE <<Tok({")"}, "bail"), Call("block", "bail")>>

cn_parse_program ==
  CASE cn_parser_current = "eof" -> <<>>
    [] cn_parser_current = "import" -> <<Take, Call("import_decl", "toplevel"), Goto("program")>>
    [] cn_parser_current \in {"const", "pconst"} ->
         <<Take, Call("const_decl", "toplevel"), Goto("program")>>
    [] cn_parser_current \in {"struct", "pstruct"} ->
         <<Take, Call("struct_decl", "toplevel"), Goto("program")>>
    [] cn_parser_current \in {"fn", "pfn"} ->
         <<Take, Call("function", "toplevel"), Goto("program")>>
    [] OTHER -> <<Call("unexpected", "toplevel"), Goto("program")>>

-------------------------------------------------------------------------------
(* The machine.                                                               *)

Frame(todo) == [todo |-> todo, ok |-> TRUE, place |-> FALSE]

Top == stack[Len(stack)]
Step == Head(Top.todo)
Rest == Tail(Top.todo)

\* What a function does when it is called, or goes on to do from some point.
Body(f, ok) ==
  CASE f = "program"          -> cn_parse_program
    [] f = "unexpected"       -> <<Fail>>
    [] f = "import_decl"      -> cn_parse_import_decl
    [] f = "import_path"      -> cn_parser_parse_import_path
    [] f = "const_decl"       -> cn_parse_const_decl
    [] f = "struct_decl"      -> cn_parse_struct_decl
    [] f = "struct_fields"    -> StructFields
    [] f = "function"         -> cn_parse_function
    [] f = "parameters"       -> Parameters
    [] f = "parameter"        -> Parameter
    [] f = "parameter_end"    -> ParameterEnd
    [] f = "block"            -> cn_parse_block
    [] f = "statements"       -> Statements
    [] f = "statement"        -> cn_parse_statement
    [] f = "let_statement"    -> cn_parse_let_statement
    [] f = "return_statement" -> cn_parse_return_statement
    [] f = "try_statement"    -> cn_parse_try_statement
    [] f = "free_statement"   -> cn_parse_free_statement
    [] f = "defer_statement"  -> cn_parse_defer_statement
    [] f = "if_statement"     -> cn_parse_if_statement
    [] f = "else"             -> Else
    [] f = "while_statement"  -> cn_parse_while_statement
    [] f = "loop_statement"   -> cn_parse_loop_statement
    [] f = "zone_statement"   -> cn_parse_zone_statement
    [] f = "for_statement"    -> cn_parse_for_statement
    [] f = "assignment_or_expr" -> cn_parse_assignment_or_expr_statement
    [] f = "assignment"       -> Assignment
    [] f = "type"             -> cn_parse_type
    [] f = "type_atom"        -> cn_parse_type_atom
    [] f = "type_suffix"      -> TypeSuffix
    [] f = "type_sized"       -> TypeSized(ok)
    [] f = "expression"       -> cn_parse_ok_expression
    [] f \in DOMAIN BinaryChain -> cn_parse_binary_chain(f)
    [] f = "unary"            -> cn_parse_unary
    [] f = "postfix"          -> cn_parse_postfix
    [] f = "postfix_loop"     -> PostfixLoop
    [] f = "arguments"        -> Arguments
    [] f = "arguments_more"   -> ArgumentsMore
    [] f = "index"            -> Index
    [] f = "index_end"        -> IndexEnd
    [] f = "slice"            -> Slice
    [] f = "primary"          -> cn_parse_primary
    [] f = "alloc"            -> cn_parse_alloc_expression
    [] f = "if_expression"    -> cn_parse_if_expression
    [] f = "if_branch"        -> cn_parse_if_expression_branch
    [] f = "if_expr_else"     -> IfExpressionElse
    [] f = "struct_literal"   -> cn_parse_struct_literal
    [] f = "field_inits"      -> FieldInits
    [] f = "field_init_end"   -> FieldInitEnd(ok)
    [] f = "array_literal"    -> cn_parse_array_literal
    [] f = "array_items"      -> ArrayItems
    [] f = "array_more"       -> ArrayMore

Running(op) == /\ stack # <<>>
               /\ Top.todo # <<>>
               /\ Step.op = op

\* The innermost function goes on with these steps.
Continue(todo, ok, place) ==
  stack' = [stack EXCEPT ![Len(stack)] = [todo |-> todo, ok |-> ok, place |-> place]]

ContinueWith(todo) == Continue(todo, Top.ok, Top.place)

Emit == diags' = IF diags < DiagCap THEN diags + 1 ELSE diags

\* What follows a NULL, by mode: the steps left and whether the function can
\* still return a node.
AfterNull(mode, rest) == IF mode \in {"bail", "stop"} THEN <<>> ELSE rest
StillOk(mode) == Top.ok /\ mode \notin {"bail", "need", "same"}

Advance == index' = IF cn_parser_current = "eof" THEN index ELSE index + 1

cn_parser_consume ==
  /\ Running("consume")
  /\ IF cn_parser_current \in Step.kinds
     THEN Advance /\ ContinueWith(Rest) /\ UNCHANGED diags
     ELSE /\ Emit
          /\ Continue(AfterNull(Step.mode, Rest), StillOk(Step.mode), Top.place)
          /\ UNCHANGED index
  /\ UNCHANGED <<input, kept, lost>>

cn_parser_advance ==
  /\ Running("take")
  /\ Advance
  /\ ContinueWith(Rest)
  /\ UNCHANGED <<input, diags, kept, lost>>

cn_parser_match ==
  /\ Running("opt")
  /\ IF cn_parser_current = Step.kind THEN Advance ELSE UNCHANGED index
  /\ ContinueWith(Rest)
  /\ UNCHANGED <<input, diags, kept, lost>>

CallFunction ==
  /\ Running("call")
  /\ stack' = Append(stack, Frame(Body(Step.fn, TRUE)))
  /\ UNCHANGED <<input, index, diags, kept, lost>>

\* Steps that depend on the token now current.
Look ==
  /\ \/ Running("goto") /\ ContinueWith(Body(Step.fn, Top.ok) \o Rest)
     \/ Running("prefixes") /\ ContinueWith(TypePrefixes(Step.n) \o Rest)
     \/ Running("operands") /\ ContinueWith(MoreOperands(Step.fn) \o Rest)
  /\ UNCHANGED <<input, index, diags, kept, lost>>

FailsQuietly ==
  /\ \/ Running("fail") /\ UNCHANGED diags /\ Continue(<<>>, FALSE, FALSE)
     \/ Running("stop") /\ Emit /\ ContinueWith(<<>>)
     \/ /\ Running("target")
        /\ IF Top.place THEN UNCHANGED diags ELSE Emit
        /\ ContinueWith(Rest)
  /\ UNCHANGED <<input, index, kept, lost>>

Report ==
  /\ \/ Running("fail") /\ Emit /\ Continue(<<>>, FALSE, FALSE)
     \/ Running("stop") /\ Emit /\ ContinueWith(<<>>)
     \/ /\ Running("target")
        /\ IF Top.place THEN UNCHANGED diags ELSE Emit
        /\ ContinueWith(Rest)
  /\ UNCHANGED <<input, index, kept, lost>>

Build ==
  /\ \/ Running("guard") /\ ContinueWith(IF Top.ok THEN Rest ELSE <<>>) /\ UNCHANGED lost
     \/ Running("drop") /\ Continue(Rest, TRUE, Top.place) /\ lost' = (lost \/ ~Top.ok)
     \/ Running("place") /\ Continue(Rest, Top.ok, Step.is) /\ UNCHANGED lost
  /\ UNCHANGED <<input, index, diags, kept>>

\* A function returns its node, or NULL, to the call its caller is at.
Return ==
  /\ Len(stack) > 1
  /\ Top.todo = <<>>
  /\ LET caller == stack[Len(stack) - 1]
         mode   == Head(caller.todo).mode
         rest   == Tail(caller.todo)
         null   == ~Top.ok
         back   == [todo  |-> IF null THEN AfterNull(mode, rest) ELSE rest,
                    ok    |-> caller.ok /\ ~(null /\ mode \in {"bail", "need", "same"}),
                    place |-> IF mode \in {"bail", "same"} THEN Top.place ELSE caller.place]
     IN  /\ stack' = Append(SubSeq(stack, 1, Len(stack) - 2), back)
         /\ lost' = (lost \/ (null /\ mode \notin {"bail", "need", "same"}))
         /\ kept' = IF ~null /\ mode \in {"statement", "toplevel"} THEN kept + 1 ELSE kept
         /\ index' = CASE null /\ mode = "statement" -> cn_parser_sync_statement
                       [] null /\ mode = "toplevel"  -> cn_parser_sync_top_level
                       [] OTHER -> index
  /\ UNCHANGED <<input, diags>>

cn_parser_init ==
  /\ input \in Inputs
  /\ index = 1
  /\ stack = <<Frame(<<Goto("program")>>)>>
  /\ diags = 0
  /\ kept = 0
  /\ lost = FALSE

Done == Len(stack) = 1 /\ Top.todo = <<>>

Next ==
  \/ cn_parser_consume \/ cn_parser_advance \/ cn_parser_match
  \/ CallFunction \/ Look \/ Report \/ Build \/ Return

Spec == cn_parser_init /\ [][Next]_vars

\* The compiler is one thread that keeps running.
FairSpec == Spec /\ WF_vars(Next)

-------------------------------------------------------------------------------
(* Properties.                                                                *)

\* The parser stays inside the token buffer, a frame below the innermost one is
\* at the call it waits for, and a token is taken only where there is one: at the
\* end of the file cn_parser_advance would stay, and return the token before.
TypeOK ==
  /\ input \in Inputs
  /\ index \in 1..Len(tokens)
  /\ Len(stack) > 0
  /\ \A i \in 1..Len(stack) : stack[i].ok \in BOOLEAN /\ stack[i].place \in BOOLEAN
  /\ \A i \in 1..Len(stack) - 1 : Head(stack[i].todo).op = "call"
  /\ Running("take") => cn_parser_current # "eof"
  /\ diags \in 0..DiagCap
  /\ kept \in Nat
  /\ lost \in BOOLEAN

\* Whatever part of the text goes missing from the tree (a statement skipped by
\* recovery, an operand, an else branch, a return value), an error has been
\* emitted: the loader hands the tree on only if the bag holds no error.  And
\* parsing stops at the end of the text and nowhere before it, so that nothing
\* behind the last declaration goes missing unseen.
LossIsReported ==
  /\ lost => diags > 0
  /\ Done => cn_parser_current = "eof"

\* A valid text is kept whole and gives no error.  One missing ';' gives an
\* error and costs no statement and no declaration, before or after it.
RecoveryKeepsTheRest ==
  Done =>
    /\ input.edit = "none" => diags = 0 /\ kept = input.pieces
    /\ input.edit = "semicolon" => diags > 0 /\ kept = input.pieces

\* Two loops can turn without consuming a token: the statements of a block at a
\* keyword that starts a declaration, where recovery stops at once, and the
\* fields of a struct at a token that fits nowhere in a field.
Stalled ==
  /\ Running("goto")
  /\ \/ Step.fn = "statements" /\ cn_parser_current \in TopLevelStart \ {"eof"}
     \/ /\ Step.fn = "struct_fields"
        /\ cn_parser_current \notin Ident \cup PlainType \cup
                                   {":", ";", "ptr", "slice", "}", "eof"}

\* Nothing else can keep the parser from reaching the end of the text.
EndsUnlessStalled == <>(Done \/ Stalled)

\* "The parser now recovers across common statement and top-level syntax
\* errors" (docs/spec.md): parsing ends.
ParsingEnds == <>Done

====
