---------------------------- MODULE MCModuleLoader ----------------------------
(* ModuleLoader on small file systems.                                       *)
EXTENDS ModuleLoader

Root == <<"p">>

File(dir, base, ext) == [dir |-> Root \o dir, base |-> base, ext |-> ext]
Source(imports, fault) == [imports |-> imports, fault |-> fault]
World(files, entry) == [fs |-> files, entry |-> entry]

MCNames == {"p", "vendor", "<stdlib>", "std", "math", "main", "a", "b", "f"}

MCBuiltins == {<<"std", "math">>}

Math == <<"std", "math">>
A == <<"a">>
B == <<"b">>
Main == <<"main">>
FB == <<"f", "b">>

UpTo2(S) ==
  {<<>>} \cup {<<x>> : x \in S} \cup {w \in {<<x, y>> : x, y \in S} : w[1] # w[2]}

Three == {"main", "a", "b"}

\* Three files with these imports, the file called bad being faulty.
Graph(imports, bad, fault) ==
  World([p \in {File(<<>>, <<f>>, "cneg") : f \in Three} |->
           Source(imports[p.base[1]], IF bad = p.base[1] THEN fault ELSE "none")],
        File(<<>>, Main, "cneg"))

\* Every graph of three files with up to two imports each, in every order; and
\* with one of the files faulty, those without the order and the self-imports.
Graphs ==
  {Graph(imports, "no file", "none") : imports \in [Three -> UpTo2({A, B, Main})]}
  \cup {Graph(imports, bad, fault) :
          imports \in [Three -> {<<>>, <<A>>, <<B>>, <<A, B>>}],
          bad \in Three, fault \in {"unreadable", "lex", "parse"}}

\* Files that compete for a name over the search roots and the two extensions.
Competing ==
  {File(<<>>, A, "cneg"), File(<<>>, A, "cn"), File(<<"vendor">>, A, "cneg"),
   File(<<"f">>, A, "cneg"), File(<<"f">>, B, "cneg"), File(<<"vendor", "f">>, B, "cn")}

EntryFile == {File(<<>>, Main, "cneg"), File(<<>>, FB, "cneg"), File(<<>>, A, "cn")}

Roots ==
  {World([p \in present \cup {entry} |->
            Source(IF p = entry THEN first ELSE IF p.base = B THEN second ELSE <<>>, "none")],
         entry) :
     present \in SUBSET Competing,
     entry \in EntryFile,
     first \in {<<A>>, <<FB>>, <<A, FB>>, <<FB, A>>, <<Math, <<"vendor", "a">>, A>>},
     second \in {<<>>, <<A>>, <<Main>>, <<Math, FB>>}}

\* A command whose entry file is missing.
NoEntry == {World([p \in {} |-> Source(<<>>, "none")], File(<<>>, Main, "cneg"))}

MCWorlds == Graphs \cup Roots \cup NoEntry

\* A file that gets the name of a built-in module, by the fallback to the
\* importer's directory.
Shadowing ==
  {World([p \in {File(<<>>, Main, "cneg"), File(<<"std">>, A, "cneg"),
                 File(<<"std">>, <<"math">>, "cneg")} |->
            Source(IF p.base = Main THEN first
                   ELSE IF p.base = A THEN <<<<"math">>>> ELSE <<>>, "none")],
         File(<<>>, Main, "cneg")) :
     first \in UpTo2({Math, <<"std", "a">>})}
====
