-------------------------- MODULE ModuleLoaderProofs --------------------------
(***************************************************************************)
(* Proofs about ModuleLoader for every file system: the invariant behind   *)
(* the run's properties, and from it type correctness, that loading marks  *)
(* the chain of imports, that files have one name, that imports finish     *)
(* first, and in the last part that the verdict is the one the files call  *)
(* for.  Each call is taken apart in two: what it adds to the project, and *)
(* what Returned then hands to the caller.                                 *)
(***************************************************************************)
EXTENDS ModuleLoader, SetSums, SequenceTheorems, TLAPS

\* The fields of a module of the project.
LEMMA ModuleFields ==
  ASSUME NEW ms \in Seq(Module), NEW i \in DOMAIN ms
  PROVE  /\ ms[i] \in Module
         /\ i \in Nat \ {0}
         /\ ms[i].imports \in Seq(Nat)
         /\ ms[i].builtin \in BOOLEAN
         /\ ms[i].loading \in BOOLEAN
         /\ ms[i].path \in Path
<1>1. ms[i] \in Module /\ i \in Nat \ {0}
  OBVIOUS
<1> QED
  BY <1>1 DEF Module

\* The project after slot n of module m is filled: the rest is as it was.
Filled(ms, after, m, n, r) ==
  /\ after \in Seq(Module)
  /\ DOMAIN after = DOMAIN ms
  /\ \A i \in DOMAIN ms :
       /\ after[i].name = ms[i].name
       /\ after[i].path = ms[i].path
       /\ after[i].builtin = ms[i].builtin
       /\ after[i].loading = ms[i].loading
       /\ Len(after[i].imports) = Len(ms[i].imports)
       /\ i # m => after[i].imports = ms[i].imports
  /\ after[m].imports = [ms[m].imports EXCEPT ![n] = r]

\* Filling a slot does that.
LEMMA FillSlot ==
  ASSUME NEW ms \in Seq(Module), NEW m \in DOMAIN ms,
         NEW n \in DOMAIN ms[m].imports, NEW r \in Nat,
         NEW after, after = [ms EXCEPT ![m].imports[n] = r]
  PROVE  Filled(ms, after, m, n, r)
<1>1. ms[m] \in Module /\ ms[m].imports \in Seq(Nat)
  BY ModuleFields
<1> DEFINE w == [ms[m].imports EXCEPT ![n] = r]
           e == [ms[m] EXCEPT !.imports = w]
<1>2. w \in Seq(Nat) /\ Len(w) = Len(ms[m].imports)
  BY <1>1
<1>3. e \in Module
  BY <1>1, <1>2 DEF Module
<1>6. after = [ms EXCEPT ![m] = e]
  OBVIOUS
<1>4. after \in Seq(Module) /\ DOMAIN after = DOMAIN ms
  BY <1>3, <1>6
<1>5. after[m] = e /\ \A i \in DOMAIN ms : i # m => after[i] = ms[i]
  BY <1>6
<1> HIDE DEF w
<1>7. /\ e.name = ms[m].name /\ e.path = ms[m].path /\ e.builtin = ms[m].builtin
      /\ e.loading = ms[m].loading /\ e.imports = w
  BY <1>1 DEF Module
<1> HIDE DEF e
<1>8. \A i \in DOMAIN ms :
        /\ after[i].name = ms[i].name
        /\ after[i].path = ms[i].path
        /\ after[i].builtin = ms[i].builtin
        /\ after[i].loading = ms[i].loading
        /\ Len(after[i].imports) = Len(ms[i].imports)
        /\ i # m => after[i].imports = ms[i].imports
  BY <1>2, <1>5, <1>7
<1>9. after[m].imports = [ms[m].imports EXCEPT ![n] = r]
  BY <1>5, <1>7 DEF w
<1> QED
  BY <1>4, <1>8, <1>9 DEF Filled

\* Handing a module to the innermost frame keeps the project consistent, if the
\* module is settled or something has been reported.
LEMMA ReturnKeeps ==
  ASSUME NEW ms, NEW S, NEW fin, NEW bag, NEW r \in Nat,
         S # <<>>,
         Consistent(ms, S, fin, bag),
         \A k \in DOMAIN S : Waiting(ms, S, k),
         bag = <<>> => Settled(ms, fin, Len(fin), r)
  PROVE  LET top    == S[Len(S)]
             after  == [ms EXCEPT ![top.module].imports[top.next] = r]
             frames == [S EXCEPT ![Len(S)].next = @ + 1]
         IN  /\ Consistent(after, frames, fin, bag)
             /\ frames # <<>>
             /\ \A k \in DOMAIN frames : k < Len(frames) => Waiting(after, frames, k)
<1> DEFINE L == Len(S)
           m == S[L].module
           n == S[L].next
           after == [ms EXCEPT ![m].imports[n] = r]
           frames == [S EXCEPT ![L].next = @ + 1]
<1>1. /\ S \in Seq(Frame) /\ L \in DOMAIN S /\ L \in Nat \ {0}
      /\ m \in DOMAIN ms /\ n \in Nat \ {0} /\ m \in Nat
      /\ ms \in Seq(Module) /\ fin \in Seq(Nat \ {0})
  <2>1. S \in Seq(Frame) /\ ms \in Seq(Module) /\ fin \in Seq(Nat \ {0})
    BY DEF Consistent, Shape
  <2>2. L \in DOMAIN S /\ L \in Nat \ {0}
    BY <2>1
  <2>3. S[L] \in Frame
    BY <2>1, <2>2
  <2>4. m \in DOMAIN ms
    BY <2>2 DEF Consistent, Shape
  <2> QED
    BY <2>1, <2>2, <2>3, <2>4 DEF Frame
<1>2. n \in DOMAIN ms[m].imports /\ ms[m].imports \in Seq(Nat)
  <2>1. ms[m].imports \in Seq(Nat)
    BY <1>1, ModuleFields
  <2>2. n <= Len(ms[m].imports)
    BY <1>1 DEF Waiting
  <2> QED
    BY <1>1, <2>1, <2>2
<1>3. /\ after \in Seq(Module)
      /\ DOMAIN after = DOMAIN ms
      /\ \A i \in DOMAIN ms :
           /\ after[i].name = ms[i].name
           /\ after[i].path = ms[i].path
           /\ after[i].builtin = ms[i].builtin
           /\ after[i].loading = ms[i].loading
           /\ Len(after[i].imports) = Len(ms[i].imports)
           /\ i # m => after[i].imports = ms[i].imports
      /\ after[m].imports = [ms[m].imports EXCEPT ![n] = r]
  <2>1. after = [ms EXCEPT ![m].imports[n] = r]
    OBVIOUS
  <2>2. ms \in Seq(Module)
    BY <1>1
  <2>3. m \in DOMAIN ms
    BY <1>1
  <2>4. n \in DOMAIN ms[m].imports
    BY <1>2
  <2> HIDE DEF m, n, after
  <2>5. Filled(ms, after, m, n, r)
    BY <2>1, <2>2, <2>3, <2>4, FillSlot
  <2> QED
    BY <2>5 DEF Filled
<1>4. /\ frames \in Seq(Frame) /\ Len(frames) = L /\ DOMAIN frames = DOMAIN S
      /\ \A k \in DOMAIN S : /\ frames[k].module = S[k].module
                             /\ k # L => frames[k].next = S[k].next
      /\ frames[L].next = n + 1
  <2> DEFINE f == [S[L] EXCEPT !.next = @ + 1]
  <2>1. S[L] \in Frame
    BY <1>1
  <2>2. f \in Frame /\ f.module = m /\ f.next = n + 1
    BY <2>1 DEF Frame
  <2>3. frames = [S EXCEPT ![L] = f]
    OBVIOUS
  <2> HIDE DEF f, frames
  <2>4. frames \in Seq(Frame) /\ Len(frames) = L /\ DOMAIN frames = DOMAIN S
    BY <1>1, <2>2, <2>3
  <2>5. frames[L] = f /\ \A k \in DOMAIN S : k # L => frames[k] = S[k]
    BY <1>1, <2>3
  <2> QED
    BY <2>2, <2>4, <2>5
<1> HIDE DEF after, frames
<1>5. Shape(after, frames, fin)
  <2>1. \A k \in DOMAIN frames :
          /\ frames[k].module \in DOMAIN after
          /\ after[frames[k].module].loading
          /\ frames[k].next <= Len(after[frames[k].module].imports) + 1
    <3> SUFFICES ASSUME NEW k \in DOMAIN S
                 PROVE  /\ frames[k].module \in DOMAIN after
                        /\ after[frames[k].module].loading
                        /\ frames[k].next <= Len(after[frames[k].module].imports) + 1
      BY <1>4
    <3>1. /\ S[k].module \in DOMAIN ms /\ ms[S[k].module].loading
          /\ S[k].next <= Len(ms[S[k].module].imports) + 1
      BY DEF Consistent, Shape
    <3>2. n <= Len(ms[m].imports)
      BY <1>1 DEF Waiting
    <3>3. Len(ms[m].imports) \in Nat
      BY <1>2
    <3>4. frames[k].next <= Len(ms[S[k].module].imports) + 1
      <4>1. CASE k = L
        <5> HIDE DEF L
        <5> QED
          BY <1>1, <1>4, <3>2, <3>3, <4>1
      <4>2. CASE k # L
        BY <1>4, <3>1, <4>2
      <4> QED
        BY <4>1, <4>2
    <3> QED
      BY <1>3, <1>4, <3>1, <3>4
  <2>2. \A j, k \in DOMAIN frames : frames[j].module = frames[k].module => j = k
    BY <1>4 DEF Consistent, Shape
  <2>3. ASSUME NEW i \in DOMAIN after, after[i].loading
        PROVE  ~after[i].builtin /\ \E k \in DOMAIN frames : frames[k].module = i
    <3>1. ~ms[i].builtin /\ \E k \in DOMAIN S : S[k].module = i
      BY <1>3, <2>3 DEF Consistent, Shape
    <3> QED
      BY <1>3, <1>4, <3>1
  <2>4. \A k \in DOMAIN fin : fin[k] \in DOMAIN after /\ ~after[fin[k]].loading
    BY <1>3 DEF Consistent, Shape
  <2>5. \A i \in DOMAIN after :
          after[i].builtin \/ after[i].loading \/ \E k \in DOMAIN fin : fin[k] = i
    BY <1>3 DEF Consistent, Shape
  <2> QED
    BY <1>1, <1>3, <1>4, <2>1, <2>2, <2>3, <2>4, <2>5 DEF Shape
<1>6. ASSUME bag = <<>> PROVE Ordered(after, frames, fin)
  <2>1. \A q, i : Settled(ms, fin, q, i) => Settled(after, fin, q, i)
    BY <1>3 DEF Settled
  <2>2. ASSUME NEW k \in DOMAIN frames, NEW j \in 1..frames[k].next - 1
        PROVE  Settled(after, fin, Len(fin), after[frames[k].module].imports[j])
    <3>1. CASE k = L /\ j = n
      BY <1>2, <1>3, <1>4, <1>6, <2>1, <3>1
    <3>2. CASE k = L /\ j # n
      <4>1. j \in 1..n - 1
        BY <1>1, <1>4, <3>2
      <4>2. after[m].imports[j] = ms[m].imports[j]
        BY <1>1, <1>2, <1>3, <4>1, <3>2
      <4>3. Settled(ms, fin, Len(fin), ms[m].imports[j])
        BY <1>1, <1>6, <4>1 DEF Consistent, Ordered
      <4> QED
        BY <1>4, <2>1, <3>2, <4>2, <4>3
    <3>3. CASE k # L
      <4>1. S[k].module # m
        BY <1>1, <1>4, <3>3 DEF Consistent, Shape
      <4>2. after[frames[k].module].imports = ms[S[k].module].imports
        BY <1>3, <1>4, <4>1 DEF Consistent, Shape
      <4> QED
        BY <1>4, <1>6, <2>1, <3>3, <4>2 DEF Consistent, Ordered
    <3> QED
      BY <3>1, <3>2, <3>3
  <2>3. ASSUME NEW k \in DOMAIN fin, NEW j \in DOMAIN after[fin[k]].imports
        PROVE  Settled(after, fin, k - 1, after[fin[k]].imports[j])
    <3>1. fin[k] \in DOMAIN ms /\ fin[k] # m
      BY <1>1 DEF Consistent, Shape
    <3>2. after[fin[k]].imports = ms[fin[k]].imports
      BY <1>3, <3>1
    <3> QED
      BY <1>6, <2>1, <3>2 DEF Consistent, Ordered
  <2> QED
    BY <2>2, <2>3 DEF Ordered
<1>7. FromFiles(after)
  <2> SUFFICES ASSUME NEW i \in DOMAIN ms, ~ms[i].builtin, after[i].imports # <<>>
               PROVE  /\ ms[i].path \in DOMAIN fs
                      /\ Len(ms[i].imports) = Len(fs[ms[i].path].imports)
    BY <1>3 DEF FromFiles
  <2>1. ms[i].imports \in Seq(Nat) /\ after[i].imports \in Seq(Nat)
    BY <1>1, <1>3, ModuleFields
  <2>2. ms[i].imports # <<>>
    BY <1>3, <2>1
  <2> QED
    BY <2>2 DEF Consistent, FromFiles
<1>8. OneName(after)
  BY <1>3 DEF Consistent, OneName
<1>9. Chained(after, frames)
  <2> SUFFICES ASSUME NEW k \in DOMAIN S, k > 1
               PROVE  after[frames[k].module].path
                        \in Targets(after[frames[k - 1].module].path)
    BY <1>4 DEF Chained
  <2>1. k - 1 \in DOMAIN S
    BY <1>1
  <2>2. S[k].module \in DOMAIN ms /\ S[k - 1].module \in DOMAIN ms
    BY <2>1 DEF Consistent, Shape
  <2>3. ms[S[k].module].path \in Targets(ms[S[k - 1].module].path)
    BY DEF Consistent, Chained
  <2> QED
    BY <1>3, <1>4, <2>1, <2>2, <2>3
<1>10. \A k \in DOMAIN frames : k < Len(frames) => Waiting(after, frames, k)
  <2> SUFFICES ASSUME NEW k \in DOMAIN S, k < L
               PROVE  frames[k].next <= Len(after[frames[k].module].imports)
    BY <1>4 DEF Waiting
  <2>1. S[k].next <= Len(ms[S[k].module].imports) /\ S[k].module \in DOMAIN ms
    BY DEF Waiting, Consistent, Shape
  <2> QED
    BY <1>1, <1>3, <1>4, <2>1
<1>11. frames # <<>>
  BY <1>1, <1>4
<1> QED
  BY <1>5, <1>6, <1>7, <1>8, <1>9, <1>10, <1>11 DEF Consistent, after, frames

\* The elements of a sequence that has grown by one.
LEMMA Grown ==
  ASSUME NEW T, NEW s \in Seq(T), NEW x \in T
  PROVE  /\ Append(s, x) \in Seq(T)
         /\ Len(Append(s, x)) = Len(s) + 1
         /\ DOMAIN Append(s, x) = DOMAIN s \cup {Len(s) + 1}
         /\ Len(s) \in Nat
         /\ Len(s) + 1 \notin DOMAIN s
         /\ \A i \in DOMAIN s : Append(s, x)[i] = s[i]
         /\ Append(s, x)[Len(s) + 1] = x
OBVIOUS

\* More errors ask for less.
LEMMA BagWeakens ==
  ASSUME NEW ms, NEW S, NEW fin, NEW bag, NEW bag2,
         Consistent(ms, S, fin, bag),
         bag2 = <<>> => bag = <<>>
  PROVE  Consistent(ms, S, fin, bag2)
BY DEF Consistent

\* A module that is new to the project by name and by path.
Fresh(ms, x) ==
  /\ x \in Module
  /\ x.builtin \/ \A i \in DOMAIN ms : x.name # ms[i].name /\ x.path # ms[i].path
  /\ \/ x.builtin
     \/ x.imports = <<>>
     \/ x.path \in DOMAIN fs /\ Len(x.imports) = Len(fs[x.path].imports)

\* What adding it does not disturb.
LEMMA FreshKeeps ==
  ASSUME NEW ms, NEW S, NEW fin, NEW bag, NEW x,
         Consistent(ms, S, fin, bag), Fresh(ms, x)
  PROVE  LET more == Append(ms, x)
         IN  /\ FromFiles(more)
             /\ OneName(more)
             /\ Chained(more, S)
             /\ bag = <<>> => Ordered(more, S, fin)
             /\ \A k \in DOMAIN S : Waiting(ms, S, k) => Waiting(more, S, k)
<1> DEFINE more == Append(ms, x)
<1>1. /\ more \in Seq(Module)
      /\ DOMAIN more = DOMAIN ms \cup {Len(ms) + 1}
      /\ Len(ms) + 1 \notin DOMAIN ms
      /\ \A i \in DOMAIN ms : more[i] = ms[i]
      /\ more[Len(ms) + 1] = x
  BY Grown DEF Consistent, Shape, Fresh
<1> HIDE DEF more
<1>2. FromFiles(more)
  BY <1>1 DEF FromFiles, Consistent, Fresh
<1>3. OneName(more)
  BY <1>1 DEF OneName, Consistent, Fresh
<1>4. Chained(more, S)
  <2> SUFFICES ASSUME NEW k \in DOMAIN S, k > 1
               PROVE  more[S[k].module].path \in Targets(more[S[k - 1].module].path)
    BY DEF Chained
  <2>1. k - 1 \in DOMAIN S
    BY DEF Consistent, Shape
  <2>2. S[k].module \in DOMAIN ms /\ S[k - 1].module \in DOMAIN ms
    BY <2>1 DEF Consistent, Shape
  <2>3. ms[S[k].module].path \in Targets(ms[S[k - 1].module].path)
    BY DEF Consistent, Chained
  <2> QED
    BY <1>1, <2>2, <2>3
<1>5. ASSUME bag = <<>> PROVE Ordered(more, S, fin)
  <2>1. \A n, i : Settled(ms, fin, n, i) => Settled(more, fin, n, i)
    BY <1>1 DEF Settled
  <2>2. \A k \in DOMAIN S : more[S[k].module] = ms[S[k].module]
    BY <1>1 DEF Consistent, Shape
  <2>3. \A k \in DOMAIN fin : more[fin[k]] = ms[fin[k]]
    BY <1>1 DEF Consistent, Shape
  <2>4. Ordered(ms, S, fin)
    BY <1>5 DEF Consistent
  <2> QED
    BY <2>1, <2>2, <2>3, <2>4 DEF Ordered
<1>6. \A k \in DOMAIN S : Waiting(ms, S, k) => Waiting(more, S, k)
  BY <1>1 DEF Consistent, Shape, Waiting
<1> QED
  BY <1>2, <1>3, <1>4, <1>5, <1>6 DEF more

\* Adding a built-in module.
LEMMA BuiltinKeeps ==
  ASSUME NEW ms, NEW S, NEW fin, NEW bag, NEW x,
         Consistent(ms, S, fin, bag), Fresh(ms, x),
         x.builtin, ~x.loading
  PROVE  Consistent(Append(ms, x), S, fin, bag)
<1> DEFINE more == Append(ms, x)
<1>1. /\ more \in Seq(Module)
      /\ DOMAIN more = DOMAIN ms \cup {Len(ms) + 1}
      /\ \A i \in DOMAIN ms : more[i] = ms[i]
      /\ more[Len(ms) + 1] = x
  BY Grown DEF Consistent, Shape, Fresh
<1>2. /\ FromFiles(more) /\ OneName(more) /\ Chained(more, S)
      /\ bag = <<>> => Ordered(more, S, fin)
  BY FreshKeeps
<1> HIDE DEF more
<1>3. Shape(more, S, fin)
  <2>1. /\ S \in Seq(Frame) /\ fin \in Seq(Nat \ {0})
        /\ \A j, k \in DOMAIN S : S[j].module = S[k].module => j = k
    BY DEF Consistent, Shape
  <2>2. \A k \in DOMAIN S : /\ S[k].module \in DOMAIN more
                           /\ more[S[k].module].loading
                           /\ S[k].next <= Len(more[S[k].module].imports) + 1
    BY <1>1 DEF Consistent, Shape
  <2>3. \A i \in DOMAIN more :
          more[i].loading => ~more[i].builtin /\ \E k \in DOMAIN S : S[k].module = i
    BY <1>1 DEF Consistent, Shape
  <2>4. \A k \in DOMAIN fin : fin[k] \in DOMAIN more /\ ~more[fin[k]].loading
    BY <1>1 DEF Consistent, Shape
  <2>5. \A i \in DOMAIN more :
          more[i].builtin \/ more[i].loading \/ \E k \in DOMAIN fin : fin[k] = i
    BY <1>1 DEF Consistent, Shape
  <2> QED
    BY <1>1, <2>1, <2>2, <2>3, <2>4, <2>5 DEF Shape
<1> QED
  BY <1>2, <1>3 DEF Consistent, more

\* Adding a file that cannot be read, which is reported.
LEMMA UnreadableKeeps ==
  ASSUME NEW ms, NEW S, NEW fin, NEW bag, NEW bag2, NEW x,
         Consistent(ms, S, fin, bag), Fresh(ms, x),
         ~x.loading, bag2 # <<>>
  PROVE  Consistent(Append(ms, x), S, Append(fin, Len(ms) + 1), bag2)
<1> DEFINE more == Append(ms, x)
           done == Append(fin, Len(ms) + 1)
<1>1. /\ more \in Seq(Module)
      /\ DOMAIN more = DOMAIN ms \cup {Len(ms) + 1}
      /\ \A i \in DOMAIN ms : more[i] = ms[i]
      /\ more[Len(ms) + 1] = x
      /\ Len(ms) \in Nat
  BY Grown DEF Consistent, Shape, Fresh
<1>2. FromFiles(more) /\ OneName(more) /\ Chained(more, S)
  BY FreshKeeps
<1>3. /\ done \in Seq(Nat \ {0})
      /\ DOMAIN done = DOMAIN fin \cup {Len(fin) + 1}
      /\ \A i \in DOMAIN fin : done[i] = fin[i]
      /\ done[Len(fin) + 1] = Len(ms) + 1
  <2>1. fin \in Seq(Nat \ {0}) /\ Len(ms) + 1 \in Nat \ {0}
    BY <1>1 DEF Consistent, Shape
  <2> QED
    BY <2>1, Grown
<1> HIDE DEF more, done
<1>4. Shape(more, S, done)
  <2>1. /\ S \in Seq(Frame)
        /\ \A j, k \in DOMAIN S : S[j].module = S[k].module => j = k
    BY DEF Consistent, Shape
  <2>2. \A k \in DOMAIN S : /\ S[k].module \in DOMAIN more
                           /\ more[S[k].module].loading
                           /\ S[k].next <= Len(more[S[k].module].imports) + 1
    BY <1>1 DEF Consistent, Shape
  <2>3. \A i \in DOMAIN more :
          more[i].loading => ~more[i].builtin /\ \E k \in DOMAIN S : S[k].module = i
    BY <1>1 DEF Consistent, Shape
  <2>4. \A k \in DOMAIN done : done[k] \in DOMAIN more /\ ~more[done[k]].loading
    BY <1>1, <1>3 DEF Consistent, Shape
  <2>5. \A i \in DOMAIN more :
          more[i].builtin \/ more[i].loading \/ \E k \in DOMAIN done : done[k] = i
    BY <1>1, <1>3 DEF Consistent, Shape
  <2> QED
    BY <1>1, <1>3, <2>1, <2>2, <2>3, <2>4, <2>5 DEF Shape
<1> QED
  BY <1>2, <1>4 DEF Consistent, more, done

\* Adding a file whose imports are about to be loaded.
LEMMA SourceKeeps ==
  ASSUME NEW ms, NEW S, NEW fin, NEW bag, NEW bag2, NEW x,
         Consistent(ms, S, fin, bag), Fresh(ms, x),
         ~x.builtin, x.loading,
         bag2 = <<>> => bag = <<>>,
         S = <<>> \/ x.path \in Targets(ms[S[Len(S)].module].path)
  PROVE  Consistent(Append(ms, x), Append(S, [module |-> Len(ms) + 1, next |-> 1]), fin, bag2)
<1> DEFINE more == Append(ms, x)
           frame == [module |-> Len(ms) + 1, next |-> 1]
           frames == Append(S, frame)
<1>1. /\ more \in Seq(Module)
      /\ DOMAIN more = DOMAIN ms \cup {Len(ms) + 1}
      /\ Len(ms) + 1 \notin DOMAIN ms
      /\ \A i \in DOMAIN ms : more[i] = ms[i]
      /\ more[Len(ms) + 1] = x
      /\ Len(ms) \in Nat
  BY Grown DEF Consistent, Shape, Fresh
<1>2. /\ FromFiles(more) /\ OneName(more) /\ Chained(more, S)
      /\ bag = <<>> => Ordered(more, S, fin)
  BY FreshKeeps
<1>3. /\ frames \in Seq(Frame)
      /\ DOMAIN frames = DOMAIN S \cup {Len(S) + 1}
      /\ Len(S) + 1 \notin DOMAIN S
      /\ Len(S) \in Nat
      /\ \A i \in DOMAIN S : frames[i] = S[i]
      /\ frames[Len(S) + 1] = frame
  <2>1. S \in Seq(Frame) /\ frame \in Frame
    BY <1>1 DEF Consistent, Shape, Frame
  <2> QED
    BY <2>1, Grown
<1>4. frame.module = Len(ms) + 1 /\ frame.next = 1
  OBVIOUS
<1>5. x.imports \in Seq(Nat)
  BY DEF Fresh, Module
<1> HIDE DEF more, frames, frame
<1>6. Shape(more, frames, fin)
  <2>1. fin \in Seq(Nat \ {0})
    BY DEF Consistent, Shape
  <2>2. \A k \in DOMAIN frames : /\ frames[k].module \in DOMAIN more
                                /\ more[frames[k].module].loading
                                /\ frames[k].next <= Len(more[frames[k].module].imports) + 1
    <3> SUFFICES ASSUME NEW k \in DOMAIN frames
                 PROVE  /\ frames[k].module \in DOMAIN more
                        /\ more[frames[k].module].loading
                        /\ frames[k].next <= Len(more[frames[k].module].imports) + 1
      OBVIOUS
    <3>1. CASE k \in DOMAIN S
      <4>1. /\ S[k].module \in DOMAIN ms /\ ms[S[k].module].loading
            /\ S[k].next <= Len(ms[S[k].module].imports) + 1
        BY <3>1 DEF Consistent, Shape
      <4>2. frames[k] = S[k] /\ more[S[k].module] = ms[S[k].module]
        BY <1>1, <1>3, <3>1, <4>1
      <4> QED
        BY <1>1, <4>1, <4>2
    <3>2. CASE k = Len(S) + 1
      <4>1. frames[k].module = Len(ms) + 1 /\ frames[k].next = 1
        BY <1>3, <1>4, <3>2
      <4>2. 1 <= Len(x.imports) + 1
        BY <1>5
      <4> QED
        BY <1>1, <4>1, <4>2
    <3> QED
      BY <1>3, <3>1, <3>2
  <2>3. \A j, k \in DOMAIN frames : frames[j].module = frames[k].module => j = k
    BY <1>1, <1>3, <1>4 DEF Consistent, Shape
  <2>4. ASSUME NEW i \in DOMAIN more, more[i].loading
        PROVE  ~more[i].builtin /\ \E k \in DOMAIN frames : frames[k].module = i
    <3>1. CASE i \in DOMAIN ms
      <4>1. ~ms[i].builtin /\ \E k \in DOMAIN S : S[k].module = i
        BY <1>1, <2>4, <3>1 DEF Consistent, Shape
      <4> QED
        BY <1>1, <1>3, <3>1, <4>1
    <3>2. CASE i = Len(ms) + 1
      BY <1>1, <1>3, <1>4, <3>2
    <3> QED
      BY <1>1, <3>1, <3>2
  <2>5. \A k \in DOMAIN fin : fin[k] \in DOMAIN more /\ ~more[fin[k]].loading
    BY <1>1 DEF Consistent, Shape
  <2>6. \A i \in DOMAIN more :
          more[i].builtin \/ more[i].loading \/ \E k \in DOMAIN fin : fin[k] = i
    BY <1>1 DEF Consistent, Shape
  <2> QED
    BY <1>1, <1>3, <2>1, <2>2, <2>3, <2>4, <2>5, <2>6 DEF Shape
<1>7. ASSUME bag2 = <<>> PROVE Ordered(more, frames, fin)
  <2>1. Ordered(more, S, fin)
    BY <1>2, <1>7
  <2>2. ASSUME NEW k \in DOMAIN frames, NEW j \in 1..frames[k].next - 1
        PROVE  k \in DOMAIN S
    BY <1>3, <1>4
  <2> QED
    BY <1>3, <2>1, <2>2 DEF Ordered
<1>8. Chained(more, frames)
  <2> SUFFICES ASSUME NEW k \in DOMAIN frames, k > 1
               PROVE  more[frames[k].module].path \in Targets(more[frames[k - 1].module].path)
    BY DEF Chained
  <2>0. S \in Seq(Frame)
    BY DEF Consistent, Shape
  <2>1. k - 1 \in DOMAIN S
    BY <1>3, <2>0
  <2>2. CASE k \in DOMAIN S
    BY <1>2, <1>3, <2>1, <2>2 DEF Chained
  <2>3. CASE k = Len(S) + 1
    <3>1. S # <<>> /\ k - 1 = Len(S)
      BY <1>3, <2>0, <2>1, <2>3
    <3>2. S[Len(S)].module \in DOMAIN ms
      BY <2>1, <3>1 DEF Consistent, Shape
    <3> QED
      BY <1>1, <1>3, <1>4, <2>1, <2>3, <3>1, <3>2
  <2> QED
    BY <1>3, <2>2, <2>3
<1> QED
  BY <1>2, <1>6, <1>7, <1>8 DEF Consistent, more, frames, frame

\* Finishing the innermost module, all of whose imports are bound.
LEMMA FinishKeeps ==
  ASSUME NEW ms, NEW S, NEW fin, NEW bag,
         Consistent(ms, S, fin, bag),
         S # <<>>,
         S[Len(S)].next > Len(ms[S[Len(S)].module].imports)
  PROVE  LET m     == S[Len(S)].module
             after == [ms EXCEPT ![m].loading = FALSE]
             rest  == SubSeq(S, 1, Len(S) - 1)
         IN  /\ Consistent(after, rest, Append(fin, m), bag)
             /\ m \in Nat
             /\ bag = <<>> => Settled(after, Append(fin, m), Len(fin) + 1, m)
             /\ \A k \in DOMAIN S : k < Len(S) /\ Waiting(ms, S, k) => Waiting(after, rest, k)
<1> DEFINE L == Len(S)
           m == S[L].module
           after == [ms EXCEPT ![m].loading = FALSE]
           rest == SubSeq(S, 1, L - 1)
           done == Append(fin, m)
<1>1. /\ S \in Seq(Frame) /\ L \in DOMAIN S /\ L \in Nat \ {0}
      /\ m \in DOMAIN ms /\ m \in Nat \ {0}
      /\ ms \in Seq(Module) /\ fin \in Seq(Nat \ {0})
  <2>1. S \in Seq(Frame) /\ ms \in Seq(Module) /\ fin \in Seq(Nat \ {0})
    BY DEF Consistent, Shape
  <2>2. L \in DOMAIN S /\ L \in Nat \ {0}
    BY <2>1
  <2>3. m \in DOMAIN ms
    BY <2>2 DEF Consistent, Shape
  <2> QED
    BY <2>1, <2>2, <2>3
<1>2. /\ after \in Seq(Module)
      /\ DOMAIN after = DOMAIN ms
      /\ \A i \in DOMAIN ms : i # m => after[i] = ms[i]
      /\ after[m].name = ms[m].name /\ after[m].path = ms[m].path
      /\ after[m].builtin = ms[m].builtin /\ after[m].imports = ms[m].imports
      /\ after[m].loading = FALSE
  <2> HIDE DEF m
  <2>1. ms[m] \in Module
    BY <1>1
  <2> DEFINE e == [ms[m] EXCEPT !.loading = FALSE]
  <2>2. /\ e \in Module /\ e.name = ms[m].name /\ e.path = ms[m].path
        /\ e.builtin = ms[m].builtin /\ e.imports = ms[m].imports /\ e.loading = FALSE
    BY <2>1 DEF Module
  <2>3. after = [ms EXCEPT ![m] = e]
    OBVIOUS
  <2> HIDE DEF e, after
  <2>4. /\ after \in Seq(Module) /\ DOMAIN after = DOMAIN ms
        /\ after[m] = e /\ \A i \in DOMAIN ms : i # m => after[i] = ms[i]
    BY <1>1, <2>2, <2>3
  <2> QED
    BY <2>2, <2>4
<1>3. /\ rest \in Seq(Frame) /\ DOMAIN rest = DOMAIN S \ {L}
      /\ \A k \in DOMAIN rest : rest[k] = S[k]
      /\ \A k \in DOMAIN S : k < L <=> k \in DOMAIN rest
  BY <1>1
<1>4. /\ done \in Seq(Nat \ {0})
      /\ Len(done) = Len(fin) + 1
      /\ DOMAIN done = DOMAIN fin \cup {Len(fin) + 1}
      /\ Len(fin) \in Nat
      /\ \A k \in DOMAIN fin : done[k] = fin[k]
      /\ done[Len(fin) + 1] = m
  BY <1>1, Grown
<1>5. /\ ms[m].loading
      /\ \A k \in DOMAIN rest : S[k].module # m
  BY <1>1, <1>3 DEF Consistent, Shape
<1> HIDE DEF after, rest, done
<1>6. Shape(after, rest, done)
  <2>1. \A k \in DOMAIN rest : /\ rest[k].module \in DOMAIN after
                              /\ after[rest[k].module].loading
                              /\ rest[k].next <= Len(after[rest[k].module].imports) + 1
    <3> SUFFICES ASSUME NEW k \in DOMAIN rest
                 PROVE  /\ rest[k].module \in DOMAIN after
                        /\ after[rest[k].module].loading
                        /\ rest[k].next <= Len(after[rest[k].module].imports) + 1
      OBVIOUS
    <3>1. k \in DOMAIN S /\ rest[k] = S[k]
      BY <1>3
    <3>2. /\ S[k].module \in DOMAIN ms /\ ms[S[k].module].loading
          /\ S[k].next <= Len(ms[S[k].module].imports) + 1
      BY <3>1 DEF Consistent, Shape
    <3>3. after[S[k].module] = ms[S[k].module]
      BY <1>2, <1>5, <3>2
    <3> QED
      BY <1>2, <3>1, <3>2, <3>3
  <2>2. \A j, k \in DOMAIN rest : rest[j].module = rest[k].module => j = k
    BY <1>3 DEF Consistent, Shape
  <2>3. ASSUME NEW i \in DOMAIN after, after[i].loading
        PROVE  ~after[i].builtin /\ \E k \in DOMAIN rest : rest[k].module = i
    <3>1. i # m /\ i \in DOMAIN ms
      BY <1>2, <2>3
    <3>2. ~ms[i].builtin /\ \E k \in DOMAIN S : S[k].module = i
      BY <1>2, <2>3, <3>1 DEF Consistent, Shape
    <3>3. PICK k \in DOMAIN S : S[k].module = i
      BY <3>2
    <3>4. k \in DOMAIN rest /\ rest[k].module = i
      BY <1>3, <3>1, <3>3
    <3> QED
      BY <1>2, <3>1, <3>2, <3>4
  <2>4. \A k \in DOMAIN done : done[k] \in DOMAIN after /\ ~after[done[k]].loading
    <3>1. \A k \in DOMAIN fin : fin[k] \in DOMAIN ms /\ ~ms[fin[k]].loading
      BY DEF Consistent, Shape
    <3> QED
      BY <1>1, <1>2, <1>4, <3>1
  <2>5. ASSUME NEW i \in DOMAIN after
        PROVE  after[i].builtin \/ after[i].loading \/ \E k \in DOMAIN done : done[k] = i
    <3>1. CASE i = m
      BY <1>4, <3>1
    <3>2. CASE i # m
      <4>1. ms[i].builtin \/ ms[i].loading \/ \E k \in DOMAIN fin : fin[k] = i
        BY <1>2 DEF Consistent, Shape
      <4> QED
        BY <1>2, <1>4, <3>2, <4>1
    <3> QED
      BY <3>1, <3>2
  <2> QED
    BY <1>2, <1>3, <1>4, <2>1, <2>2, <2>3, <2>4, <2>5 DEF Shape
<1>7. ASSUME bag = <<>> PROVE Ordered(after, rest, done)
  <2>0. Ordered(ms, S, fin)
    BY <1>7 DEF Consistent
  <2>1. ASSUME NEW n \in 0..Len(fin), NEW i, Settled(ms, fin, n, i)
        PROVE  Settled(after, done, n, i) /\ Settled(after, done, Len(done), i)
    <3>1. i \in DOMAIN after /\ after[i].builtin = ms[i].builtin
      BY <1>2, <2>1 DEF Settled
    <3>2. CASE ms[i].builtin
      BY <3>1, <3>2 DEF Settled
    <3>3. CASE \E l \in 1..n : fin[l] = i
      <4>1. PICK l \in 1..n : fin[l] = i
        BY <3>3
      <4>2. l \in DOMAIN fin /\ l \in 1..Len(done)
        BY <1>1, <1>4, <2>1
      <4>3. done[l] = i
        BY <1>4, <4>1, <4>2
      <4> QED
        BY <3>1, <4>2, <4>3 DEF Settled
    <3> QED
      BY <2>1, <3>2, <3>3 DEF Settled
  <2>2. ASSUME NEW i, Settled(ms, fin, Len(fin), i)
        PROVE  Settled(after, done, Len(done), i)
    <3>1. Len(fin) \in 0..Len(fin)
      BY <1>4
    <3> QED
      BY <2>1, <2>2, <3>1
  <2>3. \A i \in DOMAIN ms : after[i].imports = ms[i].imports
    BY <1>2
  <2>4. ASSUME NEW k \in DOMAIN rest, NEW j \in 1..rest[k].next - 1
        PROVE  Settled(after, done, Len(done), after[rest[k].module].imports[j])
    <3>1. S[k].module \in DOMAIN ms /\ k \in DOMAIN S
      BY <1>3 DEF Consistent, Shape
    <3>2. Settled(ms, fin, Len(fin), ms[S[k].module].imports[j])
      BY <1>3, <2>0, <3>1 DEF Ordered
    <3> QED
      BY <1>3, <2>2, <2>3, <3>1, <3>2
  <2>5. ASSUME NEW k \in DOMAIN done, NEW j \in DOMAIN after[done[k]].imports
        PROVE  Settled(after, done, k - 1, after[done[k]].imports[j])
    <3>1. CASE k \in DOMAIN fin
      <4>1. fin[k] \in DOMAIN ms /\ k - 1 \in 0..Len(fin)
        BY <1>1, <3>1 DEF Consistent, Shape
      <4>2. Settled(ms, fin, k - 1, ms[fin[k]].imports[j])
        BY <1>4, <2>0, <2>3, <3>1, <4>1 DEF Ordered
      <4> QED
        BY <1>4, <2>1, <2>3, <3>1, <4>1, <4>2
    <3>2. CASE k = Len(fin) + 1
      <4>0. ms[m].imports \in Seq(Nat) /\ S[L].next \in Nat
        <5>1. S[L] \in Frame
          BY <1>1
        <5> QED
          BY <1>1, <5>1, ModuleFields DEF Frame
      <4>4. j \in DOMAIN ms[m].imports /\ S[L].next > Len(ms[m].imports)
        BY <1>4, <1>2, <3>2
      <4>1. j \in 1..S[L].next - 1
        BY <4>0, <4>4
      <4>2. Settled(ms, fin, Len(fin), ms[m].imports[j])
        BY <1>1, <2>0, <4>1 DEF Ordered
      <4>3. k - 1 = Len(fin) /\ Len(fin) \in 0..Len(fin)
        BY <1>4, <3>2
      <4> QED
        BY <1>2, <1>4, <2>1, <3>2, <4>2, <4>3
    <3> QED
      BY <1>4, <3>1, <3>2
  <2> QED
    BY <2>4, <2>5 DEF Ordered
<1>8. FromFiles(after)
  BY <1>2 DEF FromFiles, Consistent
<1>9. OneName(after)
  BY <1>2 DEF OneName, Consistent
<1>10. Chained(after, rest)
  <2> SUFFICES ASSUME NEW k \in DOMAIN rest, k > 1
               PROVE  after[rest[k].module].path \in Targets(after[rest[k - 1].module].path)
    BY DEF Chained
  <2>1. k - 1 \in DOMAIN rest /\ k \in DOMAIN S /\ k - 1 \in DOMAIN S
    BY <1>1, <1>3
  <2>2. S[k].module \in DOMAIN ms /\ S[k - 1].module \in DOMAIN ms
    BY <2>1 DEF Consistent, Shape
  <2>3. ms[S[k].module].path \in Targets(ms[S[k - 1].module].path)
    BY <2>1 DEF Consistent, Chained
  <2> QED
    BY <1>2, <1>3, <2>1, <2>2, <2>3
<1>11. Settled(after, done, Len(fin) + 1, m)
  <2>1. Len(fin) + 1 \in 1..Len(fin) + 1
    BY <1>4
  <2> QED
    BY <1>1, <1>2, <1>4, <2>1 DEF Settled
<1>12. ASSUME NEW k \in DOMAIN S, k < L, Waiting(ms, S, k)
       PROVE  Waiting(after, rest, k)
  BY <1>2, <1>3, <1>12 DEF Waiting, Consistent, Shape
<1> QED
  BY <1>1, <1>6, <1>7, <1>8, <1>9, <1>10, <1>11, <1>12 DEF Consistent, after, rest, done

-------------------------------------------------------------------------------
(* The steps.                                                                 *)

ErrorRecord == [code : {"E3017", "E3018", "source"}, at : Nat]

\* A call may be made when the frames all wait for one,
Ready ==
  /\ world \in Worlds /\ root \in Nat /\ errors \in Seq(ErrorRecord)
  /\ Consistent(modules, stack, finished, errors)
  /\ \A k \in DOMAIN stack : Waiting(modules, stack, k)

\* and a file is loaded by a path that comes from the entry
\* or from an import of the innermost module.
Callable(path) ==
  /\ Ready
  /\ path \in Path
  /\ stack = <<>> \/ path \in Targets(modules[stack[Len(stack)].module].path)

\* The file system stays what it is, so the candidates of an import do,
LEMMA SameCandidates ==
  ASSUME world' = world, NEW CONSTANT d, NEW CONSTANT n
  PROVE  Candidates(d, n)' = Candidates(d, n)
BY DEF Candidates, cn_import_resolution_try_root, cn_path_build_import_path_from_root,
       project_root, vendor_root

\* and the file it resolves to,
LEMMA SameResolution ==
  ASSUME world' = world, NEW CONSTANT d, NEW CONSTANT n
  PROVE  cn_path_resolve_import(d, n)' = cn_path_resolve_import(d, n)
BY SameCandidates DEF cn_path_resolve_import, Exists, fs

\* and the files a file imports;
LEMMA SameTargets ==
  ASSUME world' = world, NEW CONSTANT p
  PROVE  Targets(p)' = Targets(p)
BY SameResolution DEF Targets, fs

\* so consistency after a step can be told from the new project and the old world.
LEMMA SameWorld ==
  ASSUME world' = world, Consistent(modules', stack', finished', errors')
  PROVE  Consistent(modules, stack, finished, errors)'
<1>1. Chained(modules, stack)'
  BY SameTargets DEF Consistent, Chained
<1>2. FromFiles(modules)'
  BY DEF Consistent, FromFiles, fs
<1> QED
  BY <1>1, <1>2 DEF Consistent, Shape, Ordered, Settled, OneName

\* A call that returns leaves the invariant true.
LEMMA ReturnedStep ==
  ASSUME NEW S, NEW ms, NEW r \in Nat,
         world \in Worlds, world' = world, root \in Nat, errors' \in Seq(ErrorRecord),
         Returned(S, ms, r),
         Consistent(ms, S, finished', errors'),
         \A k \in DOMAIN S : Waiting(ms, S, k),
         errors' = <<>> => Settled(ms, finished', Len(finished'), r)
  PROVE  IInv'
<1>1. CASE S = <<>>
  <2>1. modules' = ms /\ stack' = <<>> /\ root' = r /\ pc' = "loaded"
    BY <1>1 DEF Returned
  <2>2. Consistent(modules, stack, finished, errors)'
    BY <1>1, <2>1, SameWorld
  <2> QED
    BY <2>1, <2>2 DEF IInv, ErrorRecord
<1>2. CASE S # <<>>
  <2>1. /\ modules' = [ms EXCEPT ![S[Len(S)].module].imports[S[Len(S)].next] = r]
        /\ stack' = [S EXCEPT ![Len(S)].next = @ + 1]
        /\ pc' = "loading" /\ root' = root
    BY <1>2 DEF Returned
  <2>2. /\ Consistent(modules', stack', finished', errors')
        /\ stack' # <<>>
        /\ \A k \in DOMAIN stack' : k < Len(stack') => Waiting(modules', stack', k)
    BY <1>2, <2>1, ReturnKeeps
  <2>3. Consistent(modules, stack, finished, errors)'
    BY <2>2, SameWorld
  <2> QED
    BY <2>1, <2>2, <2>3 DEF IInv, ErrorRecord, Waiting
<1> QED
  BY <1>1, <1>2

\* An error is added to the bag.
LEMMA Reported ==
  ASSUME errors \in Seq(ErrorRecord), NEW code \in {"E3017", "E3018", "source"},
         NEW i \in Nat
  PROVE  Report(code, i) \in Seq(ErrorRecord) /\ Report(code, i) # <<>>
<1> DEFINE e == [code |-> code, at |-> i]
<1>1. e \in ErrorRecord
  BY DEF ErrorRecord
<1>2. Report(code, i) = Append(errors, e)
  BY DEF Report
<1> HIDE DEF e
<1>3. /\ Append(errors, e) \in Seq(ErrorRecord)
      /\ Len(Append(errors, e)) = Len(errors) + 1
      /\ Len(errors) \in Nat
  BY <1>1, Grown
<1> QED
  BY <1>2, <1>3

\* The importer that a report names, and the slot of a module to come.
LEMMA ImporterIsANumber ==
  ASSUME Ready
  PROVE  Importer \in Nat /\ New \in Nat /\ New = Len(modules) + 1
<1>1. stack \in Seq(Frame) /\ modules \in Seq(Module)
  BY DEF Callable, Ready, Consistent, Shape
<1>2. New \in Nat /\ New = Len(modules) + 1
  BY <1>1 DEF New
<1>3. CASE stack = <<>>
  BY <1>2, <1>3 DEF Importer, NULL
<1>4. CASE stack # <<>>
  <2>1. stack[Len(stack)] \in Frame
    BY <1>1, <1>4
  <2>2. stack[Len(stack)].module \in Nat
    BY <2>1 DEF Frame
  <2> QED
    BY <1>2, <1>4, <2>2 DEF Importer
<1> QED
  BY <1>3, <1>4

\* A canonical name is a sequence of strings.
LEMMA NameTyped ==
  ASSUME NEW path \in Path, world \in Worlds
  PROVE  cn_project_module_name_from_path(path) \in Seq(Names)
<1>1. world.entry \in Path
  BY WorldsAssumption
<1>2. path.dir \in Seq(Names) /\ path.base \in Seq(Names)
  BY DEF Path
<1>3. project_root \in Seq(Names)
  BY <1>1 DEF Path, project_root
<1>4. vendor_root \in Seq(Names)
  <2>1. "vendor" \in Names
    BY NamesAssumption
  <2> QED
    BY <1>3, <2>1, Grown DEF vendor_root
<1>5. ASSUME NEW d \in Seq(Names), cn_path_relative_to_root(d, path)
      PROVE  cn_path_module_name_from_relative(d, path) \in Seq(Names)
  <2>1. SubSeq(path.dir, Len(d) + 1, Len(path.dir)) \in Seq(Names)
    BY <1>2
  <2> QED
    BY <1>2, <2>1 DEF cn_path_module_name_from_relative
<1> QED
  BY <1>2, <1>3, <1>4, <1>5 DEF cn_project_module_name_from_path

\* What cn_module_create makes of a file, with its flags set later in the call.
ModuleOf(path, count, p, l) ==
  [name |-> cn_project_module_name_from_path(path), path |-> path, builtin |-> FALSE,
   parsed |-> p, imports |-> [k \in 1..count |-> NULL], loading |-> l]

IsModuleOf(x, path, count, l) ==
  /\ x \in Module /\ x.path = path
  /\ x.name = cn_project_module_name_from_path(path)
  /\ x.builtin = FALSE /\ x.loading = l
  /\ Len(x.imports) = count /\ (count = 0 => x.imports = <<>>)

\* It is a module of that name and path with room for its imports.
LEMMA Created ==
  ASSUME NEW path \in Path, world \in Worlds, NEW count \in Nat,
         NEW p \in BOOLEAN, NEW l \in BOOLEAN
  PROVE  IsModuleOf(ModuleOf(path, count, p, l), path, count, l)
<1> DEFINE slots == [k \in 1..count |-> NULL]
           nm == cn_project_module_name_from_path(path)
           y == [name |-> nm, path |-> path, builtin |-> FALSE, parsed |-> p,
                 imports |-> slots, loading |-> l]
<1>1. slots \in Seq(Nat) /\ Len(slots) = count /\ (count = 0 => slots = <<>>)
  BY DEF NULL
<1>2. nm \in Seq(Names)
  BY NameTyped
<1>3. ModuleOf(path, count, p, l) = y
  BY DEF ModuleOf
<1>4. slots \in Seq(Nat)
  BY <1>1
<1> HIDE DEF slots, nm
<1>5. /\ y \in Module /\ y.path = path /\ y.name = nm /\ y.builtin = FALSE
      /\ y.loading = l /\ y.imports = slots
  BY <1>2, <1>4, Zenon DEF Module
<1> HIDE DEF y
<1> QED
  BY <1>1, <1>3, <1>5 DEF nm, IsModuleOf

\* A module that is already in the project is handed to the importer.
LEMMA LoadExistingStep ==
  ASSUME NEW path, Callable(path), NEW i \in DOMAIN modules, world' = world,
         LoadExisting(i)
  PROVE  IInv'
<1>1. errors \in Seq(ErrorRecord) /\ Consistent(modules, stack, finished, errors)
  BY DEF Callable, Ready
<1>2. errors' \in Seq(ErrorRecord) /\ (errors' = <<>> => errors = <<>> /\ ~modules[i].loading)
  <2>1. CASE modules[i].loading
    <3>1. errors' = Report("E3018", Importer)
      BY <2>1 DEF LoadExisting
    <3> QED
      BY <1>1, <3>1, ImporterIsANumber, Reported DEF Callable
  <2>2. CASE ~modules[i].loading
    BY <1>1, <2>2 DEF LoadExisting
  <2> QED
    BY <2>1, <2>2
<1>3. finished' = finished /\ Returned(stack, modules, i)
  BY DEF LoadExisting
<1>4. Consistent(modules, stack, finished', errors')
  BY <1>1, <1>2, <1>3, BagWeakens
<1>5. ASSUME errors' = <<>> PROVE Settled(modules, finished', Len(finished'), i)
  <2>1. modules[i].builtin \/ \E k \in DOMAIN finished : finished[k] = i
    BY <1>1, <1>2, <1>5 DEF Consistent, Shape
  <2>2. DOMAIN finished = 1..Len(finished)
    BY <1>1 DEF Consistent, Shape
  <2> QED
    BY <1>3, <2>1, <2>2 DEF Settled
<1>6. i \in Nat
  BY <1>1, ModuleFields DEF Consistent, Shape
<1> QED
  BY <1>2, <1>3, <1>4, <1>5, <1>6, ReturnedStep DEF Callable, Ready

\* A call that fails with an error gives its importer no module.
LEMMA NoModuleStep ==
  ASSUME Ready, NEW i \in Nat, NEW code \in {"E3017", "E3018", "source"},
         world' = world, errors' = Report(code, i),
         Returned(stack, modules, NULL), finished' = finished
  PROVE  IInv'
<1>1. errors' \in Seq(ErrorRecord) /\ errors' # <<>>
  BY Reported DEF Callable, Ready
<1>2. Consistent(modules, stack, finished', errors')
  BY <1>1, BagWeakens DEF Callable, Ready
<1>3. NULL \in Nat
  BY DEF NULL
<1> QED
  BY <1>1, <1>2, <1>3, ReturnedStep DEF Callable, Ready

\* A file whose path and name are new makes a fresh module.
LEMMA NewIsFresh ==
  ASSUME NEW path, Callable(path), NEW count \in Nat, NEW p \in BOOLEAN, NEW l \in BOOLEAN,
         cn_project_find_module_by_path(path) = {},
         cn_project_find_module_by_name(cn_project_module_name_from_path(path)) = {},
         count = 0 \/ (path \in DOMAIN fs /\ count = Len(fs[path].imports))
  PROVE  LET x == ModuleOf(path, count, p, l)
         IN  Fresh(modules, x) /\ x.path = path /\ x.builtin = FALSE /\ x.loading = l
<1> DEFINE x == ModuleOf(path, count, p, l)
<1>1. /\ x \in Module /\ x.path = path
      /\ x.name = cn_project_module_name_from_path(path)
      /\ x.builtin = FALSE /\ x.loading = l
      /\ Len(x.imports) = count /\ (count = 0 => x.imports = <<>>)
  <2>1. path \in Path
    BY DEF Callable, Ready
  <2>2. world \in Worlds
    BY DEF Callable, Ready
  <2>3. IsModuleOf(x, path, count, l)
    BY <2>1, <2>2, Created, Zenon
  <2> HIDE DEF x
  <2> QED
    BY <2>3 DEF IsModuleOf
<1> HIDE DEF x
<1>2. \A i \in DOMAIN modules : x.name # modules[i].name /\ x.path # modules[i].path
  BY <1>1 DEF cn_project_find_module_by_path, cn_project_find_module_by_name
<1>3. x.imports = <<>> \/ (x.path \in DOMAIN fs /\ Len(x.imports) = Len(fs[x.path].imports))
  BY <1>1
<1>4. Fresh(modules, x)
  BY <1>1, <1>2, <1>3 DEF Fresh
<1> QED
  BY <1>1, <1>4 DEF x

\* A file that cannot be read becomes a finished module without imports.
LEMMA LoadUnreadableStep ==
  ASSUME NEW path, Callable(path), world' = world,
         cn_project_find_module_by_path(path) = {},
         cn_project_find_module_by_name(cn_project_module_name_from_path(path)) = {},
         LoadUnreadable(path)
  PROVE  IInv'
<1> DEFINE x == ModuleOf(path, 0, FALSE, FALSE)
           more == Append(modules, x)
<1>1. [cn_module_create(path, 0) EXCEPT !.loading = FALSE] = x
  <2>1. ASSUME NEW z, z = [cn_module_create(path, 0) EXCEPT !.loading = FALSE] PROVE z = x
    BY <2>1 DEF cn_module_create, ModuleOf
  <2> QED
    BY <2>1
<1>2. Fresh(modules, x) /\ x.loading = FALSE
  BY NewIsFresh
<1> HIDE DEF x
<1>3. /\ errors' = Report("E3017", Importer)
      /\ Returned(stack, more, New)
      /\ finished' = Append(finished, New)
  BY <1>1 DEF LoadUnreadable
<1>4. New = Len(modules) + 1 /\ New \in Nat /\ Importer \in Nat
  BY ImporterIsANumber DEF Callable
<1>5. errors' \in Seq(ErrorRecord) /\ errors' # <<>>
  BY <1>3, <1>4, Reported DEF Callable, Ready
<1>6. Consistent(more, stack, finished', errors')
  BY <1>2, <1>3, <1>4, <1>5, UnreadableKeeps DEF Callable, Ready
<1>7. \A k \in DOMAIN stack : Waiting(more, stack, k)
  BY <1>2, FreshKeeps DEF Callable, Ready
<1> HIDE DEF more
<1> QED
  BY <1>3, <1>4, <1>5, <1>6, <1>7, ReturnedStep DEF Callable, Ready

\* A file that can be read becomes a loading module on top of the stack.
LEMMA LoadSourceStep ==
  ASSUME NEW path, Callable(path), world' = world,
         cn_project_find_module_by_path(path) = {},
         cn_project_find_module_by_name(cn_project_module_name_from_path(path)) = {},
         path \in DOMAIN fs,
         LoadSource(path)
  PROVE  IInv'
<1> DEFINE file   == fs[path]
           lexed  == IF file.fault = "lex" THEN Report("source", New) ELSE errors
           parsed == ~cn_diag_has_error(lexed)
           after  == IF parsed /\ file.fault = "parse" THEN Report("source", New) ELSE lexed
           count  == IF parsed THEN Len(file.imports) ELSE 0
           x      == ModuleOf(path, count, parsed, TRUE)
           more   == Append(modules, x)
           frame  == [module |-> Len(modules) + 1, next |-> 1]
<1>1. New = Len(modules) + 1 /\ New \in Nat
  BY ImporterIsANumber DEF Callable
<1>2. Report("source", New) \in Seq(ErrorRecord) /\ Report("source", New) # <<>>
  BY <1>1, Reported DEF Callable, Ready
<1>3. errors' = after
  BY DEF LoadSource
<1>4. errors' \in Seq(ErrorRecord) /\ (errors' = <<>> => errors = <<>>)
  BY <1>2, <1>3 DEF Callable, Ready
<1>5. parsed \in BOOLEAN
  OBVIOUS
<1>6. count \in Nat /\ (count = 0 \/ count = Len(file.imports))
  <2>1. file.imports \in Seq(Seq(Names) \ {<<>>})
    BY WorldsAssumption DEF Callable, Ready, fs
  <2> QED
    BY <2>1
<1>7. [cn_module_create(path, count) EXCEPT !.parsed = parsed] = x
  <2> HIDE DEF count, parsed
  <2>1. ASSUME NEW z, z = [cn_module_create(path, count) EXCEPT !.parsed = parsed] PROVE z = x
    BY <1>5, <2>1 DEF cn_module_create, ModuleOf
  <2> QED
    BY <2>1
<1>8. /\ modules' = more
      /\ stack' = Append(stack, frame)
      /\ pc' = "loading" /\ root' = root /\ finished' = finished
  BY <1>1, <1>7 DEF LoadSource
<1>9. Fresh(modules, x) /\ x.path = path /\ x.builtin = FALSE /\ x.loading = TRUE
  <2> HIDE DEF count, parsed
  <2> QED
    BY <1>5, <1>6, NewIsFresh
<1> HIDE DEF x
<1>10. Consistent(more, Append(stack, frame), finished, errors')
  BY <1>4, <1>9, SourceKeeps DEF Callable, Ready
<1>11. Consistent(modules, stack, finished, errors)'
  BY <1>8, <1>10, SameWorld
<1>12. \A k \in DOMAIN stack : Waiting(more, stack, k)
  BY <1>9, FreshKeeps DEF Callable, Ready
<1> HIDE DEF more, frame
<1>13. /\ stack' # <<>>
       /\ \A k \in DOMAIN stack' : k < Len(stack') => k \in DOMAIN stack /\ stack'[k] = stack[k]
  <2>1. stack \in Seq(Frame)
    BY DEF Callable, Ready, Consistent, Shape
  <2> QED
    BY <1>8, <2>1
<1>14. \A k \in DOMAIN stack' : k < Len(stack') => Waiting(modules', stack', k)
  BY <1>8, <1>12, <1>13 DEF Waiting
<1> QED
  BY <1>4, <1>8, <1>11, <1>13, <1>14 DEF IInv, ErrorRecord, Waiting, Callable, Ready

\* So every call of cn_project_load_module keeps the invariant.
LEMMA LoadModuleStep ==
  ASSUME NEW path, Callable(path), world' = world, cn_project_load_module(path)
  PROVE  IInv'
<1> DEFINE name == cn_project_module_name_from_path(path)
<1>1. ASSUME NEW i \in cn_project_find_module_by_path(path), LoadExisting(i)
      PROVE  IInv'
  BY <1>1, LoadExistingStep DEF cn_project_find_module_by_path
<1>2. ASSUME LoadConflict(path) PROVE IInv'
  BY <1>2, NoModuleStep, ImporterIsANumber DEF LoadConflict, Callable
<1>3. ASSUME cn_project_find_module_by_path(path) = {},
             cn_project_find_module_by_name(name) = {},
             LoadUnreadable(path)
      PROVE  IInv'
  BY <1>3, LoadUnreadableStep
<1>4. ASSUME cn_project_find_module_by_path(path) = {},
             cn_project_find_module_by_name(name) = {},
             ~Unreadable(path), LoadSource(path)
      PROVE  IInv'
  BY <1>4, LoadSourceStep DEF Unreadable, Exists
<1> QED
  BY <1>1, <1>2, <1>3, <1>4 DEF cn_project_load_module

\* A built-in module is handed to the importer, and made on its first import.
LEMMA BuiltinRecord ==
  ASSUME NEW name \in Builtins
  PROVE  LET x == cn_builtin_module_create(name)
         IN  Fresh(modules, x) /\ x.builtin = TRUE /\ x.loading = FALSE
<1> DEFINE pth == BuiltinPath(name)
           none == <<>>
           x == [name |-> name, path |-> pth, builtin |-> TRUE, parsed |-> TRUE,
                 imports |-> none, loading |-> FALSE]
<1>1. name \in Seq(Names)
  BY BuiltinsAssumption
<1>2. pth \in Path
  <2>1. <<"<stdlib>">> \in Seq(Names)
    BY NamesAssumption
  <2> QED
    BY <1>1, <2>1 DEF BuiltinPath, Path
<1>3. none \in Seq(Nat)
  OBVIOUS
<1>4. cn_builtin_module_create(name) = x
  BY DEF cn_builtin_module_create
<1> HIDE DEF pth, none
<1>5. x \in Module /\ x.builtin = TRUE /\ x.loading = FALSE
  BY <1>1, <1>2, <1>3, Zenon DEF Module
<1> HIDE DEF x
<1> QED
  BY <1>4, <1>5 DEF Fresh

\* Importing a built-in module keeps the invariant.
LEMMA BuiltinStep ==
  ASSUME Ready, NEW name \in Builtins, world' = world, cn_project_load_builtin_module(name)
  PROVE  IInv'
<1>1. errors' = errors /\ finished' = finished
  BY DEF cn_project_load_builtin_module
<1>2. ASSUME NEW i \in DOMAIN modules, modules[i].builtin, Returned(stack, modules, i)
      PROVE  IInv'
  <2>1. i \in Nat
    BY ModuleFields DEF Ready, Consistent, Shape
  <2>2. Settled(modules, finished', Len(finished'), i)
    BY <1>2 DEF Settled
  <2> QED
    BY <1>1, <1>2, <2>1, <2>2, ReturnedStep DEF Ready
<1>3. ASSUME Returned(stack, Append(modules, cn_builtin_module_create(name)), New)
      PROVE  IInv'
  <2> DEFINE x == cn_builtin_module_create(name)
             more == Append(modules, x)
  <2>1. Fresh(modules, x) /\ x.builtin = TRUE /\ x.loading = FALSE
    BY BuiltinRecord
  <2>2. New = Len(modules) + 1 /\ New \in Nat
    BY ImporterIsANumber
  <2> HIDE DEF x
  <2>3. Consistent(more, stack, finished, errors)
    BY <2>1, BuiltinKeeps DEF Ready
  <2>4. \A k \in DOMAIN stack : Waiting(more, stack, k)
    BY <2>1, FreshKeeps DEF Ready
  <2>5. Settled(more, finished, Len(finished), New)
    <3>1. modules \in Seq(Module) /\ x \in Module
      BY <2>1 DEF Ready, Consistent, Shape, Fresh
    <3>2. New \in DOMAIN more /\ more[New] = x
      BY <2>2, <3>1, Grown
    <3> QED
      BY <2>1, <3>2 DEF Settled
  <2>6. Returned(stack, more, New)
    BY <1>3 DEF x
  <2> HIDE DEF more
  <2> QED
    BY <1>1, <2>2, <2>3, <2>4, <2>5, <2>6, ReturnedStep DEF Ready
<1> QED
  BY <1>2, <1>3 DEF cn_project_load_builtin_module, cn_project_find_module_by_name

\* The first step of a command keeps the invariant.
LEMMA ProjectLoadStep ==
  ASSUME IInv, cn_project_load
  PROVE  IInv'
<1>1. stack = <<>> /\ world' = world
  BY DEF IInv, cn_project_load
<1>2. Ready
  BY <1>1 DEF IInv, Ready, ErrorRecord
<1>3. world.entry \in Path
  BY WorldsAssumption DEF IInv
<1>4. Callable(world.entry)
  BY <1>1, <1>2, <1>3 DEF Callable
<1>5. CASE cn_project_load_module(world.entry)
  BY <1>1, <1>4, <1>5, LoadModuleStep
<1>6. CASE errors' = Report("E3017", NULL) /\ Returned(<<>>, modules, NULL) /\ finished' = finished
  BY <1>1, <1>2, <1>6, NoModuleStep DEF NULL
<1> QED
  BY <1>5, <1>6 DEF cn_project_load

\* The import that the innermost module waits for is one of its file.
LEMMA ImportOfFile ==
  ASSUME IInv, pc = "loading",
         Innermost.next <= Len(modules[Innermost.module].imports)
  PROVE  LET m == modules[Innermost.module]
         IN  /\ Ready
             /\ m.path \in DOMAIN fs
             /\ Innermost.next \in DOMAIN fs[m.path].imports
             /\ Innermost.module \in Nat
<1> DEFINE L == Len(stack)
           f == stack[L]
           m == modules[f.module]
<1>1. /\ stack \in Seq(Frame) /\ stack # <<>> /\ modules \in Seq(Module)
      /\ pc = "loading" /\ world \in Worlds
  BY DEF IInv, Consistent, Shape
<1>2. L \in DOMAIN stack /\ f \in Frame
  BY <1>1
<1>3. f.module \in DOMAIN modules /\ m.loading /\ f.next \in Nat \ {0} /\ f.module \in Nat
  BY <1>2 DEF IInv, Consistent, Shape, Frame
<1>4. ~m.builtin /\ m.imports \in Seq(Nat)
  BY <1>1, <1>3, ModuleFields DEF IInv, Consistent, Shape
<1>5. f.next <= Len(m.imports)
  BY DEF Innermost
<1>6. m.imports # <<>>
  BY <1>3, <1>4, <1>5
<1>7. m.path \in DOMAIN fs /\ Len(m.imports) = Len(fs[m.path].imports)
  BY <1>3, <1>4, <1>6 DEF IInv, Consistent, FromFiles
<1>8. fs[m.path].imports \in Seq(Seq(Names) \ {<<>>})
  BY <1>1, <1>7, WorldsAssumption DEF fs
<1>9. f.next \in DOMAIN fs[m.path].imports
  BY <1>3, <1>5, <1>7, <1>8
<1>10. \A k \in DOMAIN stack : Waiting(modules, stack, k)
  <2> SUFFICES ASSUME NEW k \in DOMAIN stack PROVE Waiting(modules, stack, k)
    OBVIOUS
  <2>1. CASE k = L
    BY <1>5, <2>1 DEF Waiting
  <2>2. CASE k < L
    BY <2>2 DEF IInv
  <2> QED
    BY <1>1, <2>1, <2>2
<1> QED
  BY <1>3, <1>7, <1>9, <1>10 DEF Innermost, Ready, IInv, ErrorRecord

\* Handling one import keeps the invariant.
LEMMA LoadImportStep ==
  ASSUME IInv, LoadImport
  PROVE  IInv'
<1> DEFINE m == modules[Innermost.module]
           name == fs[m.path].imports[Innermost.next]
<1>1. /\ Ready /\ m.path \in DOMAIN fs /\ Innermost.next \in DOMAIN fs[m.path].imports
      /\ Innermost.module \in Nat /\ world' = world
  BY ImportOfFile DEF LoadImport
<1>2. CASE name \in Builtins /\ cn_project_load_builtin_module(name)
  BY <1>1, <1>2, BuiltinStep
<1>3. CASE /\ errors' = Report("E3017", Innermost.module)
           /\ Returned(stack, modules, NULL) /\ finished' = finished
  BY <1>1, <1>3, NoModuleStep
<1>4. ASSUME name \notin Builtins,
             NEW path \in cn_path_resolve_import(m.path.dir, name),
             cn_project_load_module(path)
      PROVE  IInv'
  <2>1. path \in Targets(m.path)
    BY <1>1, <1>4 DEF Targets
  <2>2. path \in DOMAIN fs
    BY DEF cn_path_resolve_import, Exists
  <2>3. path \in Path
    BY <1>1, <2>2, WorldsAssumption DEF Ready, fs
  <2>4. Callable(path)
    BY <1>1, <2>1, <2>3 DEF Callable, Innermost
  <2> QED
    BY <1>1, <1>4, <2>4, LoadModuleStep
<1> QED
  BY <1>2, <1>3, <1>4 DEF LoadImport

\* The end of a module's imports keeps the invariant.
LEMMA FinishModuleStep ==
  ASSUME IInv, FinishModule
  PROVE  IInv'
<1> DEFINE m     == stack[Len(stack)].module
           after == [modules EXCEPT ![m].loading = FALSE]
           rest  == SubSeq(stack, 1, Len(stack) - 1)
<1>1. /\ Consistent(modules, stack, finished, errors) /\ stack # <<>>
      /\ stack[Len(stack)].next > Len(modules[m].imports)
  BY DEF IInv, FinishModule, Innermost
<1>2. /\ Consistent(after, rest, Append(finished, m), errors)
      /\ m \in Nat
      /\ errors = <<>> => Settled(after, Append(finished, m), Len(finished) + 1, m)
      /\ \A k \in DOMAIN stack :
           k < Len(stack) /\ Waiting(modules, stack, k) => Waiting(after, rest, k)
  BY <1>1, FinishKeeps
<1>3. /\ Returned(rest, after, m) /\ finished' = Append(finished, m)
      /\ errors' = errors /\ world' = world
  BY DEF FinishModule, Innermost
<1>4. /\ stack \in Seq(Frame) /\ finished \in Seq(Nat \ {0})
      /\ stack[Len(stack)] \in Frame
  BY <1>1 DEF Consistent, Shape
<1>5. m \in Nat \ {0}
  BY <1>4 DEF Frame
<1> HIDE DEF m
<1>6. Len(finished') = Len(finished) + 1
  BY <1>3, <1>4, <1>5
<1>7. \A k \in DOMAIN rest : k \in DOMAIN stack /\ k < Len(stack)
  BY <1>1, <1>4
<1> HIDE DEF rest, after
<1>8. \A k \in DOMAIN rest : Waiting(after, rest, k)
  BY <1>2, <1>7 DEF IInv
<1>9. errors' \in Seq(ErrorRecord) /\ world \in Worlds /\ root \in Nat
  BY <1>3 DEF IInv, ErrorRecord
<1> QED
  BY <1>2, <1>3, <1>6, <1>8, <1>9, ReturnedStep

-------------------------------------------------------------------------------
(* The theorems.                                                              *)

\* The invariant holds in every state of every command, in every file system.
THEOREM Invariance == Spec => []IInv
<1>1. Init => IInv
  BY DEF Init, IInv, NULL, Consistent, Shape, Ordered, FromFiles, OneName, Chained
<1>2. IInv /\ [Next]_vars => IInv'
  <2> SUFFICES ASSUME IInv, [Next]_vars PROVE IInv'
    OBVIOUS
  <2>1. CASE cn_project_load
    BY <2>1, ProjectLoadStep
  <2>2. CASE LoadImport
    BY <2>2, LoadImportStep
  <2>3. CASE FinishModule
    BY <2>3, FinishModuleStep
  <2>4. CASE UNCHANGED vars
    <3>1. /\ world' = world /\ modules' = modules /\ stack' = stack /\ root' = root
          /\ errors' = errors /\ pc' = pc /\ finished' = finished
      BY <2>4 DEF vars
    <3>2. Consistent(modules, stack, finished, errors)'
      BY <3>1, SameWorld DEF IInv
    <3> QED
      BY <3>1, <3>2 DEF IInv, Waiting
  <2> QED
    BY <2>1, <2>2, <2>3, <2>4 DEF Next
<1> QED
  BY <1>1, <1>2, PTL DEF Spec

\* Type correctness of the project that cn_project_load_module builds.
THEOREM TypeCorrect == Spec => []TypeOK
<1>1. IInv => TypeOK
  BY DEF IInv, TypeOK, Consistent, Shape
<1> QED
  BY <1>1, Invariance, PTL

\* module->loading marks exactly the chain of imports that leads from the entry
\* to the file being read: E3018 is reported for cycles of imports only.
THEOREM LoadingIsTheChain == Spec => []LoadingIsTheImportChain
<1>1. IInv => LoadingIsTheImportChain
  <2> SUFFICES ASSUME IInv PROVE LoadingIsTheImportChain
    OBVIOUS
  <2>1. Shape(modules, stack, finished) /\ Chained(modules, stack)
    BY DEF IInv, Consistent
  <2>2. {i \in DOMAIN modules : modules[i].loading} = {stack[k].module : k \in DOMAIN stack}
    <3>1. ASSUME NEW i \in DOMAIN modules, modules[i].loading
          PROVE  \E k \in DOMAIN stack : stack[k].module = i
      BY <2>1, <3>1 DEF Shape
    <3>2. ASSUME NEW k \in DOMAIN stack
          PROVE  stack[k].module \in DOMAIN modules /\ modules[stack[k].module].loading
      BY <2>1 DEF Shape
    <3> QED
      BY <3>1, <3>2
  <2>3. \A j, k \in DOMAIN stack : stack[j].module = stack[k].module => j = k
    BY <2>1 DEF Shape
  <2>4. \A k \in 2..Len(stack) : k \in DOMAIN stack /\ k > 1
    BY <2>1 DEF Shape
  <2>5. \A k \in 2..Len(stack) :
          modules[stack[k].module].path \in Targets(modules[stack[k - 1].module].path)
    BY <2>1, <2>4 DEF Chained
  <2> QED
    BY <2>2, <2>3, <2>5 DEF LoadingIsTheImportChain
<1> QED
  BY <1>1, Invariance, PTL

\* However imports resolve, no file is loaded twice and no two files of a
\* project have one canonical name.
THEOREM FilesOneName == Spec => []FilesHaveOneName
<1>1. IInv => FilesHaveOneName
  BY DEF IInv, Consistent, OneName, FilesHaveOneName
<1> QED
  BY <1>1, Invariance, PTL

\* Unless cn_project_load_module has reported something, a file ends loading
\* after the files it imports: what it accepts has no cycle of imports.
THEOREM NoCycleAccepted == Spec => []ImportsFinishFirst
<1>1. IInv => ImportsFinishFirst
  BY DEF IInv, Consistent, Ordered, Settled, ImportsFinishFirst
<1> QED
  BY <1>1, Invariance, PTL

-------------------------------------------------------------------------------
(* The verdict: what the files call for, without loading them.               *)

\* An import resolves to one file, which exists and has an extension.
LEMMA OneResolution ==
  ASSUME NEW d, NEW n
  PROVE  /\ \A p \in cn_path_resolve_import(d, n) : p \in DOMAIN fs /\ p.ext # ""
         /\ \A p, q \in cn_path_resolve_import(d, n) : p = q
<1> DEFINE X == {cn_path_build_import_path_from_root(r, n, e) :
                   r \in {project_root, vendor_root, d}, e \in {"cneg", "cn"}}
           tried == Candidates(d, n)
<1>1. ASSUME NEW r \in {project_root, vendor_root, d}
      PROVE  cn_import_resolution_try_root(r, n) \in Seq(X)
  <2> DEFINE a == cn_path_build_import_path_from_root(r, n, "cneg")
             b == cn_path_build_import_path_from_root(r, n, "cn")
  <2>1. a \in X /\ b \in X
    OBVIOUS
  <2>2. cn_import_resolution_try_root(r, n) = <<a, b>>
    BY DEF cn_import_resolution_try_root
  <2> HIDE DEF X, a, b
  <2> QED
    BY <2>1, <2>2
<1>2. tried \in Seq(X)
  <2> HIDE DEF X
  <2> QED
    BY <1>1 DEF Candidates
<1>3. \A p \in X : p.ext # ""
  <2>1. \A r, e : cn_path_build_import_path_from_root(r, n, e).ext = e
    BY DEF cn_path_build_import_path_from_root
  <2>2. ASSUME NEW p \in X PROVE p.ext # ""
    <3>1. PICK r \in {project_root, vendor_root, d}, e \in {"cneg", "cn"} :
            p = cn_path_build_import_path_from_root(r, n, e)
      OBVIOUS
    <3> HIDE DEF X
    <3>2. p.ext = e
      BY <2>1, <3>1, Zenon
    <3>3. "cneg" # "" /\ "cn" # ""
      OBVIOUS
    <3> QED
      BY <3>2, <3>3
  <2> HIDE DEF X
  <2> QED
    BY <2>2
<1> HIDE DEF X
<1>4. \A k \in DOMAIN tried : tried[k] \in X /\ k \in Nat \ {0}
  BY <1>2
<1> HIDE DEF tried
<1> DEFINE first == {k \in DOMAIN tried :
                       Exists(tried[k]) /\ \A j \in 1..k - 1 : ~Exists(tried[j])}
<1>5. cn_path_resolve_import(d, n) = {tried[k] : k \in first}
  BY DEF cn_path_resolve_import, tried
<1>6. \A k \in first : tried[k] \in DOMAIN fs /\ tried[k].ext # ""
  BY <1>3, <1>4 DEF Exists
<1>7. ASSUME NEW j \in first, NEW k \in first PROVE j = k
  <2>1. ~(j < k)
    BY <1>4
  <2>2. ~(k < j)
    BY <1>4
  <2> QED
    BY <1>4, <2>1, <2>2
<1> HIDE DEF first
<1> QED
  BY <1>5, <1>6, <1>7

\* The entry is needed, and so is what a needed file imports.
LEMMA NeededIsClosed ==
  /\ Exists(world.entry) => world.entry \in Needed
  /\ \A p \in Needed : p \in DOMAIN fs /\ Targets(p) \subseteq Needed
<1>1. Exists(world.entry) => world.entry \in Needed
  BY DEF Exists, Needed
<1>2. ASSUME NEW p \in Needed, NEW q \in Targets(p) PROVE q \in Needed
  <2>1. q \in DOMAIN fs
    <3>1. PICK k \in DOMAIN fs[p].imports :
            q \in cn_path_resolve_import(p.dir, fs[p].imports[k])
      BY DEF Targets
    <3> QED
      BY <3>1, OneResolution
  <2>2. ASSUME NEW S \in SUBSET DOMAIN fs, world.entry \in S,
               \A x \in S : Targets(x) \subseteq S
        PROVE  q \in S
    <3>1. p \in S
      BY <2>2 DEF Needed
    <3> QED
      BY <2>2, <3>1
  <2> QED
    BY <2>1, <2>2 DEF Needed
<1> QED
  BY <1>1, <1>2 DEF Needed

\* So is what a file that is wanted imports.
LEMMA WantedIsClosed ==
  /\ Wanted(world.entry)
  /\ \A p : Wanted(p) => \A q \in Targets(p) : Wanted(q)
BY NeededIsClosed DEF Wanted

\* None of this changes with the project: not the names,
LEMMA SameNames ==
  ASSUME world' = world, NEW CONSTANT p
  PROVE  cn_project_module_name_from_path(p)' = cn_project_module_name_from_path(p)
BY DEF cn_project_module_name_from_path, cn_path_relative_to_root,
       cn_path_module_name_from_relative, project_root, vendor_root

\* nor what is needed,
LEMMA SameNeeded ==
  ASSUME world' = world
  PROVE  Needed' = Needed
BY SameTargets DEF Needed, fs

\* nor what a reader of the files would say of them,
LEMMA SameSound ==
  ASSUME world' = world
  PROVE  Sound' = Sound /\ NoFileShadows' = NoFileShadows
<1>1. fs' = fs
  BY DEF fs
<1>2. HasCycle(Needed)' = HasCycle(Needed)
  BY SameTargets, SameNeeded DEF HasCycle
<1>3. \A p : Resolves(p)' = Resolves(p)
  BY <1>1, SameResolution DEF Resolves
<1> QED
  BY <1>1, <1>2, <1>3, SameNames, SameNeeded DEF Sound, NoFileShadows, Exists

\* so what is right after a step can be told from the new project and the old world.
LEMMA SameRight ==
  ASSUME world' = world, Right(modules', stack', errors')
  PROVE  Right(modules, stack, errors)'
<1>1. fs' = fs
  BY DEF fs
<1>2. ASSUME NEW CONSTANT m, Described(m) PROVE Described(m)'
  BY <1>1, <1>2, SameNames, SameNeeded DEF Described, Wanted, Exists
<1>3. ASSUME NEW CONSTANT m, Clean(m) PROVE Clean(m)'
  BY <1>1, <1>3 DEF Clean
<1>4. ASSUME NEW CONSTANT i, NEW CONSTANT j, NEW CONSTANT r, Fits(modules', i, j, r)
      PROVE  Fits(modules, i, j, r)'
  BY <1>1, <1>4, SameResolution DEF Fits
<1> QED
  BY <1>2, <1>3, <1>4 DEF Right, Bound, Expected

-------------------------------------------------------------------------------
(* What a call does to a project that is right so far.                        *)

\* Handing the innermost frame what it waits for, or nothing.
LEMMA ReturnRight ==
  ASSUME NEW ms, NEW S, NEW fin, NEW bag, NEW r \in Nat,
         S # <<>>,
         Consistent(ms, S, fin, bag),
         Right(ms, S, bag),
         \A k \in DOMAIN S : Waiting(ms, S, k),
         r # NULL => Fits(ms, S[Len(S)].module, S[Len(S)].next, r)
  PROVE  LET top    == S[Len(S)]
             after  == [ms EXCEPT ![top.module].imports[top.next] = r]
             frames == [S EXCEPT ![Len(S)].next = @ + 1]
         IN  Right(after, frames, bag)
<1> DEFINE L == Len(S)
           m == S[L].module
           n == S[L].next
           after == [ms EXCEPT ![m].imports[n] = r]
           frames == [S EXCEPT ![L].next = @ + 1]
<1>1. /\ S \in Seq(Frame) /\ L \in DOMAIN S /\ L \in Nat \ {0}
      /\ m \in DOMAIN ms /\ n \in Nat \ {0}
      /\ ms \in Seq(Module)
      /\ \A k \in DOMAIN S : S[k].module \in DOMAIN ms
  <2>1. S \in Seq(Frame) /\ ms \in Seq(Module)
    BY DEF Consistent, Shape
  <2>2. L \in DOMAIN S /\ L \in Nat \ {0}
    BY <2>1
  <2>3. S[L] \in Frame
    BY <2>1, <2>2
  <2>4. \A k \in DOMAIN S : S[k].module \in DOMAIN ms
    BY DEF Consistent, Shape
  <2> QED
    BY <2>1, <2>2, <2>3, <2>4 DEF Frame
<1>2. n \in DOMAIN ms[m].imports /\ ms[m].imports \in Seq(Nat) /\ ~ms[m].builtin
  <2>1. ms[m].imports \in Seq(Nat)
    BY <1>1, ModuleFields
  <2>2. n <= Len(ms[m].imports)
    BY <1>1 DEF Waiting
  <2>3. ~ms[m].builtin
    BY <1>1 DEF Consistent, Shape
  <2> QED
    BY <1>1, <2>1, <2>2, <2>3
<1>3. Filled(ms, after, m, n, r) /\ \A i \in DOMAIN ms : after[i].parsed = ms[i].parsed
  <2>1. after = [ms EXCEPT ![m].imports[n] = r]
    OBVIOUS
  <2>2. ms \in Seq(Module) /\ m \in DOMAIN ms
    BY <1>1
  <2>3. n \in DOMAIN ms[m].imports
    BY <1>2
  <2> HIDE DEF m, n, after
  <2>4. Filled(ms, after, m, n, r)
    BY <2>1, <2>2, <2>3, FillSlot
  <2>5. \A i \in DOMAIN ms : ms[i] \in Module
    BY <2>2
  <2>6. \A i \in DOMAIN ms : after[i].parsed = ms[i].parsed
    BY <2>1, <2>2, <2>5 DEF Module
  <2> QED
    BY <2>4, <2>6
<1>4. /\ DOMAIN frames = DOMAIN S
      /\ \A k \in DOMAIN S : /\ frames[k].module = S[k].module
                             /\ k # L => frames[k].next = S[k].next
  <2>1. S[L] \in Frame
    BY <1>1
  <2> QED
    BY <1>1, <2>1 DEF Frame
<1> HIDE DEF after, frames
<1>5. /\ DOMAIN after = DOMAIN ms
      /\ \A i \in DOMAIN ms :
           /\ after[i].name = ms[i].name /\ after[i].path = ms[i].path
           /\ after[i].builtin = ms[i].builtin /\ after[i].parsed = ms[i].parsed
           /\ Len(after[i].imports) = Len(ms[i].imports)
           /\ i # m => after[i].imports = ms[i].imports
      /\ after[m].imports = [ms[m].imports EXCEPT ![n] = r]
  BY <1>3 DEF Filled
<1>6. \A i \in DOMAIN ms : \A j, x : Fits(ms, i, j, x) => Fits(after, i, j, x)
  BY <1>5 DEF Fits
<1>7. ASSUME NEW i \in DOMAIN after
      PROVE  Described(after[i]) /\ (bag = <<>> => Clean(after[i]))
  <2>1. Described(ms[i]) /\ (bag = <<>> => Clean(ms[i]))
    BY <1>5 DEF Right
  <2>2. ms[i].builtin => after[i].imports = ms[i].imports
    BY <1>2, <1>5
  <2> QED
    BY <1>5, <2>1, <2>2 DEF Described, Clean
<1>8. ASSUME NEW i \in DOMAIN after, NEW j \in DOMAIN after[i].imports,
             after[i].imports[j] # NULL
      PROVE  Fits(after, i, j, after[i].imports[j])
  <2>1. CASE i = m /\ j = n
    <3>1. after[i].imports[j] = r
      BY <1>2, <1>5, <2>1
    <3> QED
      BY <1>1, <1>6, <1>8, <2>1, <3>1
  <2>2. CASE ~(i = m /\ j = n)
    <3>1. j \in DOMAIN ms[i].imports /\ after[i].imports[j] = ms[i].imports[j]
      BY <1>2, <1>5, <2>2
    <3>2. Fits(ms, i, j, ms[i].imports[j])
      BY <1>5, <1>8, <3>1 DEF Right, Bound
    <3> QED
      BY <1>5, <1>6, <3>1, <3>2
  <2> QED
    BY <2>1, <2>2
<1>9. ASSUME NEW k \in DOMAIN frames
      PROVE  IF k = 1 THEN after[frames[k].module].path = world.entry
             ELSE Fits(after, frames[k - 1].module, frames[k - 1].next, frames[k].module)
  <2>1. IF k = 1 THEN ms[S[k].module].path = world.entry
        ELSE Fits(ms, S[k - 1].module, S[k - 1].next, S[k].module)
    BY <1>4 DEF Right, Expected
  <2>2. CASE k = 1
    BY <1>1, <1>4, <1>5, <2>1, <2>2
  <2>3. CASE k # 1
    <3>1. k - 1 \in DOMAIN S /\ k - 1 # L
      BY <1>1, <1>4, <2>3
    <3> QED
      BY <1>1, <1>4, <1>6, <2>1, <2>3, <3>1
  <2> QED
    BY <2>2, <2>3
<1>10. Right(after, frames, bag)
  BY <1>7, <1>8, <1>9 DEF Right, Bound, Expected
<1> QED
  BY <1>10 DEF after, frames

\* Adding a module that has no import bound yet.
LEMMA AddRight ==
  ASSUME NEW ms, NEW S, NEW fin, NEW bag, NEW bag2, NEW x \in Module,
         Consistent(ms, S, fin, bag), Right(ms, S, bag),
         Described(x), \A j \in DOMAIN x.imports : x.imports[j] = NULL,
         bag2 = <<>> => bag = <<>> /\ Clean(x)
  PROVE  /\ Right(Append(ms, x), S, bag2)
         /\ \A i \in DOMAIN ms : \A j, r : Fits(ms, i, j, r) => Fits(Append(ms, x), i, j, r)
<1> DEFINE more == Append(ms, x)
<1>1. /\ DOMAIN more = DOMAIN ms \cup {Len(ms) + 1}
      /\ \A i \in DOMAIN ms : more[i] = ms[i]
      /\ more[Len(ms) + 1] = x
      /\ S \in Seq(Frame)
      /\ \A k \in DOMAIN S : S[k].module \in DOMAIN ms
  BY Grown DEF Consistent, Shape
<1> HIDE DEF more
<1>2. \A i \in DOMAIN ms : \A j, r : Fits(ms, i, j, r) => Fits(more, i, j, r)
  BY <1>1 DEF Fits
<1>3. \A i \in DOMAIN more : Described(more[i]) /\ (bag2 = <<>> => Clean(more[i]))
  BY <1>1 DEF Right
<1>4. Bound(more)
  BY <1>1, <1>2 DEF Right, Bound
<1>5. ASSUME NEW k \in DOMAIN S
      PROVE  IF k = 1 THEN more[S[k].module].path = world.entry
             ELSE Fits(more, S[k - 1].module, S[k - 1].next, S[k].module)
  <2>1. k = 1 \/ k - 1 \in DOMAIN S
    BY <1>1
  <2> QED
    BY <1>1, <1>2, <2>1 DEF Right, Expected
<1> QED
  BY <1>2, <1>3, <1>4, <1>5 DEF Right, Expected, more

\* A new frame for a module that the innermost frame waits for, or for the entry.
LEMMA PushRight ==
  ASSUME NEW ms, NEW S \in Seq(Frame), NEW bag, NEW i \in Nat \ {0},
         Right(ms, S, bag),
         IF S = <<>> THEN ms[i].path = world.entry
         ELSE Fits(ms, S[Len(S)].module, S[Len(S)].next, i)
  PROVE  Right(ms, Append(S, [module |-> i, next |-> 1]), bag)
<1> DEFINE frame == [module |-> i, next |-> 1]
           more  == Append(S, frame)
<1>1. frame \in Frame /\ frame.module = i
  BY DEF Frame
<1> HIDE DEF frame
<1>2. /\ DOMAIN more = DOMAIN S \cup {Len(S) + 1}
      /\ \A k \in DOMAIN S : more[k] = S[k]
      /\ more[Len(S) + 1] = frame
      /\ Len(S) \in Nat /\ DOMAIN S = 1..Len(S)
  BY <1>1, Grown
<1> HIDE DEF more
<1>3. ASSUME NEW k \in DOMAIN more
      PROVE  IF k = 1 THEN ms[more[k].module].path = world.entry
             ELSE Fits(ms, more[k - 1].module, more[k - 1].next, more[k].module)
  <2>1. CASE k \in DOMAIN S
    <3>1. k = 1 \/ k - 1 \in DOMAIN S
      BY <1>2, <2>1
    <3> QED
      BY <1>2, <2>1, <3>1 DEF Right, Expected
  <2>2. CASE k = Len(S) + 1
    <3>1. CASE S = <<>>
      BY <1>1, <1>2, <2>2, <3>1
    <3>2. CASE S # <<>>
      <4>1. Len(S) # 0
        BY <3>2
      <4>2. k # 1 /\ k - 1 = Len(S) /\ Len(S) \in DOMAIN S
        BY <1>2, <2>2, <4>1
      <4> QED
        BY <1>1, <1>2, <2>2, <3>2, <4>2
    <3> QED
      BY <3>1, <3>2
  <2> QED
    BY <1>2, <2>1, <2>2
<1> QED
  BY <1>3 DEF Right, Expected, more, frame

\* The innermost frame ends and its module is no longer loading.
LEMMA FinishRight ==
  ASSUME NEW ms, NEW S, NEW fin, NEW bag, S # <<>>,
         Consistent(ms, S, fin, bag), Right(ms, S, bag)
  PROVE  LET L     == Len(S)
             m     == S[L].module
             after == [ms EXCEPT ![m].loading = FALSE]
             rest  == SubSeq(S, 1, L - 1)
         IN  /\ Right(after, rest, bag)
             /\ IF rest = <<>> THEN /\ m \in DOMAIN after /\ ~after[m].builtin
                                   /\ after[m].path = world.entry
                ELSE Fits(after, rest[Len(rest)].module, rest[Len(rest)].next, m)
<1> DEFINE L     == Len(S)
           m     == S[L].module
           after == [ms EXCEPT ![m].loading = FALSE]
           rest  == SubSeq(S, 1, L - 1)
<1>1. /\ S \in Seq(Frame) /\ L \in DOMAIN S /\ L \in Nat \ {0}
      /\ m \in DOMAIN ms /\ ms \in Seq(Module)
      /\ \A k \in DOMAIN S : S[k].module \in DOMAIN ms
      /\ ~ms[m].builtin
  <2>1. S \in Seq(Frame) /\ ms \in Seq(Module)
    BY DEF Consistent, Shape
  <2>2. L \in DOMAIN S /\ L \in Nat \ {0}
    BY <2>1
  <2> QED
    BY <2>1, <2>2 DEF Consistent, Shape
<1>2. /\ DOMAIN after = DOMAIN ms
      /\ \A i \in DOMAIN ms :
           /\ after[i].name = ms[i].name /\ after[i].path = ms[i].path
           /\ after[i].builtin = ms[i].builtin /\ after[i].parsed = ms[i].parsed
           /\ after[i].imports = ms[i].imports
  <2>1. \A i \in DOMAIN ms : ms[i] \in Module
    BY <1>1
  <2> HIDE DEF m
  <2> QED
    BY <1>1, <2>1 DEF Module
<1>3. /\ rest \in Seq(Frame) /\ Len(rest) = L - 1
      /\ DOMAIN rest = 1..L - 1
      /\ \A k \in DOMAIN rest : rest[k] = S[k] /\ k \in DOMAIN S
  <2>1. rest \in Seq(Frame) /\ Len(rest) = L - 1 /\ DOMAIN rest = 1..L - 1
    <3>1. 1 \in 1..Len(S) + 1 /\ L - 1 \in 0..Len(S)
      BY <1>1
    <3>2. /\ rest \in Seq(Frame)
          /\ Len(rest) = IF 1 <= L - 1 THEN L - 1 - 1 + 1 ELSE 0
      BY <1>1, <3>1, SubSeqProperties
    <3>3. L \in Nat \ {0}
      BY <1>1
    <3> HIDE DEF rest, L, m
    <3>4. Len(rest) = L - 1
      BY <3>2, <3>3
    <3> QED
      BY <3>2, <3>4
  <2>2. \A k \in 1..L - 1 : rest[k] = S[k] /\ k \in DOMAIN S
    BY <1>1
  <2> QED
    BY <2>1, <2>2
<1> HIDE DEF after, rest
<1>4. \A i \in DOMAIN ms : \A j, r : Fits(ms, i, j, r) => Fits(after, i, j, r)
  BY <1>2 DEF Fits
<1>5. \A i \in DOMAIN after : Described(after[i]) /\ (bag = <<>> => Clean(after[i]))
  BY <1>2 DEF Right, Described, Clean
<1>6. Bound(after)
  BY <1>2, <1>4 DEF Right, Bound
<1>7. ASSUME NEW k \in DOMAIN rest
      PROVE  IF k = 1 THEN after[rest[k].module].path = world.entry
             ELSE Fits(after, rest[k - 1].module, rest[k - 1].next, rest[k].module)
  <2>1. k = 1 \/ (k - 1 \in DOMAIN rest /\ k - 1 \in DOMAIN S)
    BY <1>1, <1>3
  <2> QED
    BY <1>1, <1>2, <1>3, <1>4, <2>1 DEF Right, Expected
<1>8. CASE rest = <<>>
  <2>1. L = 1
    BY <1>1, <1>3, <1>8
  <2>2. ms[m].path = world.entry
    BY <1>1, <2>1 DEF Right, Expected
  <2> QED
    BY <1>1, <1>2, <1>5, <1>6, <1>7, <1>8, <2>2 DEF Right, Expected, after, rest
<1>9. CASE rest # <<>>
  <2>1. L # 1 /\ L - 1 \in DOMAIN rest /\ L - 1 \in DOMAIN S /\ Len(rest) = L - 1
    BY <1>1, <1>3, <1>9
  <2>2. Fits(ms, S[L - 1].module, S[L - 1].next, m)
    BY <1>1, <2>1 DEF Right, Expected
  <2>3. Fits(after, rest[Len(rest)].module, rest[Len(rest)].next, m)
    BY <1>1, <1>3, <1>4, <2>1, <2>2
  <2> QED
    BY <1>5, <1>6, <1>7, <1>9, <2>3 DEF Right, Expected, after, rest
<1> QED
  BY <1>8, <1>9

-------------------------------------------------------------------------------
(* The steps.                                                                 *)

\* What is said of a report.
Blamed(bag, ended) == NoFileShadows /\ bag # <<>> => ~Sound \/ ended

\* A call that returns leaves the invariant true.
LEMMA ReturnedRight ==
  ASSUME NEW S, NEW ms, NEW r \in Nat, world' = world,
         Returned(S, ms, r),
         Consistent(ms, S, finished', errors'),
         Right(ms, S, errors'),
         \A k \in DOMAIN S : Waiting(ms, S, k),
         S # <<>> /\ r # NULL => Fits(ms, S[Len(S)].module, S[Len(S)].next, r),
         S = <<>> /\ errors' = <<>> =>
           r \in DOMAIN ms /\ ~ms[r].builtin /\ ms[r].path = world.entry,
         Blamed(errors', S = <<>> /\ ms = <<>>)
  PROVE  VInv'
<1>1. CASE S = <<>>
  <2>1. modules' = ms /\ stack' = <<>> /\ root' = r /\ pc' = "loaded"
    BY <1>1 DEF Returned
  <2>2. Right(modules, stack, errors)'
    BY <1>1, <2>1, SameRight
  <2> QED
    BY <1>1, <2>1, <2>2, SameSound DEF VInv, Blamed
<1>2. CASE S # <<>>
  <2>1. /\ modules' = [ms EXCEPT ![S[Len(S)].module].imports[S[Len(S)].next] = r]
        /\ stack' = [S EXCEPT ![Len(S)].next = @ + 1]
        /\ pc' = "loading"
    BY <1>2 DEF Returned
  <2>2. Right(modules', stack', errors')
    BY <1>2, <2>1, ReturnRight
  <2>3. Right(modules, stack, errors)'
    BY <2>2, SameRight
  <2> QED
    BY <1>2, <2>1, <2>3, SameSound DEF VInv, Blamed
<1> QED
  BY <1>1, <1>2

\* A file is asked for by the command or by the import that is next.
Asked(path) ==
  /\ Callable(path) /\ IInv /\ VInv /\ Wanted(path)
  /\ stack = <<>> => path = world.entry /\ modules = <<>> /\ errors = <<>>
  /\ stack # <<>> =>
       LET m    == modules[stack[Len(stack)].module]
           name == fs[m.path].imports[stack[Len(stack)].next]
       IN  /\ name \notin Builtins
           /\ path \in cn_path_resolve_import(m.path.dir, name)

\* A module with that path is what the import asks for.
LEMMA AskedFits ==
  ASSUME NEW path, Asked(path), stack # <<>>,
         NEW ms, NEW r \in DOMAIN ms, ms[r].path = path, ~ms[r].builtin,
         \A i \in DOMAIN modules : i \in DOMAIN ms /\ ms[i].path = modules[i].path
  PROVE  Fits(ms, stack[Len(stack)].module, stack[Len(stack)].next, r)
<1>1. stack[Len(stack)].module \in DOMAIN modules
  <2>1. stack \in Seq(Frame)
    BY DEF Asked, IInv, Consistent, Shape
  <2>2. Len(stack) \in DOMAIN stack
    BY <2>1
  <2> QED
    BY <2>2 DEF Asked, IInv, Consistent, Shape
<1> QED
  BY <1>1 DEF Asked, Fits

\* What was reported before was so for a reason.
LEMMA BlamedBefore ==
  ASSUME IInv, VInv, pc # "loaded", NoFileShadows, errors # <<>>
  PROVE  ~Sound
BY DEF VInv

\* The innermost frame when a file or a built-in is asked for.
LEMMA Inside ==
  ASSUME IInv, VInv, stack # <<>>
  PROVE  /\ pc = "loading"
         /\ stack \in Seq(Frame) /\ Len(stack) \in DOMAIN stack /\ Len(stack) \in Nat \ {0}
         /\ modules \in Seq(Module)
         /\ stack[Len(stack)].module \in DOMAIN modules
         /\ \A k \in DOMAIN stack :
              stack[k].module \in DOMAIN modules /\ ~modules[stack[k].module].builtin
<1>1. stack \in Seq(Frame) /\ modules \in Seq(Module) /\ pc = "loading"
  BY DEF IInv, Consistent, Shape
<1>2. Len(stack) \in DOMAIN stack /\ Len(stack) \in Nat \ {0}
  BY <1>1
<1>3. \A k \in DOMAIN stack :
        stack[k].module \in DOMAIN modules /\ ~modules[stack[k].module].builtin
  BY DEF IInv, Consistent, Shape
<1> QED
  BY <1>1, <1>2, <1>3

\* An import of a module that is loading closes a cycle of needed files.
LEMMA CycleIsUnsound ==
  ASSUME IInv, VInv, stack # <<>>, NEW i \in DOMAIN modules, modules[i].loading,
         modules[i].path \in Targets(modules[stack[Len(stack)].module].path)
  PROVE  ~Sound
<1> SUFFICES ASSUME Exists(world.entry) PROVE HasCycle(Needed)
  BY DEF Sound
<1> DEFINE L == Len(stack)
           At(k) == modules[stack[k].module].path
<1>1. PICK j \in DOMAIN stack : stack[j].module = i
  BY DEF IInv, Consistent, Shape
<1> DEFINE C == {At(k) : k \in j..L}
<1>2. \A k \in j..L : k \in DOMAIN stack
  BY Inside
<1>3. C \subseteq Needed
  <2>1. ASSUME NEW k \in j..L PROVE At(k) \in Needed
    BY <1>2, Inside DEF VInv, Right, Described, Wanted
  <2> QED
    BY <2>1
<1>4. At(j) \in C
  <2>1. j \in j..L
    BY Inside
  <2> QED
    BY <2>1
<1>5. ASSUME NEW k \in j..L PROVE Targets(At(k)) \cap C # {}
  <2>1. CASE k = L
    BY <1>1, <1>4, <2>1
  <2>2. CASE k # L
    <3>1. k + 1 \in j..L /\ k + 1 > 1 /\ k + 1 - 1 = k
      BY <2>2, Inside
    <3>2. k + 1 \in DOMAIN stack
      BY <1>2, <3>1
    <3>4. \A n \in DOMAIN stack : n > 1 => At(n) \in Targets(At(n - 1))
      BY DEF IInv, Consistent, Chained
    <3>3. At(k + 1) \in Targets(At(k))
      <4> DEFINE n == k + 1
      <4>1. n \in DOMAIN stack /\ n > 1 /\ n - 1 = k
        BY <3>1, <3>2
      <4> HIDE DEF At, n
      <4>2. At(n) \in Targets(At(n - 1))
        BY <3>4, <4>1
      <4> QED
        BY <4>1, <4>2 DEF n
    <3> QED
      BY <3>1, <3>3
  <2> QED
    BY <2>1, <2>2
<1> HIDE DEF At
<1>6. \A p \in C : Targets(p) \cap C # {}
  BY <1>5
<1> HIDE DEF C
<1> QED
  BY <1>3, <1>4, <1>6 DEF HasCycle

\* A file that is asked for is a target of the innermost module.
LEMMA AskedIsTarget ==
  ASSUME NEW path, Asked(path), stack # <<>>
  PROVE  /\ path \in Targets(modules[stack[Len(stack)].module].path)
         /\ path \in DOMAIN fs /\ path.ext # ""
<1> DEFINE m    == modules[stack[Len(stack)].module]
           name == fs[m.path].imports[stack[Len(stack)].next]
<1>1. /\ path \in cn_path_resolve_import(m.path.dir, name)
      /\ path \in Targets(m.path)
  BY DEF Asked, Callable
<1> HIDE DEF m, name
<1>2. path \in DOMAIN fs /\ path.ext # ""
  BY <1>1, OneResolution
<1> QED
  BY <1>1, <1>2 DEF m

\* The module is in the project already.
LEMMA LoadExistingRight ==
  ASSUME NEW path, Asked(path), world' = world,
         NEW i \in DOMAIN modules, modules[i].path = path, LoadExisting(i)
  PROVE  VInv'
<1>1. stack # <<>> /\ IInv /\ VInv
  BY DEF Asked
<1>2. i \in Nat /\ modules \in Seq(Module)
  BY <1>1, Inside, ModuleFields
<1>3. ~modules[i].builtin
  <2>1. path.ext # ""
    BY <1>1, AskedIsTarget
  <2>2. Described(modules[i])
    BY <1>1 DEF VInv, Right
  <2>3. BuiltinPath(modules[i].name).ext = ""
    BY DEF BuiltinPath
  <2> QED
    BY <2>1, <2>2, <2>3 DEF Described
<1>4. Fits(modules, stack[Len(stack)].module, stack[Len(stack)].next, i)
  BY <1>1, <1>3, AskedFits
<1>5. /\ Returned(stack, modules, i) /\ finished' = finished
      /\ errors' = IF modules[i].loading THEN Report("E3018", Importer) ELSE errors
  BY DEF LoadExisting
<1>6. Report("E3018", Importer) # <<>>
  BY ImporterIsANumber, Reported DEF Asked, Callable, Ready
<1>7. errors' = <<>> => errors = <<>>
  BY <1>5, <1>6
<1>8. Right(modules, stack, errors')
  BY <1>1, <1>7 DEF VInv, Right
<1>9. Consistent(modules, stack, finished', errors')
  BY <1>1, <1>5, <1>7, BagWeakens DEF IInv
<1>10. Blamed(errors', FALSE)
  <2>1. CASE modules[i].loading
    BY <1>1, <2>1, AskedIsTarget, CycleIsUnsound DEF Blamed
  <2>2. CASE ~modules[i].loading
    BY <1>1, <1>5, <2>2, Inside, BlamedBefore DEF Blamed
  <2> QED
    BY <2>1, <2>2
<1>11. \A k \in DOMAIN stack : Waiting(modules, stack, k)
  BY DEF Asked, Callable, Ready
<1>12. Blamed(errors', stack = <<>> /\ modules = <<>>)
  BY <1>10 DEF Blamed
<1> QED
  BY <1>1, <1>2, <1>4, <1>5, <1>8, <1>9, <1>11, <1>12, ReturnedRight

\* A call that fails gives its importer nothing, and the files are to blame.
LEMMA NoModuleRight ==
  ASSUME IInv, VInv, Ready, world' = world, stack # <<>> \/ modules = <<>>,
         NEW i \in Nat, errors' = Report("E3017", i),
         Returned(stack, modules, NULL), finished' = finished,
         stack # <<>> /\ NoFileShadows => ~Sound
  PROVE  VInv'
<1>1. errors' # <<>>
  BY Reported DEF Ready
<1>2. Right(modules, stack, errors')
  BY <1>1 DEF VInv, Right
<1>3. Consistent(modules, stack, finished', errors')
  BY <1>1, BagWeakens DEF IInv
<1>4. Blamed(errors', stack = <<>> /\ modules = <<>>)
  BY DEF Blamed
<1>5. NULL \in Nat
  BY DEF NULL
<1>6. \A k \in DOMAIN stack : Waiting(modules, stack, k)
  BY DEF Ready
<1> QED
  BY <1>1, <1>2, <1>3, <1>4, <1>5, <1>6, ReturnedRight

\* Another file has the name: two needed files share it.
LEMMA LoadConflictRight ==
  ASSUME NEW path, Asked(path), world' = world,
         cn_project_find_module_by_path(path) = {},
         cn_project_find_module_by_name(cn_project_module_name_from_path(path)) # {},
         LoadConflict(path)
  PROVE  VInv'
<1>1. PICK j \in DOMAIN modules :
        modules[j].name = cn_project_module_name_from_path(path)
  BY DEF cn_project_find_module_by_name
<1>2. stack # <<>> /\ IInv /\ VInv /\ Ready /\ Wanted(path)
  BY DEF Asked, Callable
<1>3. modules[j].path # path
  BY DEF cn_project_find_module_by_path
<1>4. ASSUME NoFileShadows PROVE ~Sound
  <2>1. cn_project_module_name_from_path(path) \notin Builtins
    BY <1>2, <1>4, AskedIsTarget DEF NoFileShadows
  <2>2. /\ modules[j].name = cn_project_module_name_from_path(modules[j].path)
        /\ Wanted(modules[j].path)
    BY <1>1, <1>2, <2>1 DEF VInv, Right, Described
  <2> QED
    BY <1>1, <1>2, <1>3, <2>2 DEF Sound, Wanted
<1>5. Importer \in Nat
  BY <1>2, ImporterIsANumber
<1> QED
  BY <1>2, <1>4, <1>5, NoModuleRight DEF LoadConflict

\* A file that is wanted and has a fault is a reason for a report.
LEMMA FaultIsUnsound ==
  ASSUME NEW path, Wanted(path), path \notin DOMAIN fs \/ fs[path].fault # "none"
  PROVE  ~Sound
BY NeededIsClosed DEF Wanted, Sound

\* A module made of a file, with no import bound.
Made(x, path, count, p) ==
  /\ x \in Module /\ x.path = path /\ x.builtin = FALSE /\ x.parsed = p
  /\ Len(x.imports) = count
  /\ Described(x) /\ \A j \in DOMAIN x.imports : x.imports[j] = NULL

\* cn_module_create makes one.
LEMMA MadeRight ==
  ASSUME NEW path, Asked(path), NEW count \in Nat, NEW p \in BOOLEAN, NEW l \in BOOLEAN
  PROVE  Made(ModuleOf(path, count, p, l), path, count, p)
<1> DEFINE x == ModuleOf(path, count, p, l)
<1>1. path \in Path /\ world \in Worlds
  BY DEF Asked, Callable, Ready
<1>2. IsModuleOf(x, path, count, l)
  BY <1>1, Created, Zenon
<1>3. x.parsed = p /\ x.imports = [k \in 1..count |-> NULL]
  BY DEF ModuleOf
<1> HIDE DEF x
<1>4. \A j \in DOMAIN x.imports : x.imports[j] = NULL
  BY <1>3
<1>5. Described(x)
  BY <1>2 DEF IsModuleOf, Described, Asked
<1> QED
  BY <1>2, <1>3, <1>4, <1>5 DEF IsModuleOf, Made, x

\* A file that cannot be read.
LEMMA LoadUnreadableRight ==
  ASSUME NEW path, Asked(path), world' = world,
         cn_project_find_module_by_path(path) = {},
         cn_project_find_module_by_name(cn_project_module_name_from_path(path)) = {},
         Unreadable(path), LoadUnreadable(path)
  PROVE  VInv'
<1> DEFINE x == ModuleOf(path, 0, FALSE, FALSE)
           more == Append(modules, x)
<1>1. [cn_module_create(path, 0) EXCEPT !.loading = FALSE] = x
  <2>1. ASSUME NEW z, z = [cn_module_create(path, 0) EXCEPT !.loading = FALSE] PROVE z = x
    BY <2>1 DEF cn_module_create, ModuleOf
  <2> QED
    BY <2>1
<1>2. Callable(path) /\ Ready /\ IInv /\ VInv /\ Wanted(path)
  BY DEF Asked, Callable
<1>3. Fresh(modules, x) /\ x.loading = FALSE
  BY <1>2, NewIsFresh
<1>4. /\ x \in Module /\ x.path = path /\ x.builtin = FALSE
      /\ Described(x) /\ \A j \in DOMAIN x.imports : x.imports[j] = NULL
  <2>1. Made(x, path, 0, FALSE)
    BY MadeRight, Zenon
  <2> HIDE DEF x
  <2> QED
    BY <2>1 DEF Made
<1> HIDE DEF x
<1>5. /\ errors' = Report("E3017", Importer)
      /\ Returned(stack, more, New)
      /\ finished' = Append(finished, New)
  BY <1>1 DEF LoadUnreadable
<1>6. New = Len(modules) + 1 /\ New \in Nat /\ Importer \in Nat
  BY <1>2, ImporterIsANumber
<1>7. errors' # <<>>
  BY <1>2, <1>5, <1>6, Reported DEF Ready
<1>8. Consistent(more, stack, finished', errors')
  BY <1>2, <1>3, <1>5, <1>6, <1>7, UnreadableKeeps DEF Ready
<1>9. Right(more, stack, errors')
  BY <1>2, <1>4, <1>7, AddRight DEF Ready, VInv
<1>10. \A k \in DOMAIN stack : Waiting(more, stack, k)
  BY <1>2, <1>3, FreshKeeps DEF Ready
<1>11. /\ New \in DOMAIN more /\ more[New] = x
       /\ \A i \in DOMAIN modules : i \in DOMAIN more /\ more[i].path = modules[i].path
  <2>1. modules \in Seq(Module)
    BY <1>2 DEF Ready, Consistent, Shape
  <2> QED
    BY <1>4, <1>6, <2>1, Grown
<1> HIDE DEF more
<1>12. stack # <<>> => Fits(more, stack[Len(stack)].module, stack[Len(stack)].next, New)
  BY <1>4, <1>11, AskedFits
<1>13. ~Sound
  BY <1>2, FaultIsUnsound DEF Unreadable, Exists
<1>14. Blamed(errors', stack = <<>> /\ more = <<>>)
  BY <1>13 DEF Blamed
<1> QED
  BY <1>5, <1>6, <1>7, <1>8, <1>9, <1>10, <1>12, <1>14, ReturnedRight

\* A file that can be read.
LEMMA LoadSourceRight ==
  ASSUME NEW path, Asked(path), world' = world,
         cn_project_find_module_by_path(path) = {},
         cn_project_find_module_by_name(cn_project_module_name_from_path(path)) = {},
         ~Unreadable(path), LoadSource(path)
  PROVE  VInv'
<1> DEFINE file   == fs[path]
           lexed  == IF file.fault = "lex" THEN Report("source", New) ELSE errors
           parsed == ~cn_diag_has_error(lexed)
           after  == IF parsed /\ file.fault = "parse" THEN Report("source", New) ELSE lexed
           count  == IF parsed THEN Len(file.imports) ELSE 0
           x      == ModuleOf(path, count, parsed, TRUE)
           more   == Append(modules, x)
<1>1. Callable(path) /\ Ready /\ IInv /\ VInv /\ Wanted(path)
  BY DEF Asked, Callable
<1>2. path \in DOMAIN fs /\ file.fault # "unreadable"
  BY DEF Unreadable, Exists
<1>3. /\ file.imports \in Seq(Seq(Names) \ {<<>>})
      /\ file.fault \in {"none", "unreadable", "lex", "parse"}
  BY <1>1, <1>2, WorldsAssumption DEF Ready, fs
<1>4. New = Len(modules) + 1 /\ New \in Nat
  BY <1>1, ImporterIsANumber
<1>5. Report("source", New) # <<>>
  BY <1>1, <1>4, Reported DEF Ready
<1>6. errors' = after
  BY DEF LoadSource
<1>7. errors' = <<>> => /\ errors = <<>> /\ file.fault = "none"
                        /\ parsed /\ count = Len(file.imports)
  BY <1>2, <1>3, <1>5, <1>6 DEF cn_diag_has_error
<1>8. file.fault = "none" => errors' = errors
  BY <1>6
<1>9. parsed \in BOOLEAN /\ count \in Nat
  BY <1>3
<1>10. [cn_module_create(path, count) EXCEPT !.parsed = parsed] = x
  <2> HIDE DEF count, parsed
  <2>1. ASSUME NEW z, z = [cn_module_create(path, count) EXCEPT !.parsed = parsed] PROVE z = x
    BY <1>9, <2>1 DEF cn_module_create, ModuleOf
  <2> QED
    BY <2>1
<1>11. /\ modules' = more
       /\ stack' = Append(stack, [module |-> New, next |-> 1])
       /\ pc' = "loading"
  BY <1>10 DEF LoadSource
<1>12. /\ x \in Module /\ x.path = path /\ x.builtin = FALSE /\ x.parsed = parsed
       /\ Len(x.imports) = count
       /\ Described(x) /\ \A j \in DOMAIN x.imports : x.imports[j] = NULL
  <2> HIDE DEF count, parsed
  <2>1. Made(x, path, count, parsed)
    BY <1>9, MadeRight
  <2> HIDE DEF x
  <2> QED
    BY <2>1 DEF Made
<1> HIDE DEF x
<1>13. errors' = <<>> => Clean(x)
  BY <1>2, <1>7, <1>12 DEF Clean
<1> HIDE DEF parsed, count, after, lexed
<1>14. Right(more, stack, errors')
  BY <1>1, <1>7, <1>12, <1>13, AddRight DEF Ready, VInv
<1>15. /\ New \in DOMAIN more /\ more[New] = x
       /\ \A i \in DOMAIN modules : i \in DOMAIN more /\ more[i].path = modules[i].path
  <2>1. modules \in Seq(Module)
    BY <1>1 DEF Ready, Consistent, Shape
  <2> QED
    BY <1>4, <1>12, <2>1, Grown
<1> HIDE DEF more
<1>16. IF stack = <<>> THEN more[New].path = world.entry
       ELSE Fits(more, stack[Len(stack)].module, stack[Len(stack)].next, New)
  <2>1. CASE stack = <<>>
    BY <1>12, <1>15, <2>1 DEF Asked
  <2>2. CASE stack # <<>>
    BY <1>12, <1>15, <2>2, AskedFits
  <2> QED
    BY <2>1, <2>2
<1>17. Right(modules', stack', errors')
  <2>1. stack \in Seq(Frame) /\ New \in Nat \ {0}
    <3>1. stack \in Seq(Frame) /\ modules \in Seq(Module)
      BY <1>1 DEF Ready, Consistent, Shape
    <3> QED
      BY <1>4, <3>1
  <2> QED
    BY <1>11, <1>14, <1>16, <2>1, PushRight
<1>18. Right(modules, stack, errors)'
  BY <1>17, SameRight
<1>19. NoFileShadows /\ errors' # <<>> => ~Sound
  <2>1. CASE file.fault # "none"
    BY <1>1, <2>1, FaultIsUnsound
  <2>2. CASE file.fault = "none"
    <3>1. errors' = errors
      BY <1>8, <2>2
    <3>2. CASE errors = <<>>
      BY <3>1, <3>2
    <3>3. CASE errors # <<>>
      BY <1>1, <3>1, <3>3, BlamedBefore, Inside DEF Asked
    <3> QED
      BY <3>2, <3>3
  <2> QED
    BY <2>1, <2>2
<1> QED
  BY <1>11, <1>18, <1>19, SameSound DEF VInv

\* So every call of cn_project_load_module keeps the invariant.
LEMMA LoadModuleRight ==
  ASSUME NEW path, Asked(path), world' = world, cn_project_load_module(path)
  PROVE  VInv'
BY LoadExistingRight, LoadConflictRight, LoadUnreadableRight, LoadSourceRight
   DEF cn_project_load_module, cn_project_find_module_by_path

\* An empty list has no elements.
LEMMA EmptyDomain ==
  ASSUME NEW T, NEW s \in Seq(T), s = <<>>
  PROVE  DOMAIN s = {}
<1>1. Len(s) = 0 /\ DOMAIN s = 1..Len(s)
  OBVIOUS
<1> QED
  BY <1>1

\* A module that is added comes last.
LEMMA NewIsLast ==
  ASSUME modules \in Seq(Module), NEW x \in Module
  PROVE  /\ New \in DOMAIN Append(modules, x) /\ Append(modules, x)[New] = x
         /\ \A i \in DOMAIN modules :
              i \in DOMAIN Append(modules, x) /\ Append(modules, x)[i] = modules[i]
BY Grown DEF New

\* A built-in module is what its import asks for.
LEMMA BuiltinRight ==
  ASSUME IInv, VInv, Ready, stack # <<>>, world' = world,
         NEW name \in Builtins,
         name = fs[modules[stack[Len(stack)].module].path].imports[stack[Len(stack)].next],
         cn_project_load_builtin_module(name)
  PROVE  VInv'
<1> DEFINE m == stack[Len(stack)].module
           n == stack[Len(stack)].next
<1>1. errors' = errors /\ finished' = finished
  BY DEF cn_project_load_builtin_module
<1>2. Blamed(errors', FALSE)
  BY <1>1, Inside, BlamedBefore DEF Blamed
<1>3. m \in DOMAIN modules /\ modules \in Seq(Module)
  BY Inside
<1>4. ASSUME NEW i \in DOMAIN modules, modules[i].builtin, modules[i].name = name,
             Returned(stack, modules, i)
      PROVE  VInv'
  <2>1. i \in Nat
    BY <1>3, ModuleFields
  <2>2. Fits(modules, m, n, i)
    BY <1>4 DEF Fits
  <2> QED
    BY <1>1, <1>2, <1>4, <2>1, <2>2, ReturnedRight DEF Ready, VInv, Blamed
<1>5. ASSUME Returned(stack, Append(modules, cn_builtin_module_create(name)), New)
      PROVE  VInv'
  <2> DEFINE x == cn_builtin_module_create(name)
             more == Append(modules, x)
  <2>1. Fresh(modules, x) /\ x.builtin = TRUE /\ x.loading = FALSE
    BY BuiltinRecord
  <2>2. /\ x.name = name /\ x.path = BuiltinPath(name) /\ x.parsed = TRUE
        /\ x.imports = <<>>
    BY DEF cn_builtin_module_create
  <2>3. New = Len(modules) + 1 /\ New \in Nat
    BY ImporterIsANumber
  <2>4. Returned(stack, more, New)
    BY <1>5
  <2> HIDE DEF x
  <2>5. x \in Module /\ Described(x) /\ Clean(x) /\ \A j \in DOMAIN x.imports : x.imports[j] = NULL
    <3>1. x \in Module
      BY <2>1 DEF Fresh
    <3>2. Described(x) /\ Clean(x)
      BY <2>1, <2>2 DEF Described, Clean
    <3>3. DOMAIN x.imports = {}
      <4>1. x.imports = <<>>
        BY <2>2
      <4>2. x.imports \in Seq(Nat)
        BY <3>1 DEF Module
      <4> QED
        BY <4>1, <4>2, EmptyDomain
    <3> QED
      BY <3>1, <3>2, <3>3
  <2>6. Consistent(more, stack, finished, errors)
    BY <2>1, BuiltinKeeps DEF Ready
  <2>7. \A k \in DOMAIN stack : Waiting(more, stack, k)
    BY <2>1, FreshKeeps DEF Ready
  <2>8. Right(more, stack, errors)
    BY <2>5, AddRight DEF Ready, VInv
  <2>9. /\ New \in DOMAIN more /\ more[New] = x
        /\ \A i \in DOMAIN modules : i \in DOMAIN more /\ more[i] = modules[i]
    <3>1. modules \in Seq(Module) /\ x \in Module
      BY <1>3, <2>5
    <3> QED
      BY <3>1, NewIsLast
  <2> HIDE DEF more
  <2>10. Fits(more, m, n, New)
    BY <1>3, <2>1, <2>2, <2>9 DEF Fits
  <2> QED
    BY <1>1, <1>2, <2>3, <2>4, <2>6, <2>7, <2>8, <2>10, ReturnedRight DEF Blamed
<1> QED
  BY <1>4, <1>5 DEF cn_project_load_builtin_module, cn_project_find_module_by_name

\* The first step of a command.
LEMMA ProjectLoadRight ==
  ASSUME IInv, VInv, cn_project_load
  PROVE  VInv'
<1>1. stack = <<>> /\ world' = world /\ modules = <<>> /\ errors = <<>>
  BY DEF IInv, VInv, cn_project_load
<1>2. Ready
  BY <1>1 DEF IInv, Ready, ErrorRecord
<1>3. world.entry \in Path
  BY WorldsAssumption DEF IInv
<1>4. Asked(world.entry)
  BY <1>1, <1>2, <1>3, WantedIsClosed DEF Asked, Callable
<1>5. CASE cn_project_load_module(world.entry)
  BY <1>1, <1>4, <1>5, LoadModuleRight
<1>6. CASE errors' = Report("E3017", NULL) /\ Returned(<<>>, modules, NULL) /\ finished' = finished
  BY <1>1, <1>2, <1>6, NoModuleRight DEF NULL
<1> QED
  BY <1>5, <1>6 DEF cn_project_load

\* Handling one import.
LEMMA LoadImportRight ==
  ASSUME IInv, VInv, LoadImport
  PROVE  VInv'
<1> DEFINE m == modules[Innermost.module]
           name == fs[m.path].imports[Innermost.next]
<1>1. /\ Ready /\ m.path \in DOMAIN fs /\ Innermost.next \in DOMAIN fs[m.path].imports
      /\ Innermost.module \in Nat /\ world' = world
  BY ImportOfFile DEF LoadImport
<1>2. stack # <<>>
  BY DEF IInv, LoadImport
<1>3. Wanted(m.path)
  BY <1>2, Inside DEF Innermost, VInv, Right, Described
<1>4. CASE name \in Builtins /\ cn_project_load_builtin_module(name)
  BY <1>1, <1>2, <1>4, BuiltinRight DEF Innermost
<1>5. ASSUME name \notin Builtins, cn_path_resolve_import(m.path.dir, name) = {},
             errors' = Report("E3017", Innermost.module),
             Returned(stack, modules, NULL), finished' = finished
      PROVE  VInv'
  <2>1. ~Resolves(m.path)
    BY <1>1, <1>5 DEF Resolves
  <2>2. ~Sound
    BY <1>3, <2>1 DEF Sound, Wanted
  <2> QED
    BY <1>1, <1>2, <1>5, <2>2, NoModuleRight
<1>6. ASSUME name \notin Builtins,
             NEW path \in cn_path_resolve_import(m.path.dir, name),
             cn_project_load_module(path)
      PROVE  VInv'
  <2>1. path \in Targets(m.path)
    BY <1>1, <1>6 DEF Targets
  <2>2. path \in DOMAIN fs
    BY OneResolution
  <2>3. path \in Path
    BY <1>1, <2>2, WorldsAssumption DEF Ready, fs
  <2>4. Wanted(path)
    BY <1>3, <2>1, WantedIsClosed
  <2>5. Asked(path)
    BY <1>1, <1>2, <1>6, <2>1, <2>3, <2>4 DEF Asked, Callable, Innermost
  <2> QED
    BY <1>1, <1>6, <2>5, LoadModuleRight
<1> QED
  BY <1>4, <1>5, <1>6 DEF LoadImport

\* The end of a module's imports.
LEMMA FinishModuleRight ==
  ASSUME IInv, VInv, FinishModule
  PROVE  VInv'
<1> DEFINE m     == stack[Len(stack)].module
           after == [modules EXCEPT ![m].loading = FALSE]
           rest  == SubSeq(stack, 1, Len(stack) - 1)
<1>1. /\ Consistent(modules, stack, finished, errors) /\ stack # <<>>
      /\ stack[Len(stack)].next > Len(modules[m].imports)
      /\ Right(modules, stack, errors)
  BY DEF IInv, VInv, FinishModule, Innermost
<1>2. /\ Consistent(after, rest, Append(finished, m), errors)
      /\ m \in Nat
      /\ \A k \in DOMAIN stack :
           k < Len(stack) /\ Waiting(modules, stack, k) => Waiting(after, rest, k)
  BY <1>1, FinishKeeps
<1>3. /\ Right(after, rest, errors)
      /\ IF rest = <<>> THEN /\ m \in DOMAIN after /\ ~after[m].builtin
                            /\ after[m].path = world.entry
         ELSE Fits(after, rest[Len(rest)].module, rest[Len(rest)].next, m)
  BY <1>1, FinishRight
<1>4. /\ Returned(rest, after, m) /\ finished' = Append(finished, m)
      /\ errors' = errors /\ world' = world
  BY DEF FinishModule, Innermost
<1>5. Blamed(errors', FALSE)
  BY <1>1, <1>4, Inside, BlamedBefore DEF Blamed
<1>6. \A k \in DOMAIN rest : k \in DOMAIN stack /\ k < Len(stack)
  BY <1>1, Inside
<1> HIDE DEF rest, after, m
<1>7. \A k \in DOMAIN rest : Waiting(after, rest, k)
  BY <1>2, <1>6 DEF IInv
<1> QED
  BY <1>2, <1>3, <1>4, <1>5, <1>7, ReturnedRight DEF Blamed

-------------------------------------------------------------------------------
(* The verdict.                                                               *)

\* What the invariants say of a project that was loaded without a report.
Accepted == IInv /\ VInv /\ pc = "loaded" /\ errors = <<>>

Loaded == {modules[i].path : i \in {j \in DOMAIN modules : ~modules[j].builtin}}

\* Every file of it has finished, and each import is bound to what it asks for.
LEMMA AcceptedModules ==
  ASSUME Accepted, NEW i \in DOMAIN modules, ~modules[i].builtin
  PROVE  /\ Clean(modules[i]) /\ modules[i].path \in DOMAIN fs
         /\ \E k \in DOMAIN finished : finished[k] = i
         /\ DOMAIN modules[i].imports = DOMAIN fs[modules[i].path].imports
         /\ \A j \in DOMAIN modules[i].imports :
              Fits(modules, i, j, modules[i].imports[j])
<1>1. modules \in Seq(Module) /\ stack \in Seq(Frame) /\ world \in Worlds
  BY DEF Accepted, IInv, Consistent, Shape
<1>2. Clean(modules[i]) /\ modules[i].path \in DOMAIN fs
  BY DEF Accepted, VInv, Right, Clean
<1>3. ~modules[i].loading
  <2>1. stack = <<>>
    BY DEF Accepted, IInv
  <2>2. DOMAIN stack = {}
    BY <2>1
  <2> QED
    BY <2>2 DEF Accepted, IInv, Consistent, Shape
<1>4. PICK k \in DOMAIN finished : finished[k] = i
  BY <1>3 DEF Accepted, IInv, Consistent, Shape
<1>5. modules[i].imports \in Seq(Nat)
  BY <1>1, ModuleFields
<1>6. fs[modules[i].path].imports \in Seq(Seq(Names) \ {<<>>})
  BY <1>1, <1>2, WorldsAssumption DEF fs
<1>7. DOMAIN modules[i].imports = DOMAIN fs[modules[i].path].imports
  BY <1>2, <1>5, <1>6 DEF Clean
<1>8. ASSUME NEW j \in DOMAIN modules[i].imports
      PROVE  Fits(modules, i, j, modules[i].imports[j])
  <2>1. modules[i].imports[j] \in DOMAIN modules
    BY <1>4 DEF Accepted, IInv, Consistent, Ordered, Settled
  <2>2. modules[i].imports[j] # NULL
    BY <1>1, <2>1 DEF NULL
  <2> QED
    BY <2>2 DEF Accepted, VInv, Right, Bound
<1> QED
  BY <1>2, <1>4, <1>7, <1>8

\* So the file an import resolves to is one of the project, bound to it.
LEMMA AcceptedTargets ==
  ASSUME Accepted, NEW i \in DOMAIN modules, ~modules[i].builtin,
         NEW q \in Targets(modules[i].path)
  PROVE  \E j \in DOMAIN modules[i].imports :
           LET r == modules[i].imports[j]
           IN  r \in DOMAIN modules /\ ~modules[r].builtin /\ modules[r].path = q
<1> DEFINE names == fs[modules[i].path].imports
<1>1. PICK j \in DOMAIN names :
        names[j] \notin Builtins /\ q \in cn_path_resolve_import(modules[i].path.dir, names[j])
  BY DEF Targets
<1>2. j \in DOMAIN modules[i].imports /\ Fits(modules, i, j, modules[i].imports[j])
  BY AcceptedModules
<1> DEFINE r == modules[i].imports[j]
<1>3. /\ r \in DOMAIN modules /\ ~modules[r].builtin
      /\ modules[r].path \in cn_path_resolve_import(modules[i].path.dir, names[j])
  BY <1>1, <1>2 DEF Fits
<1>4. modules[r].path = q
  BY <1>1, <1>3, OneResolution
<1> QED
  BY <1>2, <1>3, <1>4

\* An accepted project holds the files that are needed and no others.
LEMMA LoadedIsNeeded ==
  ASSUME Accepted
  PROVE  Loaded = Needed /\ Exists(world.entry)
<1>1. /\ root \in DOMAIN modules /\ ~modules[root].builtin
      /\ modules[root].path = world.entry
  BY DEF Accepted, VInv
<1>2. Exists(world.entry) /\ world.entry \in Loaded
  BY <1>1, AcceptedModules DEF Exists, Loaded
<1>3. Loaded \subseteq Needed
  BY <1>2 DEF Loaded, Accepted, VInv, Right, Described, Wanted
<1>4. Loaded \subseteq DOMAIN fs
  BY AcceptedModules DEF Loaded
<1>5. ASSUME NEW p \in Loaded PROVE Targets(p) \subseteq Loaded
  <2>1. PICK i \in DOMAIN modules : ~modules[i].builtin /\ modules[i].path = p
    BY DEF Loaded
  <2>2. ASSUME NEW q \in Targets(p) PROVE q \in Loaded
    <3>1. PICK j \in DOMAIN modules[i].imports :
            LET r == modules[i].imports[j]
            IN  r \in DOMAIN modules /\ ~modules[r].builtin /\ modules[r].path = q
      BY <2>1, AcceptedTargets
    <3> QED
      BY <3>1 DEF Loaded
  <2> QED
    BY <2>2
<1>6. Needed \subseteq Loaded
  BY <1>2, <1>4, <1>5 DEF Needed
<1> QED
  BY <1>2, <1>3, <1>6

\* It has no cycle: the first file of one to finish imports one that finished before.
LEMMA AcceptedHasNoCycle ==
  ASSUME Accepted
  PROVE  ~HasCycle(Needed)
<1> SUFFICES ASSUME NEW C \in SUBSET Needed, C # {}, \A p \in C : Targets(p) \cap C # {}
             PROVE  FALSE
  BY DEF HasCycle
<1> DEFINE T == {k \in DOMAIN finished : modules[finished[k]].path \in C
                                          /\ ~modules[finished[k]].builtin}
<1>1. finished \in Seq(Nat \ {0}) /\ Ordered(modules, stack, finished)
  BY DEF Accepted, IInv, Consistent, Shape
<1>2. T \subseteq Nat
  BY <1>1
<1>3. T # {}
  <2>1. PICK p \in C : p \in Loaded
    BY LoadedIsNeeded
  <2>2. PICK i \in DOMAIN modules : ~modules[i].builtin /\ modules[i].path = p
    BY <2>1 DEF Loaded
  <2>3. PICK k \in DOMAIN finished : finished[k] = i
    BY <2>2, AcceptedModules
  <2> QED
    BY <2>1, <2>2, <2>3
<1>4. PICK k \in T : \A l \in T : k <= l
  BY <1>2, <1>3, LeastNat
<1> DEFINE i == finished[k]
<1>5. i \in DOMAIN modules /\ ~modules[i].builtin /\ modules[i].path \in C /\ k \in DOMAIN finished
  BY <1>4 DEF Accepted, IInv, Consistent, Shape
<1>6. PICK q \in Targets(modules[i].path) : q \in C
  BY <1>5
<1> HIDE DEF T
<1>7. PICK j \in DOMAIN modules[i].imports :
        LET r == modules[i].imports[j]
        IN  r \in DOMAIN modules /\ ~modules[r].builtin /\ modules[r].path = q
  BY <1>5, <1>6, AcceptedTargets
<1>8. Settled(modules, finished, k - 1, modules[i].imports[j])
  BY <1>1, <1>5, <1>7 DEF Ordered
<1>9. PICK l \in 1..k - 1 : finished[l] = modules[i].imports[j]
  BY <1>7, <1>8 DEF Settled
<1>10. l \in DOMAIN finished /\ l < k
  BY <1>1, <1>5
<1>11. l \in T
  BY <1>6, <1>7, <1>9, <1>10 DEF T
<1> QED
  BY <1>1, <1>4, <1>5, <1>10, <1>11

\* An accepted project is sound.
LEMMA AcceptedIsSound ==
  ASSUME Accepted
  PROVE  Sound
<1>1. Exists(world.entry) /\ Loaded = Needed /\ ~HasCycle(Needed)
  BY LoadedIsNeeded, AcceptedHasNoCycle
<1>2. ASSUME NEW p \in Needed
      PROVE  \E i \in DOMAIN modules : ~modules[i].builtin /\ modules[i].path = p
  BY <1>1 DEF Loaded
<1>3. ASSUME NEW p \in Needed PROVE fs[p].fault = "none" /\ Resolves(p)
  <2>1. PICK i \in DOMAIN modules : ~modules[i].builtin /\ modules[i].path = p
    BY <1>2
  <2>2. fs[p].fault = "none"
    BY <2>1, AcceptedModules DEF Clean
  <2>3. ASSUME NEW k \in DOMAIN fs[p].imports, fs[p].imports[k] \notin Builtins
        PROVE  cn_path_resolve_import(p.dir, fs[p].imports[k]) # {}
    <3>1. Fits(modules, i, k, modules[i].imports[k])
      BY <2>1, AcceptedModules
    <3> QED
      BY <2>1, <2>3, <3>1 DEF Fits
  <2> QED
    BY <2>2, <2>3 DEF Resolves
<1>4. ASSUME NEW p \in Needed, NEW q \in Needed,
             cn_project_module_name_from_path(p) = cn_project_module_name_from_path(q)
      PROVE  p = q
  <2>1. PICK i \in DOMAIN modules : ~modules[i].builtin /\ modules[i].path = p
    BY <1>2
  <2>2. PICK j \in DOMAIN modules : ~modules[j].builtin /\ modules[j].path = q
    BY <1>2
  <2>3. modules[i].name = modules[j].name
    BY <1>4, <2>1, <2>2 DEF Accepted, VInv, Right, Described
  <2>4. i = j
    BY <2>1, <2>2, <2>3 DEF Accepted, IInv, Consistent, OneName
  <2> QED
    BY <2>1, <2>2, <2>4
<1> QED
  BY <1>1, <1>3, <1>4 DEF Sound

\* The invariant about the verdict, for every file system.
THEOREM VerdictInvariance == Spec => [](IInv /\ VInv)
<1>1. Init => VInv
  BY DEF Init, VInv, Right, Bound, Expected
<1>2. IInv /\ VInv /\ [Next]_vars => VInv'
  <2> SUFFICES ASSUME IInv, VInv, [Next]_vars PROVE VInv'
    OBVIOUS
  <2>1. CASE cn_project_load
    BY <2>1, ProjectLoadRight
  <2>2. CASE LoadImport
    BY <2>2, LoadImportRight
  <2>3. CASE FinishModule
    BY <2>3, FinishModuleRight
  <2>4. CASE UNCHANGED vars
    <3>1. /\ world' = world /\ modules' = modules /\ stack' = stack /\ root' = root
          /\ errors' = errors /\ pc' = pc
      BY <2>4 DEF vars
    <3>2. Right(modules, stack, errors)'
      BY <3>1, SameRight DEF VInv
    <3> QED
      BY <3>1, <3>2, SameSound DEF VInv
  <2> QED
    BY <2>1, <2>2, <2>3, <2>4 DEF Next
<1> QED
  BY <1>1, <1>2, Invariance, PTL DEF Spec

\* What cn_project_load accepts is the files the entry needs, all of them parsed,
\* with every import bound to the module its name resolves to.
THEOREM AcceptedComplete == Spec => []AcceptedIsComplete
<1>1. IInv /\ VInv => AcceptedIsComplete
  <2> SUFFICES ASSUME Accepted PROVE
               /\ Loaded = Needed
               /\ modules[root].path = world.entry
               /\ \A i \in DOMAIN modules :
                    /\ modules[i].parsed
                    /\ \A k \in DOMAIN modules[i].imports :
                         LET name == fs[modules[i].path].imports[k]
                             m    == modules[modules[i].imports[k]]
                         IN  IF name \in Builtins THEN m.builtin /\ m.name = name
                             ELSE m.path \in cn_path_resolve_import(modules[i].path.dir, name)
    BY DEF AcceptedIsComplete, Accepted, Loaded
  <2>1. Loaded = Needed
    BY LoadedIsNeeded
  <2>2. modules[root].path = world.entry
    BY DEF Accepted, VInv
  <2>3. ASSUME NEW i \in DOMAIN modules
        PROVE  /\ modules[i].parsed
               /\ \A k \in DOMAIN modules[i].imports :
                    LET name == fs[modules[i].path].imports[k]
                        m    == modules[modules[i].imports[k]]
                    IN  IF name \in Builtins THEN m.builtin /\ m.name = name
                        ELSE m.path \in cn_path_resolve_import(modules[i].path.dir, name)
    <3>1. CASE modules[i].builtin
      BY <3>1 DEF Accepted, VInv, Right, Described
    <3>2. CASE ~modules[i].builtin
      BY <3>2, AcceptedModules DEF Clean, Fits
    <3> QED
      BY <3>1, <3>2
  <2> QED
    BY <2>1, <2>2, <2>3
<1> QED
  BY <1>1, VerdictInvariance, PTL

\* If no file has the name of a built-in module, cn_project_load reports an error
\* exactly when the files give it a reason, whatever the order of imports.
THEOREM Verdict == Spec /\ NoFileShadows => []VerdictIsRight
<1>1. IInv /\ VInv /\ NoFileShadows => VerdictIsRight
  BY AcceptedIsSound DEF VerdictIsRight, VInv, Accepted
<1>2. NoFileShadows /\ [Next]_vars => NoFileShadows'
  <2>1. [Next]_vars => world' = world
    BY DEF Next, vars, cn_project_load, LoadImport, FinishModule
  <2> QED
    BY <2>1, SameSound
<1> QED
  BY <1>1, <1>2, VerdictInvariance, PTL DEF Spec

\* Without that: what it accepts is sound.
THEOREM AcceptedSound == Spec => [](pc = "loaded" /\ errors = <<>> => Sound)
<1>1. IInv /\ VInv => (pc = "loaded" /\ errors = <<>> => Sound)
  BY AcceptedIsSound DEF Accepted
<1> QED
  BY <1>1, VerdictInvariance, PTL
====
