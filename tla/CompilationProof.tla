--------------------------- MODULE CompilationProof ---------------------------
(* The compiler keeps its maps, its contexts, its open blocks and its labels  *)
(* in the shape Compilation says, whatever the program; its instructions and  *)
(* the machine's state keep their sorts.                                      *)
EXTENDS Compilation, SeqFacts, FiniteSetTheorems, FunctionTheorems

-----------------------------------------------------------------------------
(* Maps.                                                                      *)

LEMMA FindNone ==
    ASSUME NEW map, NEW key, \A i \in DOMAIN map : map[i].key # key
    PROVE  Find(map, key) = NULL
BY DEF Find

LEMMA FindOf ==
    ASSUME NEW map, NEW kinds, IsMap(map, kinds), NEW i \in DOMAIN map
    PROVE  Find(map, map[i].key) = map[i].id
<1> DEFINE key == map[i].key
           j == CHOOSE m \in DOMAIN map : map[m].key = key
<1>1. j \in DOMAIN map /\ map[j].key = key OBVIOUS
<1>2. j = i BY <1>1 DEF IsMap
<1> QED BY <1>2 DEF Find

LEMMA FindIs ==
    ASSUME NEW map, NEW kinds, IsMap(map, kinds), NEW key, Find(map, key) # NULL
    PROVE  \E i \in DOMAIN map : map[i].key = key /\ map[i].id = Find(map, key)
<1>1. PICK i \in DOMAIN map : map[i].key = key BY FindNone
<1> QED BY <1>1, FindOf

LEMMA FindIsDeclared ==
    ASSUME NEW map, NEW kinds, IsMap(map, kinds), NEW key, Find(map, key) # NULL
    PROVE  DeclaredAs(Find(map, key), kinds) /\ astid(Find(map, key)).name = key
<1>1. PICK i \in DOMAIN map : map[i].key = key /\ map[i].id = Find(map, key) BY FindIs
<1>2. DeclaredAs(map[i].id, kinds) /\ astid(map[i].id).name = map[i].key BY DEF IsMap
<1> QED BY <1>1, <1>2

LEMMA IdsAreNotNull ==
    ASSUME NEW id, NEW kinds, DeclaredAs(id, kinds) PROVE id # NULL
BY DEF DeclaredAs, NULL

(* What is found stays found.                                                 *)
LEMMA PutKeepsMap ==
    ASSUME NEW map, NEW kinds, IsMap(map, kinds), NEW id, DeclaredAs(id, kinds)
    PROVE  /\ IsMap(Put(map, astid(id).name, id), kinds)
           /\ \A key : Find(map, key) # NULL =>
                  Find(Put(map, astid(id).name, id), key) = Find(map, key)
           /\ Find(Put(map, astid(id).name, id), astid(id).name) # NULL
           /\ Find(map, astid(id).name) = NULL =>
                  Find(Put(map, astid(id).name, id), astid(id).name) = id
<1> DEFINE name == astid(id).name
           new == Put(map, name, id)
           e == [key |-> name, id |-> id]
<1>1. CASE Find(map, name) # NULL BY <1>1 DEF Put
<1>2. CASE Find(map, name) = NULL
  <2>1. new = Append(map, e) BY <1>2 DEF Put
  <2>2. IsSeq(map) /\ Len(map) \in Nat /\ DOMAIN map = 1 .. Len(map)
    BY IsSeqProperties DEF IsMap
  <2>3. /\ IsSeq(new) /\ Len(new) = Len(map) + 1 /\ new[Len(map) + 1] = e
        /\ \A i \in 1 .. Len(map) : new[i] = map[i]
    BY <2>1, <2>2, AppendSeq
  <2>4. DOMAIN new = 1 .. Len(map) + 1 BY <2>3, IsSeqProperties
  <2>5. \A i \in DOMAIN map : map[i].key # name
    <3> SUFFICES ASSUME NEW i \in DOMAIN map, map[i].key = name PROVE FALSE OBVIOUS
    <3>1. Find(map, name) = map[i].id BY FindOf
    <3>2. DeclaredAs(map[i].id, kinds) BY DEF IsMap
    <3> QED BY <1>2, <3>1, <3>2, IdsAreNotNull
  <2>6. \A i \in DOMAIN new : i \in DOMAIN map \/ (i = Len(map) + 1 /\ new[i] = e)
    BY <2>2, <2>3, <2>4
  <2>7. \A i \in DOMAIN map : new[i] = map[i] /\ i \in DOMAIN new BY <2>2, <2>3, <2>4
  <2> HIDE DEF new
  <2>8. IsMap(new, kinds)
    <3>1. e.key = name /\ e.id = id OBVIOUS
    <3> HIDE DEF e, name
    <3>2. ASSUME NEW i \in DOMAIN new
          PROVE  /\ DeclaredAs(new[i].id, kinds) /\ astid(new[i].id).name = new[i].key
                 /\ \A j \in DOMAIN new : new[j].key = new[i].key => j = i
      <4>1. CASE i \in DOMAIN map
        <5>1. /\ new[i] = map[i] /\ map[i].key # name
              /\ DeclaredAs(map[i].id, kinds) /\ astid(map[i].id).name = map[i].key
              /\ \A j \in DOMAIN map : map[j].key = map[i].key => j = i
          BY <2>5, <2>7, <4>1 DEF IsMap
        <5> QED BY <2>6, <2>7, <3>1, <5>1
      <4>2. CASE i = Len(map) + 1 /\ new[i] = e
        <5>1. astid(id).name = name BY DEF name
        <5> QED BY <2>5, <2>6, <2>7, <3>1, <4>2, <5>1
      <4> QED BY <2>6, <4>1, <4>2
    <3> QED BY <2>3, <3>2 DEF IsMap
  <2>9. ASSUME NEW key, Find(map, key) # NULL PROVE Find(new, key) = Find(map, key)
    <3>1. PICK i \in DOMAIN map : map[i].key = key /\ map[i].id = Find(map, key)
      BY <2>9, FindIs
    <3>2. i \in DOMAIN new /\ new[i].key = key /\ new[i].id = Find(map, key) BY <2>7, <3>1
    <3> QED BY <2>8, <3>2, FindOf
  <2>10. Find(new, name) = id
    <3>1. Len(map) + 1 \in DOMAIN new BY <2>2, <2>4
    <3>2. new[Len(map) + 1].key = name /\ new[Len(map) + 1].id = id BY <2>3
    <3> QED BY <2>8, <3>1, <3>2, FindOf
  <2> QED BY <2>8, <2>9, <2>10, IdsAreNotNull DEF new
<1> QED BY <1>1, <1>2

-----------------------------------------------------------------------------
(* What every step keeps: the program, and what the maps know.                *)
KeepsMaps ==
    /\ prog' = prog /\ Maps /\ Maps'
    /\ \A key : Find(values_map, key) # NULL => Find(values_map, key)' = Find(values_map, key)

LEMMA SameAsts ==
    ASSUME prog' = prog PROVE asts_len' = asts_len /\ \A i : astid(i)' = astid(i)
BY DEF asts_len, astid

LEMMA SameDeclared ==
    ASSUME prog' = prog, NEW id, NEW kinds
    PROVE  DeclaredAs(id, kinds)' <=> DeclaredAs(id, kinds)
BY DEF DeclaredAs, asts_len, astid

LEMMA SameIsMap ==
    ASSUME prog' = prog, NEW map, NEW kinds, IsMap(map, kinds)
    PROVE  IsMap(map, kinds)'
BY DEF IsMap, DeclaredAs, asts_len, astid

LEMMA MapsStay ==
    ASSUME Maps, prog' = prog, values_map' = values_map, externs_map' = externs_map
    PROVE  KeepsMaps
<1>1. IsMap(values_map, {"FUNC", "PROC", "EXTERN"}) /\ IsMap(externs_map, {"EXTERN"}) BY DEF Maps
<1> QED BY <1>1 DEF KeepsMaps, Maps, IsMap, DeclaredAs, asts_len, astid, Find

(* What a call puts into values_map.                                          *)
LEMMA MapsGrow ==
    ASSUME Maps, prog' = prog, externs_map' = externs_map,
           NEW id, DeclaredAs(id, {"FUNC", "PROC", "EXTERN"}),
           values_map' = Put(values_map, astid(id).name, id)
    PROVE  KeepsMaps
<1> DEFINE kinds == {"FUNC", "PROC", "EXTERN"}
           new == Put(values_map, astid(id).name, id)
<1>1. IsMap(values_map, kinds) /\ IsMap(externs_map, {"EXTERN"}) BY DEF Maps
<1>2. /\ IsMap(new, kinds)
      /\ \A key : Find(values_map, key) # NULL => Find(new, key) = Find(values_map, key)
  BY <1>1, PutKeepsMap
<1> HIDE DEF new
<1>3. values_map' = new BY DEF new
<1>4. Maps' BY <1>1, <1>2, <1>3 DEF Maps, IsMap, DeclaredAs, asts_len, astid
<1>5. \A key : Find(values_map, key)' = Find(new, key) BY <1>3 DEF Find
<1> QED BY <1>2, <1>4, <1>5 DEF KeepsMaps

LEMMA AstOf ==
    ASSUME IsProgram(prog)
    PROVE  /\ asts_len \in Nat
           /\ \A i \in 0 .. asts_len : IsAst(astid(i), -1 .. asts_len)
           /\ \A i \in 0 .. asts_len : astid(i).next \in -1 .. asts_len
BY DEF IsProgram, IsAst, asts_len, astid

LEMMA KindsOfArgs ==
    ASSUME NEW args, IsSeq(args), \A i \in DOMAIN args : args[i].kind \in Declarable
    PROVE  /\ ArgKinds(args) \in Seq(Kinds) /\ IsSeq(ArgKinds(args))
           /\ Len(ArgKinds(args)) = Len(args) /\ Len(args) \in Nat
<1>1. Len(args) \in Nat /\ DOMAIN args = 1 .. Len(args) BY IsSeqProperties
<1>2. \A i \in DOMAIN args : args[i].kind \in Kinds BY DEF Declarable
<1>3. ArgKinds(args) \in [1 .. Len(args) -> Kinds] BY <1>1, <1>2 DEF ArgKinds
<1>4. ArgKinds(args) \in Seq(Kinds) /\ Len(ArgKinds(args)) = Len(args) BY <1>1, <1>3
<1> QED BY <1>1, <1>4, SeqIsSeq

LEMMA ReversedKinds ==
    ASSUME NEW S, NEW s \in Seq(S)
    PROVE  Reversed(s) \in Seq(S) /\ Len(Reversed(s)) = Len(s) /\ Len(s) \in Nat
<1>1. Len(s) \in Nat /\ \A i \in 1 .. Len(s) : s[i] \in S BY LenProperties, ElementOfSeq
<1>2. \A i \in 1 .. Len(s) : Len(s) + 1 - i \in 1 .. Len(s) BY <1>1
<1>3. Reversed(s) \in [1 .. Len(s) -> S] BY <1>1, <1>2 DEF Reversed
<1> QED BY <1>1, <1>3

LEMMA DeclarableIsKinds == Seq(Declarable) \subseteq Seq(Kinds)
<1>1. Declarable \subseteq Kinds BY DEF Declarable
<1> SUFFICES ASSUME NEW s \in Seq(Declarable) PROVE s \in Seq(Kinds) OBVIOUS
<1>2. Len(s) \in Nat /\ s \in [1 .. Len(s) -> Declarable] BY LenProperties
<1>3. s \in [1 .. Len(s) -> Kinds] BY <1>1, <1>2
<1> QED BY <1>2, <1>3

(* What the parser knows of a routine.                                        *)
LEMMA SignatureOf ==
    ASSUME IsProgram(prog), NEW id, DeclaredAs(id, {"FUNC", "PROC", "EXTERN"})
    PROVE  /\ id \in Nat /\ id # NULL
           /\ astid(id).name # START
           /\ IsSeq(astid(id).args) /\ Len(astid(id).args) \in Nat
           /\ \A i \in DOMAIN astid(id).args : astid(id).args[i].kind \in Declarable
           /\ ArgKinds(astid(id).args) \in Seq(Kinds) /\ IsSeq(ArgKinds(astid(id).args))
           /\ Len(ArgKinds(astid(id).args)) = Len(astid(id).args)
           /\ astid(id).rets \in Seq(Declarable) /\ astid(id).rets \in Seq(Kinds)
           /\ Reversed(astid(id).rets) \in Seq(Kinds)
           /\ Len(Reversed(astid(id).rets)) = Len(astid(id).rets)
           /\ astid(id).kind = "PROC" => astid(id).rets = <<>>
           /\ astid(id).kind # "EXTERN" => /\ astid(id).body \in -1 .. asts_len
                                           /\ astid(id).inlin \in BOOLEAN
<1>1. id \in 0 .. asts_len - 1 /\ astid(id).kind \in {"FUNC", "PROC", "EXTERN"} BY DEF DeclaredAs
<1>2. asts_len \in Nat BY AstOf
<1>3. id \in 0 .. asts_len BY <1>1, <1>2
<1>4. IsAst(astid(id), -1 .. asts_len) BY <1>3, AstOf
<1>5. IsSignature(astid(id)) BY <1>1, <1>4 DEF IsAst
<1>6. /\ IsSeq(astid(id).args) /\ astid(id).rets \in Seq(Declarable) /\ astid(id).name # START
      /\ \A i \in DOMAIN astid(id).args : astid(id).args[i].kind \in Declarable
  BY <1>5 DEF IsSignature
<1>7. astid(id).rets \in Seq(Kinds) BY <1>6, DeclarableIsKinds
<1>8. /\ astid(id).kind = "PROC" => astid(id).rets = <<>>
      /\ astid(id).kind # "EXTERN" => /\ astid(id).body \in -1 .. asts_len
                                      /\ astid(id).inlin \in BOOLEAN
  BY <1>1, <1>4 DEF IsAst
<1>9. id \in Nat /\ id # NULL BY <1>1 DEF NULL
<1> QED BY <1>6, <1>7, <1>8, <1>9, KindsOfArgs, ReversedKinds

-----------------------------------------------------------------------------
(* Open blocks.  A step leaves the outer ones as they are, and moves the last *)
(* one past its current AST or opens one block in it.                         *)
Alike(f, g) ==
    /\ DOMAIN f = DOMAIN g
    /\ f.block = g.block /\ f.of = g.of /\ f.node = g.node /\ f.label = g.label
    /\ f.entry = g.entry /\ f.saved = g.saved /\ f.under = g.under /\ f.marks = g.marks
Moved(m) ==
    /\ m \in 1 .. Len(work) /\ IsSeq(work') /\ Len(work') = m
    /\ \A k \in 1 .. m : Alike(work'[k], work[k])
    /\ \A k \in 1 .. m - 1 : work'[k].cur = work[k].cur
    /\ work'[m].cur \in -1 .. asts_len
Opened(m) ==
    /\ m \in 1 .. Len(work) /\ IsSeq(work') /\ Len(work') = m + 1
    /\ \A k \in 1 .. m : work'[k] = work[k]

LEMMA BlockStays ==
    ASSUME KeepsMaps, work[1].node # NULL, NEW k, IsBlock(k), Alike(work'[1], work[1]), Alike(work'[k], work[k]),
           work'[k].cur \in -1 .. asts_len,
           k > 1 => Alike(work'[k - 1], work[k - 1]) /\ work'[k - 1].cur = work[k - 1].cur
    PROVE  IsBlock(k)'
<1> DEFINE f == work[k]
           g == work'[k]
<1>1. asts_len' = asts_len /\ \A i : astid(i)' = astid(i) BY SameAsts DEF KeepsMaps
<1>2. /\ DOMAIN g = DOMAIN f
      /\ g.block = f.block /\ g.of = f.of /\ g.node = f.node /\ g.label = f.label
      /\ g.entry = f.entry /\ g.saved = f.saved /\ g.under = f.under /\ g.marks = f.marks
      /\ work'[1].of = work[1].of /\ work'[1].node = work[1].node
  BY DEF Alike
<1>3. IsActivation(work[k])'
  <2>1. IsActivation(f) BY DEF IsBlock
  <2>2. /\ DOMAIN f = {"block", "of", "node", "cur", "label", "entry", "saved", "under", "marks"}
        /\ f.cur \in -1 .. asts_len /\ f.label \in Nat /\ f.entry \in Seq(Kinds)
        /\ f.under \in Seq(Kinds) /\ f.marks \in Seq(Nat) /\ f.marks # <<>>
        /\ DeclaredAs(f.node, {"FUNC", "PROC"}) /\ IsContext(f.saved)
        /\ f.of # START /\ f.of = work[1].of /\ Find(values_map, f.of) = work[1].node
    BY <2>1 DEF IsActivation
  <2>3. DeclaredAs(f.node, {"FUNC", "PROC"})' BY <1>1, <1>2, <2>2 DEF DeclaredAs
  <2>4. IsContext(f.saved)' BY <1>1, <1>2, <2>2 DEF IsContext
  <2>5. Find(values_map, f.of)' = Find(values_map, f.of)
    <3>1. Find(values_map, f.of) # NULL BY <2>2
    <3> QED BY <1>2, <3>1 DEF KeepsMaps
  <2> QED BY <1>1, <1>2, <2>1, <2>3, <2>4, <2>5 DEF IsActivation
<1>4. (IF Len(work[k].marks) = 1 THEN OfRoutine(work[k]) ELSE OfInlined(work[k]))'
  BY <1>1, <1>2 DEF IsBlock, OfRoutine, OfInlined, ArgKinds
<1>5. (k > 1 => Encloses(work[k - 1], work[k]))' BY <1>1, <1>2 DEF IsBlock, Encloses
<1>6. ((k > 1 /\ ~Expands(k)) => Within(work[k], work[k - 1]))'
  BY <1>2 DEF IsBlock, Within, Alike, Expands
<1> QED BY <1>2, <1>3, <1>4, <1>5, <1>6 DEF IsBlock

LEMMA OutermostIs ==
    ASSUME Activations, work # <<>>
    PROVE  /\ Len(work) \in Nat \ {0} /\ DOMAIN work = 1 .. Len(work) /\ IsSeq(work)
           /\ DeclaredAs(work[1].node, {"FUNC", "PROC"}) /\ work[1].node # NULL
<1>1. IsSeq(work) BY DEF Activations
<1>2. Len(work) \in Nat \ {0} /\ DOMAIN work = 1 .. Len(work)
  <2>1. work \in Seq({work[i] : i \in DOMAIN work}) BY <1>1 DEF IsSeq
  <2> QED BY <2>1
<1>3. IsBlock(1) BY <1>2 DEF Activations
<1> QED BY <1>1, <1>2, <1>3, IdsAreNotNull DEF IsBlock, IsActivation

LEMMA BlocksMove ==
    ASSUME Activations, KeepsMaps, NEW m, Moved(m) PROVE Activations'
<1>1. /\ m \in 1 .. Len(work) /\ IsSeq(work') /\ Len(work') = m
      /\ \A k \in 1 .. m : Alike(work'[k], work[k])
      /\ \A k \in 1 .. m - 1 : work'[k].cur = work[k].cur
      /\ work'[m].cur \in -1 .. asts_len
  BY DEF Moved
<1>2. work # <<>> BY <1>1
<1>3. /\ Len(work) \in Nat /\ DOMAIN work = 1 .. Len(work) /\ work[1].node # NULL
      /\ \A k \in 1 .. Len(work) : IsBlock(k)
  BY <1>2, OutermostIs DEF Activations
<1>4. DOMAIN work' = 1 .. m BY <1>1, IsSeqProperties
<1>5. ASSUME NEW k \in 1 .. m PROVE IsBlock(k)'
  <2>1. k \in 1 .. Len(work) /\ 1 \in 1 .. m /\ (k > 1 => k - 1 \in 1 .. m - 1 /\ k - 1 \in 1 .. m)
    BY <1>1, <1>3
  <2>2. work'[k].cur \in -1 .. asts_len
    <3>1. CASE k = m BY <1>1, <3>1
    <3>2. CASE k # m
      <4>1. k \in 1 .. m - 1 BY <1>1, <1>3, <3>2
      <4>2. work[k].cur \in -1 .. asts_len BY <1>3, <2>1 DEF IsBlock, IsActivation
      <4> QED BY <1>1, <4>1, <4>2
    <3> QED BY <3>1, <3>2
  <2>3. IsBlock(k) BY <1>3, <2>1
  <2> QED BY <1>1, <1>3, <2>1, <2>2, <2>3, BlockStays
<1> QED BY <1>1, <1>4, <1>5 DEF Activations

LEMMA BlocksOpen ==
    ASSUME Activations, KeepsMaps, NEW m, Opened(m), IsBlock(m + 1)' PROVE Activations'
<1>1. /\ m \in 1 .. Len(work) /\ IsSeq(work') /\ Len(work') = m + 1
      /\ \A k \in 1 .. m : work'[k] = work[k]
  BY DEF Opened
<1>2. work # <<>> BY <1>1
<1>3. /\ Len(work) \in Nat /\ DOMAIN work = 1 .. Len(work) /\ work[1].node # NULL
      /\ \A k \in 1 .. Len(work) : IsBlock(k)
  BY <1>2, OutermostIs DEF Activations
<1>4. DOMAIN work' = 1 .. m + 1 BY <1>1, IsSeqProperties
<1>5. ASSUME NEW k \in 1 .. m PROVE IsBlock(k)'
  <2>1. k \in 1 .. Len(work) /\ 1 \in 1 .. m /\ (k > 1 => k - 1 \in 1 .. m) BY <1>1, <1>3
  <2>2. work'[k].cur \in -1 .. asts_len BY <1>1, <1>3, <2>1 DEF IsBlock, IsActivation
  <2>3. IsBlock(k) BY <1>3, <2>1
  <2>4. \A j \in 1 .. m : Alike(work'[j], work[j]) /\ work'[j].cur = work[j].cur BY <1>1 DEF Alike
  <2> QED BY <1>3, <2>1, <2>2, <2>3, <2>4, BlockStays
<1>6. \A k \in 1 .. m + 1 : k \in 1 .. m \/ k = m + 1 BY <1>1, <1>3
<1> QED BY <1>1, <1>4, <1>5, <1>6 DEF Activations

(* The bodies of the first n blocks are those they were.                      *)
SameBodies(n) == \A k \in 1 .. n : work'[k].block = work[k].block /\ work'[k].node = work[k].node

LEMMA BodiesStay ==
    ASSUME NEW m, Moved(m) \/ Opened(m)
    PROVE  SameBodies(m) /\ \A k \in 1 .. m : work'[k].saved = work[k].saved
BY DEF Moved, Opened, Alike, SameBodies

LEMMA SameExpanded ==
    ASSUME prog' = prog, NEW n, SameBodies(n), NEW k \in 1 .. n
    PROVE  /\ Expands(k)' = Expands(k) /\ Decl(k)' = Decl(k)
           /\ \A kind : Expanded(k, kind)' = Expanded(k, kind)
BY SameAsts DEF SameBodies, Expands, Decl, Expanded

LEMMA SameLastExpanded ==
    ASSUME prog' = prog, NEW m \in Nat, SameBodies(m), NEW n \in 0 .. m, NEW kind, NEW id,
           LastExpanded(kind, n, id)
    PROVE  LastExpanded(kind, n, id)'
<1>1. \A k \in 1 .. n : k \in 1 .. m OBVIOUS
<1>2. \A k \in 1 .. n : /\ Expanded(k, kind)' = Expanded(k, kind)
                        /\ work'[k].node = work[k].node
  BY <1>1, SameExpanded DEF SameBodies
<1>3. \A k \in 1 .. n : \A j \in k + 1 .. n : j \in 1 .. n OBVIOUS
<1> QED BY <1>2, <1>3 DEF LastExpanded

LEMMA LastExpandedBelow ==
    ASSUME NEW n \in Nat \ {0}, NEW kind, NEW id, ~Expanded(n, kind)
    PROVE  LastExpanded(kind, n, id) <=> LastExpanded(kind, n - 1, id)
<1>1. \A k \in 1 .. n : k \in 1 .. n - 1 \/ k = n OBVIOUS
<1>2. \A k \in 1 .. n - 1 : k \in 1 .. n /\ n \in k + 1 .. n OBVIOUS
<1>3. \A k \in 1 .. n : \A j \in k + 1 .. n : j \in k + 1 .. n - 1 \/ j = n OBVIOUS
<1>4. \A k \in 1 .. n : \A j \in k + 1 .. n - 1 : j \in k + 1 .. n OBVIOUS
<1> QED BY <1>1, <1>2, <1>3, <1>4 DEF LastExpanded

LEMMA LastExpandedHere ==
    ASSUME NEW n \in Nat \ {0}, NEW kind, Expanded(n, kind)
    PROVE  LastExpanded(kind, n, work[n].node)
<1>1. n \in 1 .. n /\ \A j \in n + 1 .. n : FALSE OBVIOUS
<1> QED BY <1>1 DEF LastExpanded

-----------------------------------------------------------------------------
(* The two contexts.                                                          *)
LEMMA NoneExpanded ==
    ASSUME Activations, NEW n \in 0 .. Len(work), NEW kind, LastExpanded(kind, n, NULL)
    PROVE  \A k \in 1 .. n : ~Expanded(k, kind)
<1>1. CASE n = 0 BY <1>1
<1>2. CASE n # 0
  <2>1. DOMAIN work = 1 .. Len(work) /\ Len(work) \in Nat BY IsSeqProperties DEF Activations
  <2>2. \A k \in 1 .. n : k \in DOMAIN work BY <2>1
  <2>3. ASSUME NEW k \in 1 .. n PROVE work[k].node # NULL
    <3>1. DeclaredAs(work[k].node, {"FUNC", "PROC"})
      BY <2>2 DEF Activations, IsBlock, IsActivation
    <3> QED BY <3>1, IdsAreNotNull
  <2> QED BY <2>3 DEF LastExpanded
<1> QED BY <1>1, <1>2

LEMMA OutermostExpands ==
    ASSUME Activations, work # <<>>
    PROVE  Expanded(1, "PROC") \/ Expanded(1, "FUNC")
<1>1. 1 \in DOMAIN work /\ DeclaredAs(work[1].node, {"FUNC", "PROC"}) BY OutermostIs
<1>2. work[1].block = "routine" BY <1>1 DEF Activations, IsBlock
<1> QED BY <1>1, <1>2 DEF Expanded, Expands, Decl, DeclaredAs

LEMMA OneIsCurrent ==
    ASSUME Activations, NEW n \in 1 .. Len(work), NEW p, NEW f,
           LastExpanded("PROC", n, p), LastExpanded("FUNC", n, f)
    PROVE  p # NULL \/ f # NULL
<1>1. work # <<>>
  <2> SUFFICES ASSUME work = <<>> PROVE FALSE OBVIOUS
  <2> QED OBVIOUS
<1>2. Len(work) \in Nat BY <1>1, OutermostIs
<1>3. 1 \in 1 .. n /\ n \in 0 .. Len(work) BY <1>2
<1> QED BY <1>1, <1>3, NoneExpanded, OutermostExpands

LEMMA CurrentContext ==
    ASSUME Activations, Contexts, work # <<>>
    PROVE  /\ IsContext(proc_ctx) /\ IsContext(func_ctx) /\ IsContext(Ctx)
           /\ Ctx.stmt # NULL /\ (~InProc => func_ctx.stmt # NULL)
           /\ Types \in Seq(Kinds) /\ Len(Types) \in Nat /\ DOMAIN Types = 1 .. Len(Types)
           /\ IsSeq(Types)
           /\ ~InProc => \A k \in DOMAIN work : ~Expanded(k, "PROC")
<1>1. IsContext(proc_ctx) /\ IsContext(func_ctx) BY DEF Contexts
<1>2. Len(work) \in 1 .. Len(work) /\ Len(work) \in 0 .. Len(work) /\ DOMAIN work = 1 .. Len(work)
  BY OutermostIs
<1>3. proc_ctx.stmt # NULL \/ func_ctx.stmt # NULL BY <1>2, OneIsCurrent DEF Contexts
<1>4. IsContext(Ctx) /\ Ctx.stmt # NULL BY <1>1, <1>3 DEF Ctx, InProc
<1>5. Types \in Seq(Kinds) BY <1>4 DEF IsContext, Types
<1>6. ~InProc => \A k \in DOMAIN work : ~Expanded(k, "PROC")
  BY <1>2, NoneExpanded DEF InProc, Contexts
<1> QED BY <1>1, <1>3, <1>4, <1>5, <1>6, LenProperties, SeqIsSeq DEF InProc

(* The contexts go on being those of the same routines.                       *)
SameStmts ==
    /\ IsContext(proc_ctx)' /\ IsContext(func_ctx)'
    /\ proc_ctx'.stmt = proc_ctx.stmt /\ func_ctx'.stmt = func_ctx.stmt

LEMMA ContextsStay ==
    ASSUME Contexts, prog' = prog, proc_ctx' = proc_ctx, func_ctx' = func_ctx
    PROVE  SameStmts
BY SameAsts DEF Contexts, SameStmts, IsContext

LEMMA SetTypesKeeps ==
    ASSUME Activations, Contexts, work # <<>>, prog' = prog, NEW ts \in Seq(Kinds), SetTypes(ts)
    PROVE  SameStmts /\ Ctx' = [Ctx EXCEPT !.types = ts] /\ Types' = ts /\ (InProc' <=> InProc)
<1>1. IsContext(proc_ctx) /\ IsContext(func_ctx) /\ (~InProc => func_ctx.stmt # NULL)
  BY CurrentContext
<1>2. asts_len' = asts_len BY SameAsts
<1>3. CASE InProc
  <2>1. proc_ctx' = [proc_ctx EXCEPT !.types = ts] /\ func_ctx' = func_ctx BY <1>3 DEF SetTypes
  <2>2. /\ proc_ctx.stmt # NULL
        /\ proc_ctx \in [stmt : -1 .. asts_len - 1, types : Seq(Kinds), called_funcptr : {FALSE}]
    BY <1>1, <1>3 DEF InProc, IsContext
  <2>3. /\ proc_ctx' \in [stmt : -1 .. asts_len - 1, types : Seq(Kinds), called_funcptr : {FALSE}]
        /\ proc_ctx'.stmt = proc_ctx.stmt /\ proc_ctx'.types = ts
    BY <2>1, <2>2
  <2>4. IsContext(proc_ctx)' /\ IsContext(func_ctx)' BY <1>1, <1>2, <2>1, <2>2, <2>3 DEF IsContext
  <2>5. InProc' BY <2>2, <2>3 DEF InProc
  <2> QED BY <1>3, <2>1, <2>3, <2>4, <2>5 DEF SameStmts, Ctx, Types
<1>4. CASE ~InProc
  <2>1. func_ctx' = [func_ctx EXCEPT !.types = ts] /\ proc_ctx' = proc_ctx BY <1>4 DEF SetTypes
  <2>2. /\ func_ctx.stmt # NULL
        /\ func_ctx \in [stmt : -1 .. asts_len - 1, types : Seq(Kinds), called_funcptr : {FALSE}]
    BY <1>1, <1>4 DEF IsContext
  <2>3. /\ func_ctx' \in [stmt : -1 .. asts_len - 1, types : Seq(Kinds), called_funcptr : {FALSE}]
        /\ func_ctx'.stmt = func_ctx.stmt /\ func_ctx'.types = ts
    BY <2>1, <2>2
  <2>4. IsContext(proc_ctx)' /\ IsContext(func_ctx)' BY <1>1, <1>2, <2>1, <2>2, <2>3 DEF IsContext
  <2>5. ~InProc' BY <1>4, <2>1 DEF InProc
  <2> QED BY <1>4, <2>1, <2>3, <2>4, <2>5 DEF SameStmts, Ctx, Types
<1> QED BY <1>3, <1>4

LEMMA ContextsKeep ==
    ASSUME Activations, Contexts, prog' = prog, SameStmts, NEW m, Moved(m) \/ Opened(m),
           m = Len(work) \/ (m = Len(work) - 1 /\ ~Expands(Len(work))),
           Opened(m) => ~Expands(m + 1)'
    PROVE  Contexts'
<1>1. m \in 1 .. Len(work) /\ IsSeq(work') /\ (Len(work') = m \/ Len(work') = m + 1)
      /\ (Len(work') = m + 1 => Opened(m))
  <2>1. CASE Moved(m)
    <3>1. Len(work') = m /\ m \in 1 .. Len(work) BY <2>1 DEF Moved
    <3>2. m \in Nat BY <3>1
    <3> QED BY <2>1, <3>1, <3>2 DEF Moved
  <2>2. CASE Opened(m) BY <2>2 DEF Opened
  <2> QED BY <2>1, <2>2
<1>2. work # <<>> BY <1>1
<1>3. Len(work) \in Nat \ {0} /\ DOMAIN work = 1 .. Len(work) BY <1>2, OutermostIs
<1>4. DOMAIN work' = 1 .. Len(work') BY <1>1, IsSeqProperties
<1>5. SameBodies(m) /\ \A k \in 1 .. m : work'[k].saved = work[k].saved BY BodiesStay
<1>6. m \in Nat /\ m \in 0 .. m BY <1>1
<1>7. ASSUME NEW kind, NEW id, LastExpanded(kind, Len(work), id)
      PROVE  LastExpanded(kind, Len(work), id)'
  <2>1. LastExpanded(kind, m, id)
    <3>1. ~Expands(Len(work)) => ~Expanded(Len(work), kind) BY DEF Expanded
    <3> QED BY <1>3, <1>7, <3>1, LastExpandedBelow
  <2>2. LastExpanded(kind, m, id)' BY <1>5, <1>6, <2>1, SameLastExpanded
  <2>3. CASE Len(work') = m BY <2>2, <2>3
  <2>4. CASE Len(work') = m + 1
    <3>1. (~Expanded(m + 1, kind))' BY <1>1, <2>4 DEF Expanded
    <3>2. m + 1 \in Nat \ {0} /\ m + 1 - 1 = m BY <1>6
    <3>3. LastExpanded(kind, m + 1, id)'
      <4> DEFINE n == m + 1
      <4>1. \A k \in 1 .. n : k \in 1 .. m \/ k = n BY <1>6
      <4>2. \A k \in 1 .. m : k \in 1 .. n BY <1>6
      <4>3. \A k \in 1 .. m : \A j \in k + 1 .. n : j \in k + 1 .. m \/ j = n BY <1>6
      <4> HIDE DEF n
      <4>4. (~Expanded(n, kind))' BY <3>1 DEF n
      <4>5. LastExpanded(kind, n, id)' BY <2>2, <4>1, <4>2, <4>3, <4>4 DEF LastExpanded
      <4> QED BY <4>5 DEF n
    <3> QED BY <2>4, <3>3
  <2> QED BY <1>1, <2>3, <2>4
<1>8. ASSUME NEW k \in DOMAIN work', work'[k].block = "inline"
      PROVE  LastExpanded(Decl(k).kind, k - 1, work[k].saved.stmt)'
  <2>0. k \in 1 .. Len(work') BY <1>4, <1>8
  <2>1. k \in 1 .. m
    <3>1. ASSUME k = m + 1 PROVE FALSE
      <4>1. Len(work') = m + 1 BY <1>1, <1>6, <2>0, <3>1
      <4>2. (~Expands(k))' BY <1>1, <4>1, <3>1
      <4> QED BY <1>8, <4>2 DEF Expands
    <3> QED BY <1>1, <1>6, <2>0, <3>1
  <2>2. k \in DOMAIN work /\ k - 1 \in 0 .. m
    <3>1. m \in Nat /\ m \in 1 .. Len(work) BY <1>1, <1>6
    <3>2. Len(work) \in Nat BY <1>3
    <3>3. k \in 1 .. Len(work) /\ k - 1 \in 0 .. m BY <2>1, <3>1, <3>2
    <3> QED BY <1>3, <3>3
  <2>3. work[k].block = "inline" BY <1>5, <1>8, <2>1 DEF SameBodies
  <2>4. LastExpanded(Decl(k).kind, k - 1, work[k].saved.stmt) BY <2>2, <2>3 DEF Contexts
  <2>5. Decl(k)' = Decl(k) /\ work'[k].saved = work[k].saved BY <1>5, <2>1, SameExpanded
  <2>6. PICK x, y : x = Decl(k).kind /\ y = work[k].saved.stmt OBVIOUS
  <2>7. LastExpanded(x, k - 1, y) BY <2>4, <2>6
  <2>8. LastExpanded(x, k - 1, y)' BY <1>5, <1>6, <2>2, <2>7, SameLastExpanded
  <2>9. x = (Decl(k).kind)' /\ y = (work[k].saved.stmt)' BY <2>5, <2>6
  <2> QED BY <2>8, <2>9 DEF LastExpanded
<1>9. (LastExpanded("PROC", Len(work), proc_ctx.stmt) /\ LastExpanded("FUNC", Len(work), func_ctx.stmt))'
  <2>1. PICK x, y : x = proc_ctx.stmt /\ y = func_ctx.stmt OBVIOUS
  <2>2. LastExpanded("PROC", Len(work), x) /\ LastExpanded("FUNC", Len(work), y)
    BY <2>1 DEF Contexts
  <2>3. LastExpanded("PROC", Len(work), x)' /\ LastExpanded("FUNC", Len(work), y)'
    BY <1>7, <2>2
  <2>4. x = proc_ctx'.stmt /\ y = func_ctx'.stmt BY <2>1 DEF SameStmts
  <2> QED BY <2>3, <2>4 DEF LastExpanded
<1> QED BY <1>8, <1>9 DEF Contexts, SameStmts

LEMMA OneBodyKept ==
    ASSUME OneBody, prog' = prog, NEW m, IsSeq(work), Moved(m) \/ Opened(m),
           Opened(m) => (Expands(m + 1)' \/ work'[m + 1].node = work[m].node)
    PROVE  OneBody'
<1>1. m \in 1 .. Len(work) /\ IsSeq(work') BY DEF Moved, Opened
<1>2. Len(work) \in Nat /\ DOMAIN work = 1 .. Len(work) BY IsSeqProperties
<1>3. m \in Nat \ {0} BY <1>1, <1>2
<1>4. DOMAIN work' = 1 .. Len(work') BY <1>1, IsSeqProperties
<1>5. SameBodies(m) BY BodiesStay
<1>6. \A k \in 1 .. m : Expands(k)' = Expands(k) /\ work'[k].node = work[k].node
  BY <1>5, SameExpanded DEF SameBodies
<1>7. ASSUME NEW k \in 1 .. m, NEW j \in 1 .. k, \A n \in j + 1 .. k : ~Expands(n)'
      PROVE  work'[j].node = work'[k].node
  <2>1. k \in 1 .. Len(work) /\ j \in 1 .. m /\ \A n \in j + 1 .. k : n \in 1 .. m
    BY <1>1, <1>2, <1>3
  <2>2. k \in DOMAIN work /\ \A n \in j + 1 .. k : ~Expands(n) BY <1>2, <1>6, <1>7, <2>1
  <2> QED BY <1>6, <2>1, <2>2 DEF OneBody
<1>8. CASE Moved(m)
  <2>1. Len(work') = m BY <1>8 DEF Moved
  <2>2. \A k \in DOMAIN work' : k \in 1 .. m BY <1>4, <2>1
  <2> QED BY <1>7, <2>2 DEF OneBody
<1>9. CASE Opened(m)
  <2>1. Len(work') = m + 1 BY <1>9 DEF Opened
  <2> DEFINE n == m + 1
  <2>2. \A k \in DOMAIN work' : k \in 1 .. m \/ k = n BY <1>3, <1>4, <2>1
  <2>3. ASSUME NEW j \in 1 .. n, \A i \in j + 1 .. n : ~Expands(i)'
        PROVE  work'[j].node = work'[n].node
    <3>1. CASE j = n BY <3>1
    <3>2. CASE j # n
      <4>1. /\ j \in 1 .. m /\ m \in 1 .. m /\ n \in j + 1 .. n
            /\ \A i \in j + 1 .. m : i \in j + 1 .. n
        BY <1>3, <3>2
      <4>2. ~Expands(n)' BY <2>3, <4>1
      <4>3. work'[n].node = work'[m].node BY <1>6, <1>9, <4>1, <4>2
      <4>4. work'[j].node = work'[m].node BY <1>7, <2>3, <4>1
      <4> QED BY <4>3, <4>4
    <3> QED BY <3>1, <3>2
  <2> HIDE DEF n
  <2> QED BY <1>7, <2>2, <2>3 DEF OneBody
<1> QED BY <1>8, <1>9

LEMMA FunctionsFirstKept ==
    ASSUME FunctionsFirst, prog' = prog, NEW m, IsSeq(work), Moved(m) \/ Opened(m),
           Opened(m) => \/ ~Expands(m + 1)'
                        \/ Expanded(m + 1, "PROC")'
                        \/ \A k \in 1 .. m : ~Expanded(k, "PROC")
    PROVE  FunctionsFirst'
<1>1. m \in 1 .. Len(work) /\ IsSeq(work') BY DEF Moved, Opened
<1>2. Len(work) \in Nat /\ DOMAIN work = 1 .. Len(work) BY IsSeqProperties
<1>3. m \in Nat \ {0} BY <1>1, <1>2
<1>4. DOMAIN work' = 1 .. Len(work') BY <1>1, IsSeqProperties
<1>5. SameBodies(m) BY BodiesStay
<1>6. \A k \in 1 .. m : /\ Expands(k)' = Expands(k) /\ Decl(k)' = Decl(k)
                        /\ Expanded(k, "PROC")' = Expanded(k, "PROC")
  BY <1>5, SameExpanded
<1>7. ASSUME NEW k \in 1 .. m, NEW j \in 1 .. k, Expanded(j, "PROC")', Expands(k)'
      PROVE  Decl(k)'.kind = "PROC"
  <2>1. k \in 1 .. Len(work) /\ j \in 1 .. m BY <1>1, <1>2, <1>3
  <2> QED BY <1>2, <1>6, <1>7, <2>1 DEF FunctionsFirst
<1>8. CASE Moved(m)
  <2>1. Len(work') = m BY <1>8 DEF Moved
  <2>2. \A k \in DOMAIN work' : k \in 1 .. m BY <1>4, <2>1
  <2> QED BY <1>7, <2>2 DEF FunctionsFirst
<1>9. CASE Opened(m)
  <2>1. Len(work') = m + 1 BY <1>9 DEF Opened
  <2> DEFINE n == m + 1
  <2>2. \A k \in DOMAIN work' : k \in 1 .. m \/ k = n BY <1>3, <1>4, <2>1
  <2>3. ASSUME NEW j \in 1 .. n, Expanded(j, "PROC")', Expands(n)' PROVE Decl(n)'.kind = "PROC"
    <3>1. CASE j = n BY <2>3, <3>1 DEF Expanded
    <3>2. CASE j # n
      <4>1. j \in 1 .. m BY <1>3, <3>2
      <4>2. Expanded(n, "PROC")' BY <1>6, <1>9, <2>3, <4>1
      <4> QED BY <4>2 DEF Expanded
    <3> QED BY <3>1, <3>2
  <2> HIDE DEF n
  <2> QED BY <1>7, <2>2, <2>3 DEF FunctionsFirst
<1> QED BY <1>8, <1>9

-----------------------------------------------------------------------------
(* Labels.  A step appends s to the code.                                     *)
Appends(s) == IsSeq(code) /\ IsSeq(s) /\ code' = code \o s
Defines(s, l, n) == \E j \in 1 .. Len(s) : s[j].ins = Label(l, n)

LEMMA ConcatSeq ==
    ASSUME NEW s, IsSeq(s), NEW t, IsSeq(t)
    PROVE  /\ IsSeq(s \o t) /\ Len(s \o t) = Len(s) + Len(t)
           /\ \A i \in 1 .. Len(s) : (s \o t)[i] = s[i]
           /\ \A i \in 1 .. Len(t) : (s \o t)[Len(s) + i] = t[i]
<1>1. Len(s) \in Nat /\ Len(s) <= Len(s) BY IsSeqProperties
<1>2. s \in Seq({s[i] : i \in DOMAIN s}) BY DEF IsSeq
<1>3. SubSeq(s, 1, Len(s)) = s BY <1>2, SubSeqFull
<1>4. Onto(s, Len(s), t) = s \o t BY <1>3 DEF Onto
<1>5. /\ IsSeq(Onto(s, Len(s), t))
      /\ Len(Onto(s, Len(s), t)) = Len(s) + Len(t)
      /\ \A i \in 1 .. Len(s) : Onto(s, Len(s), t)[i] = s[i]
      /\ \A i \in 1 .. Len(t) : Onto(s, Len(s), t)[Len(s) + i] = t[i]
  <2>1. \A n \in Nat : n <= Len(s) =>
           /\ IsSeq(Onto(s, n, t)) /\ Len(Onto(s, n, t)) = n + Len(t)
           /\ \A i \in 1 .. n : Onto(s, n, t)[i] = s[i]
           /\ \A i \in 1 .. Len(t) : Onto(s, n, t)[n + i] = t[i]
    BY OntoProperties
  <2> QED BY <1>1, <2>1, Zenon
<1> QED BY <1>4, <1>5

LEMMA CodeGrows ==
    ASSUME NEW s, Appends(s)
    PROVE  /\ IsSeq(code') /\ Len(code') = Len(code) + Len(s)
           /\ Len(code) \in Nat /\ Len(s) \in Nat
           /\ DOMAIN code = 1 .. Len(code) /\ DOMAIN code' = 1 .. Len(code')
           /\ \A i \in DOMAIN code : i \in DOMAIN code' /\ code'[i] = code[i]
           /\ \A j \in 1 .. Len(s) : /\ Len(code) + j \in DOMAIN code' /\ Len(code) + j \notin DOMAIN code
                                     /\ code'[Len(code) + j] = s[j]
           /\ \A i \in DOMAIN code' : i \in DOMAIN code \/ \E j \in 1 .. Len(s) : i = Len(code) + j
<1>1. IsSeq(code) /\ IsSeq(s) /\ code' = code \o s BY DEF Appends
<1>2. /\ IsSeq(code') /\ Len(code') = Len(code) + Len(s)
      /\ \A i \in 1 .. Len(code) : code'[i] = code[i]
      /\ \A i \in 1 .. Len(s) : code'[Len(code) + i] = s[i]
  BY <1>1, ConcatSeq
<1>3. Len(code) \in Nat /\ Len(s) \in Nat /\ DOMAIN code = 1 .. Len(code) BY <1>1, IsSeqProperties
<1>4. DOMAIN code' = 1 .. Len(code') BY <1>2, IsSeqProperties
<1> DEFINE a == Len(code)
           b == Len(s)
<1>5. a \in Nat /\ b \in Nat /\ Len(code') = a + b BY <1>2, <1>3
<1>6. /\ \A i \in 1 .. a : i \in 1 .. a + b
      /\ \A j \in 1 .. b : a + j \in 1 .. a + b /\ a + j \notin 1 .. a
      /\ \A i \in 1 .. a + b : i \in 1 .. a \/ (i - a \in 1 .. b /\ i = a + (i - a))
  BY <1>5
<1>7. DOMAIN code = 1 .. a /\ DOMAIN code' = 1 .. a + b BY <1>3, <1>4, <1>5
<1> HIDE DEF a, b
<1>8. /\ \A i \in DOMAIN code : i \in DOMAIN code'
      /\ \A j \in 1 .. b : a + j \in DOMAIN code' /\ a + j \notin DOMAIN code
      /\ \A i \in DOMAIN code' : i \in DOMAIN code \/ \E j \in 1 .. b : i = a + j
  BY <1>6, <1>7
<1> QED BY <1>2, <1>3, <1>4, <1>8 DEF a, b

LEMMA LabelsGrow ==
    ASSUME NEW s, Appends(s), NEW l, NEW n
    PROVE  /\ Labels(l, n) \subseteq Labels(l, n)'
           /\ Labels(l, n)' # {} <=> (Labels(l, n) # {} \/ Defines(s, l, n))
<1>1. /\ \A i \in DOMAIN code : i \in DOMAIN code' /\ code'[i] = code[i]
      /\ \A j \in 1 .. Len(s) : /\ Len(code) + j \in DOMAIN code'
                                /\ code'[Len(code) + j] = s[j]
      /\ \A i \in DOMAIN code' : i \in DOMAIN code \/ \E j \in 1 .. Len(s) : i = Len(code) + j
  BY CodeGrows
<1>2. Labels(l, n) \subseteq Labels(l, n)' BY <1>1 DEF Labels
<1>3. ASSUME Defines(s, l, n) PROVE Labels(l, n)' # {}
  <2>1. PICK j \in 1 .. Len(s) : s[j].ins = [op |-> "label", l |-> l, n |-> n]
    BY <1>3 DEF Defines, Label
  <2>2. Len(code) + j \in Labels(l, n)' BY <1>1, <2>1 DEF Labels
  <2> QED BY <2>2
<1>4. ASSUME NEW i \in Labels(l, n)', i \notin Labels(l, n) PROVE Defines(s, l, n)
  <2>1. i \in DOMAIN code' /\ code'[i].ins = [op |-> "label", l |-> l, n |-> n] BY <1>4 DEF Labels
  <2>2. i \notin DOMAIN code BY <1>1, <1>4, <2>1 DEF Labels
  <2>3. PICK j \in 1 .. Len(s) : i = Len(code) + j BY <1>1, <2>1, <2>2
  <2> QED BY <1>1, <2>1, <2>3 DEF Defines, Label
<1> QED BY <1>2, <1>3, <1>4

(* The labels s defines are new, the jumps of s go to labels defined or still *)
(* awaited, and what was awaited is, or is now defined.                       *)
CounterAfter(l) == IF l \in {"else", "edon"} THEN label_counter' ELSE while_label_counter'
NewLabels(s) ==
    \A j \in 1 .. Len(s) : s[j].ins.op = "label" =>
        /\ s[j].ins = Label(s[j].ins.l, s[j].ins.n)
        /\ s[j].ins.n \in 0 .. CounterAfter(s[j].ins.l) - 1
        /\ Labels(s[j].ins.l, s[j].ins.n) = {}
        /\ \A i \in 1 .. Len(s) : s[i].ins = s[j].ins => i = j
Known(l, n) == Labels(l, n) # {} \/ \E k \in DOMAIN work : Awaits(k, l, n)
NewJumps(s) ==
    /\ \A j \in 1 .. Len(s) : s[j].ins.op \in {"jmp", "jz"} => Known(s[j].ins.l, s[j].ins.n)'
    /\ \A k \in DOMAIN work : \A l, n : Awaits(k, l, n) => Known(l, n)'
CountersGrow ==
    /\ label_counter \in Nat /\ while_label_counter \in Nat
    /\ label_counter' \in Nat /\ while_label_counter' \in Nat
    /\ label_counter <= label_counter' /\ while_label_counter <= while_label_counter'

LEMMA LabelsInCodeStep ==
    ASSUME LabelsInCode, NEW s, Appends(s), CountersGrow, NewLabels(s), NewJumps(s)
    PROVE  LabelsInCode'
<1>1. /\ IsSeq(code')
      /\ \A i \in DOMAIN code : i \in DOMAIN code' /\ code'[i] = code[i]
      /\ \A j \in 1 .. Len(s) : /\ Len(code) + j \in DOMAIN code' /\ Len(code) + j \notin DOMAIN code
                                /\ code'[Len(code) + j] = s[j]
      /\ \A i \in DOMAIN code' : i \in DOMAIN code \/ \E j \in 1 .. Len(s) : i = Len(code) + j
  BY CodeGrows
<1>2. ASSUME NEW l, NEW c, c \in 0 .. Counter(l) - 1 PROVE c \in 0 .. CounterAfter(l) - 1
  <2>1. /\ Counter(l) \in Nat /\ CounterAfter(l) \in Nat /\ Counter(l) <= CounterAfter(l)
    BY DEF CountersGrow, Counter, CounterAfter
  <2> QED BY <1>2, <2>1
<1>3. ASSUME NEW i \in LabelsAt, NEW j \in 1 .. Len(s), s[j].ins = code[i].ins PROVE FALSE
  <2>1. /\ i \in DOMAIN code /\ code[i].ins.op = "label"
        /\ code[i].ins = [op |-> "label", l |-> code[i].ins.l, n |-> code[i].ins.n]
    BY DEF LabelsInCode, LabelsAt
  <2>2. i \in Labels(code[i].ins.l, code[i].ins.n) BY <2>1 DEF Labels
  <2> QED BY <1>3, <2>1, <2>2 DEF NewLabels
<1>4. \A i \in LabelsAt' : i \in LabelsAt \/ \E j \in 1 .. Len(s) : /\ i = Len(code) + j
                                                                     /\ s[j].ins.op = "label"
  BY <1>1 DEF LabelsAt
<1>5. \A i \in LabelsAt : code'[i] = code[i] BY <1>1 DEF LabelsAt
<1>6. ASSUME NEW i \in LabelsAt
      PROVE  /\ code'[i].ins = [op |-> "label", l |-> code'[i].ins.l, n |-> code'[i].ins.n]
             /\ code'[i].ins.n \in 0 .. CounterAfter(code'[i].ins.l) - 1
             /\ \A j \in LabelsAt' : code'[j].ins = code'[i].ins => j = i
  <2>1. /\ code[i].ins = [op |-> "label", l |-> code[i].ins.l, n |-> code[i].ins.n]
        /\ code[i].ins.n \in 0 .. Counter(code[i].ins.l) - 1
        /\ \A j \in LabelsAt : code[j].ins = code[i].ins => j = i
    BY DEF LabelsInCode
  <2>2. code[i].ins.n \in 0 .. CounterAfter(code[i].ins.l) - 1 BY <1>2, <2>1
  <2>3. ASSUME NEW j \in LabelsAt', code'[j].ins = code'[i].ins PROVE j = i
    BY <1>1, <1>3, <1>4, <1>5, <2>1, <2>3, SMTT(30)
  <2>4. code'[i] = code[i] BY <1>5
  <2> QED BY <2>1, <2>2, <2>3, <2>4
<1>7. ASSUME NEW j \in 1 .. Len(s), s[j].ins.op = "label", NEW i, i = Len(code) + j
      PROVE  /\ code'[i].ins = [op |-> "label", l |-> code'[i].ins.l, n |-> code'[i].ins.n]
             /\ code'[i].ins.n \in 0 .. CounterAfter(code'[i].ins.l) - 1
             /\ \A k \in LabelsAt' : code'[k].ins = code'[i].ins => k = i
  <2>1. code'[i] = s[j] BY <1>1, <1>7
  <2>2. /\ s[j].ins = [op |-> "label", l |-> s[j].ins.l, n |-> s[j].ins.n]
        /\ s[j].ins.n \in 0 .. CounterAfter(s[j].ins.l) - 1
        /\ \A k \in 1 .. Len(s) : s[k].ins = s[j].ins => k = j
    BY <1>7 DEF NewLabels, Label
  <2>3. ASSUME NEW k \in LabelsAt', code'[k].ins = code'[i].ins PROVE k = i
    <3>1. CASE k \in LabelsAt BY <1>3, <1>5, <2>1, <2>3, <3>1
    <3>2. ASSUME NEW h \in 1 .. Len(s), k = Len(code) + h PROVE k = i
      BY <1>1, <1>7, <2>1, <2>2, <2>3, <3>2
    <3> QED BY <1>4, <3>1, <3>2
  <2> QED BY <2>1, <2>2, <2>3
<1>8. ASSUME NEW i \in JumpsAt' PROVE Known(code[i].ins.l, code[i].ins.n)'
  <2>1. i \in DOMAIN code' /\ code'[i].ins.op \in {"jmp", "jz"} BY DEF JumpsAt
  <2>2. CASE i \in DOMAIN code
    <3>1. PICK l, n : l = code[i].ins.l /\ n = code[i].ins.n OBVIOUS
    <3>2. Known(l, n)
      <4>1. i \in JumpsAt BY <1>1, <2>1, <2>2 DEF JumpsAt
      <4> QED BY <3>1, <4>1 DEF LabelsInCode, Known
    <3>3. Labels(l, n) \subseteq Labels(l, n)' BY LabelsGrow
    <3>4. Known(l, n)' BY <3>2, <3>3 DEF Known, NewJumps
    <3>5. l = code'[i].ins.l /\ n = code'[i].ins.n BY <1>1, <2>2, <3>1
    <3> QED BY <3>4, <3>5 DEF Known, Labels, Awaits
  <2>3. ASSUME NEW j \in 1 .. Len(s), i = Len(code) + j PROVE Known(code[i].ins.l, code[i].ins.n)'
    <3>1. PICK l, n : l = s[j].ins.l /\ n = s[j].ins.n OBVIOUS
    <3>2. code'[i] = s[j] BY <1>1, <2>3
    <3>3. Known(l, n)' BY <2>1, <3>1, <3>2 DEF NewJumps
    <3>4. l = code'[i].ins.l /\ n = code'[i].ins.n BY <3>1, <3>2
    <3> QED BY <3>3, <3>4 DEF Known, Labels, Awaits
  <2> QED BY <1>1, <2>1, <2>2, <2>3
<1>9. \A i \in LabelsAt' :
         /\ code'[i].ins = [op |-> "label", l |-> code'[i].ins.l, n |-> code'[i].ins.n]
         /\ code'[i].ins.n \in 0 .. CounterAfter(code'[i].ins.l) - 1
         /\ \A j \in LabelsAt' : code'[j].ins = code'[i].ins => j = i
  BY <1>4, <1>6, <1>7, ZenonT(30)
<1>10. \A l : Counter(l)' = CounterAfter(l) BY DEF Counter, CounterAfter
<1> QED BY <1>1, <1>8, <1>9, <1>10 DEF LabelsInCode, Known, Counter

(* The block opened in the first m ones has a label that is its own.          *)
Newcomer(m) ==
    LET f == work'[m + 1]
    IN /\ f.block \in BranchBlocks => f.label < label_counter'
       /\ f.block \in LoopBlocks => /\ f.label < while_label_counter'
                                    /\ \E i \in DOMAIN code' : code'[i].ins = Label("while", f.label)
       /\ \A l \in Awaited(f.block) : \A i \in DOMAIN code' : code'[i].ins # Label(l, f.label)
       /\ \A j \in 1 .. m : work[j].block \in Family(f.block) => work[j].label # f.label

LEMMA FamilyIsShared ==
    ASSUME NEW a, NEW b, a \in Family(b) PROVE b \in Family(a)
BY DEF Family, BranchBlocks, LoopBlocks

LEMMA LabelsOf ==
    ASSUME NEW l, NEW n
    PROVE  /\ Labels(l, n) = {} <=> \A i \in DOMAIN code : code[i].ins # Label(l, n)
           /\ Labels(l, n)' = {} <=> \A i \in DOMAIN code' : code'[i].ins # Label(l, n)
BY DEF Labels, Label

LEMMA LabelsToComeStep ==
    ASSUME LabelsToCome, IsSeq(work), CountersGrow, NEW s, Appends(s), NEW m, Moved(m) \/ Opened(m),
           \A k \in 1 .. Len(work) : work[k].label \in Nat,
           \A k \in 1 .. m : \A l \in Awaited(work[k].block) : ~Defines(s, l, work[k].label),
           Opened(m) => Newcomer(m)
    PROVE  LabelsToCome'
<1>1. m \in 1 .. Len(work) /\ IsSeq(work') BY DEF Moved, Opened
<1>2. Len(work) \in Nat /\ DOMAIN work = 1 .. Len(work) BY IsSeqProperties
<1>3. m \in Nat \ {0} BY <1>1, <1>2
<1>4. DOMAIN work' = 1 .. Len(work') BY <1>1, IsSeqProperties
<1>5. \A k \in 1 .. m : work'[k].block = work[k].block /\ work'[k].label = work[k].label
  BY DEF Moved, Opened, Alike
<1>6. \A k \in 1 .. m : k \in DOMAIN work /\ work[k].label \in Nat BY <1>1, <1>2, <1>3
<1> DEFINE Right(k) ==
             /\ work'[k].block \in BranchBlocks => work'[k].label < label_counter'
             /\ work'[k].block \in LoopBlocks =>
                   /\ work'[k].label < while_label_counter'
                   /\ \E i \in DOMAIN code' : code'[i].ins = Label("while", work'[k].label)
             /\ \A l \in Awaited(work'[k].block) :
                   \A i \in DOMAIN code' : code'[i].ins # Label(l, work'[k].label)
           Apart(k, j) == work'[j].block \in Family(work'[k].block) => work'[j].label # work'[k].label
<1>7. ASSUME NEW k \in 1 .. m PROVE Right(k)
  <2>1. PICK b, n : b = work[k].block /\ n = work[k].label OBVIOUS
  <2>2. /\ b \in BranchBlocks => n < label_counter
        /\ b \in LoopBlocks => n < while_label_counter /\ Labels("while", n) # {}
        /\ \A l \in Awaited(b) : Labels(l, n) = {}
        /\ n \in Nat
    BY <1>6, <2>1 DEF LabelsToCome
  <2>3. b \in BranchBlocks => n < label_counter' BY <2>2 DEF CountersGrow
  <2>4. b \in LoopBlocks => n < while_label_counter' BY <2>2 DEF CountersGrow
  <2>5. b \in LoopBlocks => \E i \in DOMAIN code' : code'[i].ins = Label("while", n)
    <3>1. b \in LoopBlocks => Labels("while", n)' # {} BY <2>2, LabelsGrow
    <3> QED BY <3>1, LabelsOf
  <2>6. \A l \in Awaited(b) : \A i \in DOMAIN code' : code'[i].ins # Label(l, n)
    <3>1. \A l \in Awaited(b) : ~Defines(s, l, n) BY <2>1
    <3>2. \A l \in Awaited(b) : Labels(l, n)' = {} BY <2>2, <3>1, LabelsGrow
    <3> QED BY <3>2, LabelsOf
  <2> QED BY <1>5, <2>1, <2>3, <2>4, <2>5, <2>6
<1>8. ASSUME NEW k \in 1 .. m, NEW j \in 1 .. m, j # k PROVE Apart(k, j)
  BY <1>5, <1>6, <1>8 DEF LabelsToCome
<1> DEFINE All == \A k \in DOMAIN work' : Right(k) /\ \A j \in DOMAIN work' : j # k => Apart(k, j)
<1>9. All
  <2>1. CASE Moved(m)
    <3>1. Len(work') = m BY <2>1 DEF Moved
    <3>2. \A k \in DOMAIN work' : k \in 1 .. m BY <1>4, <3>1
    <3> HIDE DEF Right, Apart
    <3> QED BY <1>7, <1>8, <3>2
  <2>2. CASE Opened(m)
    <3>1. Len(work') = m + 1 BY <2>2 DEF Opened
    <3> DEFINE n == m + 1
    <3>2. \A k \in DOMAIN work' : k \in 1 .. m \/ k = n BY <1>3, <1>4, <3>1
    <3>3. Right(n) BY <2>2 DEF Newcomer
    <3>4. \A j \in 1 .. m : Apart(n, j) /\ Apart(j, n)
      <4>1. \A j \in 1 .. m : work[j].block \in Family(work'[n].block) => work[j].label # work'[n].label
        BY <2>2 DEF Newcomer
      <4>2. \A j \in 1 .. m : Apart(n, j) BY <1>5, <4>1
      <4> QED BY <1>5, <4>1, <4>2, FamilyIsShared
    <3> HIDE DEF Right, Apart, n
    <3> QED BY <1>7, <1>8, <3>2, <3>3, <3>4
  <2> QED BY <2>1, <2>2
<1>10. \A l, n : /\ Labels(l, n)' = {} <=> \A i \in DOMAIN code' : code'[i].ins # Label(l, n)
  BY LabelsOf
<1>11. ASSUME NEW k \in DOMAIN work'
       PROVE  (/\ work[k].block \in BranchBlocks => work[k].label < label_counter
               /\ work[k].block \in LoopBlocks => /\ work[k].label < while_label_counter
                                                  /\ Labels("while", work[k].label) # {}
               /\ \A l \in Awaited(work[k].block) : Labels(l, work[k].label) = {})'
  <2>1. Right(k) BY <1>9
  <2> QED BY <2>1 DEF Labels, Label
<1> QED BY <1>9, <1>11 DEF LabelsToCome

-----------------------------------------------------------------------------
(* Steps that compile a part of a routine.                                    *)
Steady ==
    /\ prog' = prog /\ phase' = phase /\ cursor' = cursor /\ phase \in {"main", "routines"}
    /\ KeepsMaps /\ CountersGrow /\ quirks \subseteq quirks'

LEMMA ProgressStays ==
    ASSUME Progress, Activations, Steady, NEW m, Moved(m) \/ Opened(m) PROVE Progress'
<1>1. m \in 1 .. Len(work) /\ IsSeq(work') BY DEF Moved, Opened
<1>2. work # <<>> BY <1>1
<1>3. Len(work) \in Nat BY <1>2, OutermostIs
<1>4. m \in Nat \ {0} /\ 1 \in 1 .. m BY <1>1, <1>3
<1>5. work'[1].node = work[1].node BY <1>4 DEF Moved, Opened, Alike
<1>6. work' # <<>>
  <2> SUFFICES ASSUME work' = <<>> PROVE FALSE OBVIOUS
  <2>1. Len(work') = 0 BY SmallSeqs
  <2> QED BY <1>4, <2>1 DEF Moved, Opened
<1>7. (IsProgram(prog) /\ check_for_main_function(prog))'
  BY DEF Progress, Steady, IsProgram, check_for_main_function
<1>8. cursor' = cursor /\ phase' = phase /\ prog' = prog /\ phase \in {"main", "routines"}
      /\ label_counter' \in Nat /\ while_label_counter' \in Nat
  BY DEF Steady, CountersGrow
<1> QED BY <1>5, <1>6, <1>7, <1>8 DEF Progress

LEMMA BlockStep ==
    ASSUME CompilerShape, Steady, SameStmts, NEW m, Moved(m) \/ Opened(m),
           m = Len(work) \/ (m = Len(work) - 1 /\ ~Expands(Len(work))),
           Opened(m) => /\ IsBlock(m + 1)' /\ ~Expands(m + 1)'
                        /\ work'[m + 1].node = work[m].node,
           LabelsInCode', LabelsToCome'
    PROVE  CompilerShape'
<1>1. /\ Maps /\ Progress /\ Activations /\ Contexts /\ OneBody
      /\ "inline_ctx" \notin quirks => FunctionsFirst
  BY DEF CompilerShape
<1>2. prog' = prog /\ KeepsMaps /\ quirks \subseteq quirks' BY DEF Steady
<1>3. IsSeq(work) BY <1>1 DEF Activations
<1>4. Maps' BY <1>2 DEF KeepsMaps
<1>5. Progress' BY <1>1, ProgressStays
<1>6. Activations' BY <1>1, <1>2, BlocksMove, BlocksOpen
<1>7. Contexts' BY <1>1, <1>2, ContextsKeep
<1>8. OneBody' BY <1>1, <1>2, <1>3, OneBodyKept
<1>9. ("inline_ctx" \notin quirks => FunctionsFirst)'
  <2> SUFFICES ASSUME "inline_ctx" \notin quirks' PROVE FunctionsFirst' OBVIOUS
  <2>1. FunctionsFirst BY <1>1, <1>2
  <2> QED BY <1>2, <1>3, <2>1, FunctionsFirstKept
<1> QED BY <1>4, <1>5, <1>6, <1>7, <1>8, <1>9 DEF CompilerShape

(* Instructions that are neither labels nor jumps.                            *)
Straight(s) == \A j \in 1 .. Len(s) : s[j].ins.op \notin {"label", "jmp", "jz"}

LEMMA StraightDefinesNothing ==
    ASSUME NEW s, Straight(s), NEW l, NEW n PROVE ~Defines(s, l, n)
BY DEF Straight, Defines, Label

LEMMA StraightIsNew ==
    ASSUME NEW s, Straight(s) PROVE NewLabels(s)
BY DEF Straight, NewLabels

LEMMA AwaitedStay ==
    ASSUME NEW m, Moved(m) \/ Opened(m), IsSeq(work), NEW k \in 1 .. m, NEW l, NEW n, Awaits(k, l, n)
    PROVE  Known(l, n)'
<1>1. /\ m \in 1 .. Len(work) /\ IsSeq(work') /\ Len(work') \in {m, m + 1}
      /\ Alike(work'[k], work[k])
  BY DEF Moved, Opened, Alike
<1>2. Len(work) \in Nat BY IsSeqProperties
<1>3. m \in Nat BY <1>1, <1>2
<1>4. k \in 1 .. Len(work') BY <1>1, <1>3
<1>5. DOMAIN work' = 1 .. Len(work') BY <1>1, IsSeqProperties
<1>6. k \in DOMAIN work' BY <1>4, <1>5
<1>7. Awaits(k, l, n)' BY <1>1 DEF Awaits, Alike
<1> QED BY <1>6, <1>7 DEF Known

LEMMA StraightCodeStep ==
    ASSUME CompilerShape, Steady, SameStmts, Moved(Len(work)), NEW s, Appends(s), Straight(s)
    PROVE  CompilerShape'
<1>1. Activations /\ LabelsInCode /\ LabelsToCome BY DEF CompilerShape
<1>2. /\ IsSeq(work) /\ DOMAIN work = 1 .. Len(work) /\ Len(work) \in Nat
  BY <1>1, IsSeqProperties DEF Activations
<1>3. \A k \in 1 .. Len(work) : work[k].label \in Nat
  BY <1>1, <1>2 DEF Activations, IsBlock, IsActivation
<1>4. ~Opened(Len(work)) BY <1>2 DEF Opened, Moved
<1>5. CountersGrow BY DEF Steady
<1>6. NewLabels(s) BY StraightIsNew
<1>7. NewJumps(s)
  <2>1. \A k \in DOMAIN work : \A l, n : Awaits(k, l, n) => Known(l, n)' BY <1>2, AwaitedStay
  <2> QED BY <2>1 DEF NewJumps, Straight
<1>8. LabelsInCode' BY <1>1, <1>5, <1>6, <1>7, LabelsInCodeStep
<1>9. LabelsToCome' BY <1>1, <1>2, <1>3, <1>4, <1>5, StraightDefinesNothing, LabelsToComeStep
<1> QED BY <1>4, <1>8, <1>9, BlockStep

-----------------------------------------------------------------------------
(* What the actions do to the open blocks.                                    *)
LEMMA BlocksAre ==
    ASSUME Activations, work # <<>>
    PROVE  /\ Len(work) \in Nat \ {0} /\ DOMAIN work = 1 .. Len(work) /\ Len(work) \in DOMAIN work
           /\ IsSeq(work)
           /\ \A k \in 1 .. Len(work) : IsBlock(k) /\ IsActivation(work[k])
           /\ IsBlock(Len(work)) /\ IsActivation(Current) /\ Current = work[Len(work)]
           /\ Len(work) > 1 => /\ Len(work) - 1 \in 1 .. Len(work)
                               /\ work[Len(work) - 1].cur \in 0 .. asts_len
<1>1. /\ Len(work) \in Nat \ {0} /\ DOMAIN work = 1 .. Len(work) /\ IsSeq(work) BY OutermostIs
<1>2. \A k \in 1 .. Len(work) : IsBlock(k) BY <1>1 DEF Activations
<1>3. \A k \in 1 .. Len(work) : IsActivation(work[k]) BY <1>2 DEF IsBlock
<1>4. Len(work) \in 1 .. Len(work) BY <1>1
<1>5. ASSUME Len(work) > 1
      PROVE  Len(work) - 1 \in 1 .. Len(work) /\ work[Len(work) - 1].cur \in 0 .. asts_len
  <2>1. Len(work) - 1 \in 1 .. Len(work) BY <1>1, <1>5
  <2>2. work[Len(work) - 1].cur \in -1 .. asts_len BY <1>3, <2>1 DEF IsActivation
  <2>3. work[Len(work) - 1].cur >= 0 BY <1>2, <1>4, <1>5 DEF IsBlock, Encloses
  <2> QED BY <2>1, <2>2, <2>3
<1> QED BY <1>1, <1>2, <1>3, <1>4, <1>5 DEF Current

Frame == {"block", "of", "node", "cur", "label", "entry", "saved", "under", "marks"}
MovedTo(w, m, c) == [w EXCEPT ![m].cur = c]
LEMMA MovedCopy ==
    ASSUME NEW w, IsSeq(w), NEW m, m = Len(w), m # 0, DOMAIN w[m] = Frame,
           NEW c, NEW u, u = MovedTo(w, m, c)
    PROVE  /\ IsSeq(u) /\ Len(u) = m
           /\ Alike(u[m], w[m]) /\ u[m].cur = c
           /\ \A k \in 1 .. m - 1 : u[k] = w[k]
<1> DEFINE f == [w[m] EXCEPT !.cur = c]
           S == {w[i] : i \in DOMAIN w} \union {f}
           v == [w EXCEPT ![m] = f]
<1>1. w \in [1 .. Len(w) -> S] /\ Len(w) \in Nat /\ DOMAIN w = 1 .. Len(w)
  <2>1. Len(w) \in Nat /\ DOMAIN w = 1 .. Len(w) BY IsSeqProperties
  <2>2. w \in Seq({w[i] : i \in DOMAIN w}) BY DEF IsSeq
  <2>3. w \in [1 .. Len(w) -> {w[i] : i \in DOMAIN w}] BY <2>2
  <2> QED BY <2>1, <2>3
<1>2. m \in 1 .. m /\ m \in Nat BY <1>1
<1>3. f \in S OBVIOUS
<1>4. Alike(f, w[m]) /\ f.cur = c BY DEF Alike, Frame
<1> HIDE DEF S, f
<1>5. v \in [1 .. m -> S] BY <1>1, <1>3
<1>6. v \in Seq(S) /\ Len(v) = m
  <2> HIDE DEF v
  <2> QED BY <1>2, <1>5
<1>7. v[m] = f /\ \A k \in 1 .. m - 1 : v[k] = w[k]
  <2>1. \A k \in 1 .. m - 1 : k \in 1 .. m /\ k # m BY <1>2
  <2> QED BY <1>1, <1>2, <2>1
<1>8. v = u BY DEF f, MovedTo
<1> HIDE DEF v
<1> QED BY <1>4, <1>6, <1>7, <1>8, SeqIsSeq

LEMMA DropSeq ==
    ASSUME NEW w, IsSeq(w), w # <<>>
    PROVE  /\ IsSeq(Drop(w, 1)) /\ Len(Drop(w, 1)) = Len(w) - 1 /\ Len(w) \in Nat \ {0}
           /\ \A k \in 1 .. Len(w) - 1 : Drop(w, 1)[k] = w[k]
<1> DEFINE S == {w[i] : i \in DOMAIN w}
<1>1. w \in Seq(S) BY DEF IsSeq
<1> HIDE DEF S
<1>2. Len(w) \in Nat \ {0} BY <1>1
<1>3. /\ Drop(w, 1) \in Seq(S) /\ Len(Drop(w, 1)) = Len(w) - 1
      /\ \A i \in 1 .. Len(w) - 1 : Drop(w, 1)[i] = w[i]
  BY <1>1, <1>2, DropOne
<1> QED BY <1>2, <1>3, SeqIsSeq

LEMMA AlikeItself == ASSUME NEW f PROVE Alike(f, f)
BY DEF Alike

LEMMA AdvancedMoves ==
    ASSUME Activations, IsProgram(prog), work # <<>>, ~Finished, work' = Advanced(work)
    PROVE  Moved(Len(work))
<1> DEFINE n == Len(work)
           c == astid(work[n].cur).next
<1>1. n \in Nat \ {0} /\ IsSeq(work) /\ IsActivation(work[n]) /\ Current = work[n] BY BlocksAre
<1>2. work[n].cur \in 0 .. asts_len
  <2>1. work[n].cur \in -1 .. asts_len /\ asts_len \in Nat BY <1>1, AstOf DEF IsActivation
  <2> QED BY <1>1, <2>1 DEF Finished
<1>3. c \in -1 .. asts_len BY <1>2, AstOf
<1>4. work' = MovedTo(work, n, c) BY DEF Advanced, MovedTo
<1> HIDE DEF n, c
<1>5. DOMAIN work[n] = Frame BY <1>1 DEF IsActivation, Frame
<1>6. /\ IsSeq(work') /\ Len(work') = n /\ Alike(work'[n], work[n]) /\ work'[n].cur = c
      /\ \A k \in 1 .. n - 1 : work'[k] = work[k]
  <2>1. n = Len(work) /\ n # 0 /\ IsSeq(work) BY <1>1 DEF n
  <2> QED BY <1>4, <1>5, <2>1, MovedCopy
<1>7. \A k \in 1 .. n : k \in 1 .. n - 1 \/ k = n BY <1>1
<1>8. \A k \in 1 .. n : Alike(work'[k], work[k]) BY <1>6, <1>7, AlikeItself
<1>9. n \in 1 .. n BY <1>1
<1> QED BY <1>3, <1>6, <1>8, <1>9 DEF Moved, n

LEMMA DropAdvancedMoves ==
    ASSUME Activations, IsProgram(prog), Len(work) > 1, work # <<>>, work' = Advanced(Drop(work, 1))
    PROVE  Moved(Len(work) - 1)
<1> DEFINE n == Len(work)
           m == Len(work) - 1
           d == Drop(work, 1)
           c == astid(work[m].cur).next
<1>1. /\ n \in Nat \ {0} /\ IsSeq(work) /\ m \in 1 .. n /\ work[m].cur \in 0 .. asts_len
      /\ IsActivation(work[m])
  BY BlocksAre
<1>2. IsSeq(d) /\ Len(d) = m /\ \A k \in 1 .. m : d[k] = work[k] BY <1>1, DropSeq
<1>3. c \in -1 .. asts_len
  <2>1. \A i \in 0 .. asts_len : astid(i).next \in -1 .. asts_len BY AstOf
  <2> QED BY <1>1, <2>1, Zenon
<1>4. m \in 1 .. m /\ m # 0 /\ m \in Nat
  <2>1. n \in Nat /\ m \in 1 .. n BY <1>1
  <2> HIDE DEF n, m
  <2> QED BY <2>1
<1>5. work' = MovedTo(d, m, c) BY <1>2, <1>4 DEF Advanced, MovedTo
<1> HIDE DEF n, m, c, d
<1>6. DOMAIN d[m] = Frame /\ d[m] = work[m] BY <1>1, <1>2, <1>4 DEF IsActivation, Frame
<1>7. /\ IsSeq(work') /\ Len(work') = m /\ Alike(work'[m], work[m]) /\ work'[m].cur = c
      /\ \A k \in 1 .. m - 1 : work'[k] = d[k]
  <2>1. m = Len(d) BY <1>2
  <2>2. Alike(work'[m], d[m]) BY <1>2, <1>4, <1>5, <1>6, <2>1, MovedCopy, Zenon
  <2> QED BY <1>2, <1>4, <1>5, <1>6, <2>1, <2>2, MovedCopy
<1>8. \A k \in 1 .. m : k \in 1 .. m - 1 \/ k = m BY <1>4
<1>9. \A k \in 1 .. m - 1 : k \in 1 .. m BY <1>4
<1>10. \A k \in 1 .. m : Alike(work'[k], work[k])
  BY <1>2, <1>7, <1>8, <1>9, AlikeItself
<1> QED BY <1>1, <1>2, <1>3, <1>7, <1>9, <1>10 DEF Moved, n, m

LEMMA AppendOpens ==
    ASSUME Activations, work # <<>>, NEW f, work' = Append(work, f)
    PROVE  Opened(Len(work)) /\ work'[Len(work) + 1] = f
<1>1. Len(work) \in Nat \ {0} /\ IsSeq(work) BY BlocksAre
<1>2. /\ IsSeq(work') /\ Len(work') = Len(work) + 1 /\ work'[Len(work) + 1] = f
      /\ \A k \in 1 .. Len(work) : work'[k] = work[k]
  BY <1>1, AppendSeq
<1>3. Len(work) \in 1 .. Len(work) BY <1>1, SMTT(30)
<1> QED BY <1>2, <1>3 DEF Opened

LEMMA DropAppendOpens ==
    ASSUME Activations, Len(work) > 1, work # <<>>, NEW f, work' = Append(Drop(work, 1), f)
    PROVE  Opened(Len(work) - 1) /\ work'[Len(work)] = f
<1> DEFINE n == Len(work)
           m == Len(work) - 1
           d == Drop(work, 1)
<1>1. n \in Nat \ {0} /\ IsSeq(work) /\ m \in 1 .. n /\ m + 1 = n BY BlocksAre, SMTT(30)
<1>2. IsSeq(d) /\ Len(d) = m /\ \A k \in 1 .. m : d[k] = work[k] BY <1>1, DropSeq
<1> HIDE DEF m, d
<1>3. /\ IsSeq(work') /\ Len(work') = Len(d) + 1 /\ work'[Len(d) + 1] = f
      /\ \A k \in 1 .. Len(d) : work'[k] = d[k]
  BY <1>2, AppendSeq DEF d
<1> QED BY <1>1, <1>2, <1>3 DEF Opened, m

-----------------------------------------------------------------------------
(* The actions, one after the other.  Where the compiler stops, only phase    *)
(* changes.                                                                   *)
LEMMA ShapeUnchanged ==
    ASSUME CompilerShape, UNCHANGED <<prog, maps, ctx, work, labels, code, quirks>>,
           \/ phase' = phase
           \/ phase' \in Halted /\ (phase' = "done" => work = <<>>)
    PROVE  CompilerShape'
<1>1. /\ prog' = prog /\ cursor' = cursor /\ values_map' = values_map /\ externs_map' = externs_map
      /\ proc_ctx' = proc_ctx /\ func_ctx' = func_ctx /\ work' = work /\ code' = code
      /\ label_counter' = label_counter /\ while_label_counter' = while_label_counter
      /\ quirks' = quirks
  BY DEF maps, ctx, labels
<1>2. Maps' BY <1>1, MapsStay DEF CompilerShape, KeepsMaps
<1>3. Progress'
  <2>1. TopLevel(prog)' = TopLevel(prog) /\ MAIN_FUNCTION' = MAIN_FUNCTION
    BY <1>1 DEF TopLevel, MAIN_FUNCTION
  <2>2. Find(values_map, MAIN_FUNCTION)' = Find(values_map, MAIN_FUNCTION)
    BY <1>1 DEF Find, MAIN_FUNCTION
  <2>3. IsProgram(prog)' = IsProgram(prog)
        /\ check_for_main_function(prog)' = check_for_main_function(prog)
    BY <1>1 DEF IsProgram, check_for_main_function
  <2>4. Progress BY DEF CompilerShape
  <2>5. asts_len' = asts_len BY <1>1 DEF asts_len
  <2> QED BY <1>1, <2>1, <2>2, <2>3, <2>4, <2>5 DEF Progress, Halted
<1>4. Activations' /\ Contexts'
  <2>1. Activations /\ Contexts BY DEF CompilerShape
  <2>2. CASE work = <<>>
    <3>1. DOMAIN work' = {} /\ Len(work') = 0 /\ Len(work) = 0 /\ IsSeq(work')
      <4>1. IsSeq(work') /\ Len(work') = 0 /\ Len(work) = 0 BY <1>1, <2>2, SmallSeqs
      <4>2. DOMAIN work' = 1 .. Len(work') BY <4>1, IsSeqProperties
      <4> QED BY <4>1, <4>2
    <3>2. Activations' BY <3>1 DEF Activations
    <3>3. IsContext(proc_ctx)' /\ IsContext(func_ctx)' BY <1>1, <2>1 DEF Contexts, IsContext, asts_len
    <3>4. proc_ctx.stmt = NULL /\ func_ctx.stmt = NULL BY <2>1, <3>1 DEF Contexts, LastExpanded
    <3>5. (LastExpanded("PROC", Len(work), proc_ctx.stmt) /\ LastExpanded("FUNC", Len(work), func_ctx.stmt))'
      BY <1>1, <3>1, <3>4 DEF LastExpanded
    <3> QED BY <3>1, <3>2, <3>3, <3>5 DEF Contexts
  <2>3. CASE work # <<>>
    <3>1. /\ Len(work) \in Nat \ {0} /\ IsSeq(work) /\ IsActivation(Current)
          /\ Current = work[Len(work)]
      BY <2>1, <2>3, BlocksAre
    <3>2. Moved(Len(work)) BY <1>1, <3>1, AlikeItself DEF Moved, IsActivation
    <3>3. ~Opened(Len(work)) BY <1>1, <3>1 DEF Opened
    <3>4. Maps BY DEF CompilerShape
    <3>5. KeepsMaps BY <1>1, <3>4, MapsStay
    <3>6. SameStmts BY <1>1, <2>1, ContextsStay
    <3> QED BY <1>1, <2>1, <3>2, <3>3, <3>5, <3>6, BlocksMove, ContextsKeep
  <2> QED BY <2>2, <2>3
<1>6. OneBody' /\ ("inline_ctx" \notin quirks => FunctionsFirst)'
  BY <1>1 DEF CompilerShape, OneBody, FunctionsFirst, Expanded, Expands, Decl, astid
<1>7. LabelsInCode'
  BY <1>1 DEF CompilerShape, LabelsInCode, LabelsAt, JumpsAt, Labels, Counter, Awaits
<1>8. LabelsToCome' BY <1>1 DEF CompilerShape, LabelsToCome, Labels
<1> QED BY <1>2, <1>3, <1>4, <1>6, <1>7, <1>8 DEF CompilerShape

LEMMA ShapeStops ==
    ASSUME CompilerShape, NEW how \in {"rejected", "crashed", "corrupt"}, Stop(how)
    PROVE  CompilerShape'
<1>1. /\ phase' \in Halted /\ phase' # "done"
      /\ UNCHANGED <<prog, maps, ctx, work, labels, code, quirks>>
  BY DEF Stop, Halted
<1> QED BY <1>1, ShapeUnchanged

LEMMA ShapeRejects == ASSUME CompilerShape, Reject PROVE CompilerShape'
BY ShapeStops DEF Reject

LEMMA ShapeCrashes == ASSUME CompilerShape, Crash PROVE CompilerShape'
BY ShapeStops DEF Crash

LEMMA OverflowIs ==
    ASSUME NEW old, NEW new PROVE Overflow(old, new) \in {"none", "crashed", "corrupt"}
BY DEF Overflow

(* What every step of a routine may count on.                                 *)
LEMMA ShapeFacts ==
    ASSUME CompilerShape
    PROVE  /\ Maps /\ Progress /\ Activations /\ Contexts /\ OneBody /\ LabelsInCode /\ LabelsToCome
           /\ IsProgram(prog) /\ IsSeq(code) /\ IsSeq(work)
           /\ label_counter \in Nat /\ while_label_counter \in Nat
BY DEF CompilerShape, Progress, LabelsInCode, Activations

LEMMA SteadyWhen ==
    ASSUME CompilerShape, phase \in {"main", "routines"},
           UNCHANGED <<prog, phase, maps, labels>>, quirks \subseteq quirks'
    PROVE  Steady
<1>1. Maps /\ label_counter \in Nat /\ while_label_counter \in Nat BY ShapeFacts
<1>2. KeepsMaps BY <1>1, MapsStay DEF maps
<1> QED BY <1>1, <1>2 DEF Steady, CountersGrow, maps, labels

LEMMA ShapeContinues ==
    ASSUME CompilerShape, phase \in {"main", "routines"}, work # <<>>, ~Finished,
           NEW s, IsSeq(s), Straight(s), NEW ts \in Seq(Kinds), Continue(s, ts)
    PROVE  CompilerShape'
<1>1. Overflow(Types, ts) \in {"none", "crashed", "corrupt"} BY OverflowIs
<1>2. CASE Overflow(Types, ts) # "none" BY <1>1, <1>2, ShapeStops DEF Continue
<1>3. CASE Overflow(Types, ts) = "none"
  <2>1. /\ Emit(s) /\ SetTypes(ts) /\ work' = Advanced(work)
        /\ UNCHANGED <<prog, phase, maps, labels, quirks>>
    BY <1>3 DEF Continue
  <2>2. Activations /\ Contexts /\ IsProgram(prog) /\ IsSeq(code) BY ShapeFacts
  <2>3. Steady BY <2>1, SteadyWhen
  <2>4. SameStmts BY <2>1, <2>2, SetTypesKeeps
  <2>5. Moved(Len(work)) BY <2>1, <2>2, AdvancedMoves
  <2>6. Appends(s) BY <2>1, <2>2 DEF Emit, Appends
  <2> QED BY <2>3, <2>4, <2>5, <2>6, StraightCodeStep
<1> QED BY <1>2, <1>3

(* Two ways to write a statement's code: one instruction, or none.            *)
LEMMA OneStraight ==
    ASSUME NEW v, v.ins.op \notin {"label", "jmp", "jz"} PROVE IsSeq(<<v>>) /\ Straight(<<v>>)
<1>1. IsSeq(<<v>>) /\ Len(<<v>>) = 1 /\ <<v>>[1] = v BY SmallSeqs
<1>2. \A j \in 1 .. 1 : j = 1 OBVIOUS
<1> QED BY <1>1, <1>2 DEF Straight

LEMMA NoneStraight == IsSeq(<<>>) /\ Straight(<<>>)
<1>1. IsSeq(<<>>) /\ Len(<<>>) = 0 BY SmallSeqs
<1> QED BY <1>1 DEF Straight

LEMMA Statement ==
    ASSUME CompilerShape, NEW kinds, Compiling(kinds)
    PROVE  /\ phase \in {"main", "routines"} /\ work # <<>> /\ ~Finished
           /\ Node.kind \in kinds
           /\ Current.cur \in 0 .. asts_len /\ IsAst(Node, -1 .. asts_len)
           /\ Types \in Seq(Kinds) /\ Len(Types) \in Nat /\ IsSeq(Types)
           /\ Len(Types) >= 1 => Popped \in Seq(Kinds) /\ Top(Types) \in Kinds
           /\ Types # <<>> => Len(Types) >= 1
           /\ Len(Types) >= 2 => Drop(Types, 2) \in Seq(Kinds)
<1>1. /\ phase \in {"main", "routines"} /\ work # <<>> /\ ~Finished /\ Node.kind \in kinds
  BY DEF Compiling
<1>2. Activations /\ Contexts /\ IsProgram(prog) BY ShapeFacts
<1>3. IsActivation(Current) BY <1>1, <1>2, BlocksAre
<1>4. asts_len \in Nat /\ \A i \in 0 .. asts_len : IsAst(astid(i), -1 .. asts_len) BY <1>2, AstOf
<1>5. Current.cur \in 0 .. asts_len BY <1>1, <1>3, <1>4 DEF Finished, IsActivation
<1>6. IsAst(Node, -1 .. asts_len) BY <1>4, <1>5 DEF Node
<1>7. Types \in Seq(Kinds) /\ Len(Types) \in Nat /\ IsSeq(Types) BY <1>1, <1>2, CurrentContext
<1>8. Types # <<>> => Len(Types) >= 1 BY <1>7
<1>9. Len(Types) >= 1 => Popped \in Seq(Kinds) BY <1>7, DropProperties DEF Popped
<1>10. Len(Types) >= 2 => Drop(Types, 2) \in Seq(Kinds) BY <1>7, DropProperties
<1>11. Len(Types) >= 1 => Top(Types) \in Kinds BY <1>7, ElementOfSeq DEF Top
<1> QED BY <1>1, <1>5, <1>6, <1>7, <1>8, <1>9, <1>10, <1>11

LEMMA PushedKinds ==
    ASSUME NEW ts \in Seq(Kinds), NEW kind \in Kinds PROVE Append(ts, kind) \in Seq(Kinds)
BY AppendIs

Harmless(ins) == ins.op \notin {"label", "jmp", "jz"}

LEMMA ShapeOne ==
    ASSUME CompilerShape, NEW kinds, Compiling(kinds), NEW ins, Harmless(ins),
           NEW ts \in Seq(Kinds), Continue(<<At(ins, Types)>>, ts)
    PROVE  CompilerShape'
<1>1. At(ins, Types).ins = ins BY DEF At, View
<1>2. IsSeq(<<At(ins, Types)>>) /\ Straight(<<At(ins, Types)>>) BY <1>1, OneStraight DEF Harmless
<1>3. phase \in {"main", "routines"} /\ work # <<>> /\ ~Finished BY Statement
<1> DEFINE s == <<At(ins, Types)>>
<1>4. IsSeq(s) /\ Straight(s) /\ Continue(s, ts) BY <1>2
<1> HIDE DEF s
<1> QED BY <1>3, <1>4, ShapeContinues

LEMMA ShapeRequires ==
    ASSUME CompilerShape, NEW kinds, Compiling(kinds), NEW checked, NEW ins, Harmless(ins),
           NEW ts, checked => ts \in Seq(Kinds), Require(checked, ins, ts)
    PROVE  CompilerShape'
BY ShapeOne, ShapeRejects DEF Require

LEMMA StmtIsDeclared ==
    ASSUME Activations, Contexts, work # <<>>
    PROVE  DeclaredAs(Ctx.stmt, {"FUNC", "PROC"})
<1>1. /\ \A k \in 1 .. Len(work) : DeclaredAs(work[k].node, {"FUNC", "PROC"})
  BY BlocksAre DEF IsActivation
<1>2. Ctx.stmt # NULL BY CurrentContext
<1>3. \/ LastExpanded("PROC", Len(work), Ctx.stmt)
      \/ LastExpanded("FUNC", Len(work), Ctx.stmt)
  BY DEF Contexts, Ctx
<1> QED BY <1>1, <1>2, <1>3 DEF LastExpanded

LEMMA FirstArgument ==
    ASSUME CompilerShape, NEW kinds, Compiling(kinds), NEW name, Arguments(name) # {}
    PROVE  LET i == CHOOSE j \in Arguments(name) : \A k \in Arguments(name) : j <= k
           IN /\ i \in Arguments(name) /\ i \in 1 .. Len(Stmt.args)
              /\ i \in DOMAIN Stmt.args /\ Stmt.args[i].kind \in Declarable
<1>1. Activations /\ Contexts /\ IsProgram(prog) /\ work # <<>> BY ShapeFacts, Statement
<1>2. DeclaredAs(Ctx.stmt, {"FUNC", "PROC"}) BY <1>1, StmtIsDeclared
<1>3. DeclaredAs(Ctx.stmt, {"FUNC", "PROC", "EXTERN"}) BY <1>2 DEF DeclaredAs
<1>4. /\ IsSeq(Stmt.args) /\ \A i \in DOMAIN Stmt.args : Stmt.args[i].kind \in Declarable
  BY <1>1, <1>3, SignatureOf DEF Stmt
<1>5. Len(Stmt.args) \in Nat /\ DOMAIN Stmt.args = 1 .. Len(Stmt.args) BY <1>4, IsSeqProperties
<1>6. Arguments(name) \subseteq DOMAIN Stmt.args BY DEF Arguments
<1>7. Arguments(name) \subseteq Nat BY <1>5, <1>6
<1>8. \E j \in Arguments(name) : \A k \in Arguments(name) : j <= k BY <1>7, LeastNatural
<1> DEFINE i == CHOOSE j \in Arguments(name) : \A k \in Arguments(name) : j <= k
<1>9. i \in Arguments(name) BY <1>8
<1> HIDE DEF i
<1>10. i \in DOMAIN Stmt.args /\ Stmt.args[i].kind \in Declarable BY <1>4, <1>6, <1>9
<1>11. i \in 1 .. Len(Stmt.args) BY <1>5, <1>10
<1> QED BY <1>9, <1>10, <1>11 DEF i

LEMMA ShapeArgument ==
    ASSUME CompilerShape, NEW kinds, Compiling(kinds), NEW name, compile_argument_push(name)
    PROVE  CompilerShape'
<1>1. CASE Arguments(name) = {} BY <1>1, ShapeRejects DEF compile_argument_push
<1>2. CASE Arguments(name) # {}
  <2> DEFINE i == CHOOSE j \in Arguments(name) : \A k \in Arguments(name) : j <= k
             load == [op |-> "loadarg", slot |-> stack_idx(i), arg |-> i, kind |-> Stmt.args[i].kind,
                      nargs |-> Len(Stmt.args)]
  <2>1. PICK read \in ArgReads :
           IF read = "fault" THEN Crash
           ELSE Continue(<<At(load, Types)>>,
                         Append(Types, IF read = "declared" THEN Stmt.args[i].kind ELSE "poisoned"))
    BY <1>2 DEF compile_argument_push
  <2>2. CASE read = "fault" BY <2>1, <2>2, ShapeCrashes
  <2>3. CASE read # "fault"
    <3> DEFINE kind == IF read = "declared" THEN Stmt.args[i].kind ELSE "poisoned"
    <3>1. Continue(<<At(load, Types)>>, Append(Types, kind)) BY <2>1, <2>3
    <3>2. Types \in Seq(Kinds) BY Statement
    <3>3. kind \in Kinds
      <4>1. read \in {"declared", "poisoned"} BY <2>3, CodegenAssumption
      <4>2. i \in DOMAIN Stmt.args /\ Stmt.args[i].kind \in Declarable BY <1>2, FirstArgument
      <4> QED BY <4>1, <4>2 DEF Kinds, Declarable
    <3>4. Append(Types, kind) \in Seq(Kinds) BY <3>2, <3>3, PushedKinds
    <3> HIDE DEF kind
    <3>5. Harmless(load) BY DEF Harmless
    <3> HIDE DEF load
    <3> QED BY <3>1, <3>4, <3>5, ShapeOne
  <2> QED BY <2>2, <2>3
<1> QED BY <1>1, <1>2

LEMMA ShapePush == ASSUME CompilerShape, CompilePush PROVE CompilerShape'
<1> DEFINE ins == PushOf(Node.of, Operand(Node))
<1>1. Compiling({"PUSH"}) /\ Continue(<<At(ins, Types)>>, Append(Types, Node.of)) BY DEF CompilePush
<1>2. Types \in Seq(Kinds) /\ Node.of \in Kinds
  BY <1>1, Statement DEF IsAst, Declarable
<1>3. Append(Types, Node.of) \in Seq(Kinds) BY <1>2, PushedKinds
<1>4. Harmless(ins) BY DEF Harmless, PushOf
<1> HIDE DEF ins
<1> QED BY <1>1, <1>3, <1>4, ShapeOne

LEMMA PoisonedIsAKind == "poisoned" \in Kinds /\ "funcptr" \in Kinds /\ "int" \in Kinds /\ "byte" \in Kinds
BY DEF Kinds

LEMMA DataKinds ==
    ASSUME CompilerShape
    PROVE  /\ \A x \in DOMAIN prog.consts : prog.consts[x].kind \in Kinds \ {"poisoned"}
           /\ \A x \in DOMAIN prog.vars : prog.vars[x].kind \in Kinds \ {"poisoned"}
BY ShapeFacts DEF IsProgram, Declarable

LEMMA ShapeLiteral == ASSUME CompilerShape, CompileLiteral PROVE CompilerShape'
<1> DEFINE name == Node.name
           value == Find(values_map, name)
           c == prog.consts[name]
<1>1. Compiling({"LITERAL"}) BY DEF CompileLiteral
<1>2. Types \in Seq(Kinds) BY <1>1, Statement
<1>3. CASE name \in DOMAIN prog.consts
  <2> DEFINE ins == PushOf(c.kind, Wrap(c.value))
  <2>1. Continue(<<At(ins, Types)>>, Append(Types, c.kind)) BY <1>3 DEF CompileLiteral
  <2>2. Append(Types, c.kind) \in Seq(Kinds) BY <1>2, <1>3, DataKinds, PushedKinds
  <2>3. Harmless(ins) BY DEF Harmless, PushOf
  <2> HIDE DEF ins
  <2> QED BY <1>1, <2>1, <2>2, <2>3, ShapeOne
<1>4. CASE name \notin DOMAIN prog.consts /\ name \in DOMAIN prog.vars
  <2> DEFINE ins == LoadVar(name)
  <2>1. Continue(<<At(ins, Types)>>, Append(Types, "poisoned")) BY <1>4 DEF CompileLiteral
  <2>2. Append(Types, "poisoned") \in Seq(Kinds) BY <1>2, PoisonedIsAKind, PushedKinds
  <2>3. Harmless(ins) BY DEF Harmless, LoadVar
  <2> HIDE DEF ins
  <2> QED BY <1>1, <2>1, <2>2, <2>3, ShapeOne
<1>5. CASE name \notin DOMAIN prog.consts /\ name \notin DOMAIN prog.vars /\ value # NULL
  <2> DEFINE ins == PushOf("funcptr", value)
  <2>1. Crash \/ Continue(<<At(ins, Types)>>, Append(Types, "funcptr")) BY <1>5 DEF CompileLiteral
  <2>2. Append(Types, "funcptr") \in Seq(Kinds) BY <1>2, PoisonedIsAKind, PushedKinds
  <2>3. Harmless(ins) BY DEF Harmless, PushOf
  <2> HIDE DEF ins
  <2> QED BY <1>1, <2>1, <2>2, <2>3, ShapeOne, ShapeCrashes
<1>6. CASE name \notin DOMAIN prog.consts /\ name \notin DOMAIN prog.vars /\ value = NULL
  <2>1. compile_argument_push(name) BY <1>6 DEF CompileLiteral
  <2> QED BY <1>1, <2>1, ShapeArgument
<1> QED BY <1>3, <1>4, <1>5, <1>6

LEMMA ShapeArith ==
    ASSUME CompilerShape, CompileArith \/ CompileEqual PROVE CompilerShape'
<1> DEFINE ts == Append(Drop(Types, 2), "int")
<1>1. PICK kinds, f, checked :
         /\ Compiling(kinds) /\ Require(checked, [op |-> "binary", f |-> f], ts)
         /\ checked => Len(Types) >= 2
  <2>1. CASE CompileArith BY <2>1 DEF CompileArith, TwoIntegers
  <2>2. CASE CompileEqual BY <2>2 DEF CompileEqual, TwoOf
  <2> QED BY <2>1, <2>2
<1>2. checked => ts \in Seq(Kinds) BY <1>1, Statement, PoisonedIsAKind, PushedKinds
<1> DEFINE ins == [op |-> "binary", f |-> f]
<1>3. Harmless(ins) BY DEF Harmless
<1> HIDE DEF ins, ts
<1>4. Require(checked, ins, ts) BY <1>1 DEF ins
<1> QED BY <1>1, <1>2, <1>3, <1>4, ShapeRequires

LEMMA ShapePlus == ASSUME CompilerShape, CompilePlus PROVE CompilerShape'
<1>1. Compiling({"PLUS"}) BY DEF CompilePlus
<1>2. CASE ~TwoOf({"int", "byte", "str"}) BY <1>2, ShapeRejects DEF CompilePlus
<1>3. CASE TwoOf({"int", "byte", "str"})
  <2>1. Len(Types) >= 2 BY <1>3 DEF TwoOf
  <2>2. Popped \in Seq(Kinds) /\ Append(Drop(Types, 2), "byte") \in Seq(Kinds)
    BY <1>1, <2>1, Statement, PoisonedIsAKind, PushedKinds
  <2>3. \/ Continue(<<At([op |-> "binary", f |-> "PLUS"], Types)>>, Popped)
        \/ Crash
        \/ Continue(<<At([op |-> "index"], Types)>>, Append(Drop(Types, 2), "byte"))
    BY <1>3 DEF CompilePlus
  <2>4. Harmless([op |-> "binary", f |-> "PLUS"]) /\ Harmless([op |-> "index"]) BY DEF Harmless
  <2> QED BY <1>1, <2>2, <2>3, <2>4, ShapeOne, ShapeCrashes
<1> QED BY <1>2, <1>3

LEMMA ShapeUnary ==
    ASSUME CompilerShape, CompileBnot \/ CompileDrop \/ CompileDup \/ CompileDot \/ CompileWrite
    PROVE  CompilerShape'
<1>1. PICK kinds : Compiling(kinds)
  BY DEF CompileBnot, CompileDrop, CompileDup, CompileDot, CompileWrite
<1>2. /\ Types \in Seq(Kinds)
      /\ Types # <<>> => Popped \in Seq(Kinds) /\ Append(Types, Top(Types)) \in Seq(Kinds)
  BY <1>1, Statement, PushedKinds
<1>3. CASE CompileBnot
  <2> DEFINE checked == Types # <<>> /\ Top(Types) \in {"int", "byte"}
  <2>1. Require(checked, [op |-> "not"], Types) /\ Harmless([op |-> "not"])
    BY <1>3 DEF CompileBnot, Harmless
  <2> HIDE DEF checked
  <2> QED BY <1>1, <1>2, <2>1, ShapeRequires
<1>4. CASE CompileDrop
  <2> DEFINE checked == Types # <<>>
  <2>1. Require(checked, [op |-> "drop"], Popped) /\ Harmless([op |-> "drop"])
    BY <1>4 DEF CompileDrop, Harmless
  <2>2. checked => Popped \in Seq(Kinds) BY <1>2
  <2> HIDE DEF checked
  <2> QED BY <1>1, <2>1, <2>2, ShapeRequires
<1>5. CASE CompileDup
  <2>1. \/ Reject
        \/ Types # <<>> /\ Continue(<<At([op |-> "dup"], Types)>>, Append(Types, Top(Types)))
    BY <1>5 DEF CompileDup
  <2>2. Harmless([op |-> "dup"]) BY DEF Harmless
  <2> QED BY <1>1, <1>2, <2>1, <2>2, ShapeOne, ShapeRejects
<1>6. CASE CompileDot
  <2> DEFINE ins == [op |-> "dot", kind |-> Top(Types)]
  <2>1. Reject \/ Crash \/ Continue(<<At(ins, Types)>>, Types) BY <1>6 DEF CompileDot
  <2>2. Harmless(ins) BY DEF Harmless
  <2> HIDE DEF ins
  <2> QED BY <1>1, <1>2, <2>1, <2>2, ShapeOne, ShapeRejects, ShapeCrashes
<1>7. CASE CompileWrite
  <2> DEFINE ins == [op |-> "store", name |-> Node.name]
  <2>1. Reject \/ (Types # <<>> /\ Continue(<<At(ins, Types)>>, Popped)) BY <1>7 DEF CompileWrite
  <2>2. Harmless(ins) BY DEF Harmless
  <2> HIDE DEF ins
  <2> QED BY <1>1, <1>2, <2>1, <2>2, ShapeOne, ShapeRejects
<1> QED BY <1>3, <1>4, <1>5, <1>6, <1>7

LEMMA ShapeNothing == ASSUME CompilerShape, CompileNothing PROVE CompilerShape'
<1> DEFINE kinds == Declarations \union {"POISONED"}
<1>1. Compiling(kinds) /\ (Crash \/ Continue(<<>>, Types)) BY DEF CompileNothing
<1> HIDE DEF kinds
<1>2. phase \in {"main", "routines"} /\ work # <<>> /\ ~Finished /\ Types \in Seq(Kinds)
  BY <1>1, Statement
<1> QED BY <1>1, <1>2, NoneStraight, ShapeContinues, ShapeCrashes

LEMMA ShapeSyscall == ASSUME CompilerShape, CompileSyscall PROVE CompilerShape'
<1>1. Compiling({"SYSCALL"}) BY DEF CompileSyscall
<1>2. CASE Len(Types) < Node.args + 1 BY <1>2, ShapeRejects DEF CompileSyscall
<1>3. CASE ~(Len(Types) < Node.args + 1)
  <2> DEFINE v == At([op |-> "syscall", pops |-> Node.args + 1], Types)
  <2>1. /\ Emit(<<v>>) /\ work' = Advanced(work) /\ quirks' = quirks \union {"syscall"}
        /\ UNCHANGED <<prog, phase, maps, ctx, labels>>
    BY <1>3 DEF CompileSyscall
  <2>2. phase \in {"main", "routines"} /\ work # <<>> /\ ~Finished BY <1>1, Statement
  <2>3. Activations /\ Contexts /\ IsProgram(prog) /\ IsSeq(code) BY ShapeFacts
  <2>4. v.ins.op = "syscall" BY DEF At, View
  <2> HIDE DEF v
  <2>5. IsSeq(<<v>>) /\ Straight(<<v>>) BY <2>4, OneStraight
  <2>6. Steady BY <2>1, <2>2, SteadyWhen
  <2>7. SameStmts BY <2>1, <2>3, ContextsStay DEF ctx
  <2>8. Moved(Len(work)) BY <2>1, <2>2, <2>3, AdvancedMoves
  <2>9. Appends(<<v>>) BY <2>1, <2>3, <2>5 DEF Emit, Appends
  <2> QED BY <2>5, <2>6, <2>7, <2>8, <2>9, StraightCodeStep
<1> QED BY <1>2, <1>3

-----------------------------------------------------------------------------
(* Calls.                                                                     *)
LEMMA LastExpandedAbove ==
    ASSUME NEW m \in Nat, NEW n, n = m + 1, NEW kind, NEW id,
           LastExpanded(kind, m, id)', (~Expanded(n, kind))'
    PROVE  LastExpanded(kind, n, id)'
<1>1. \A k \in 1 .. n : k \in 1 .. m \/ k = n OBVIOUS
<1>2. \A k \in 1 .. m : k \in 1 .. n OBVIOUS
<1>3. \A k \in 1 .. m : \A j \in k + 1 .. n : j \in k + 1 .. m \/ j = n OBVIOUS
<1> QED BY <1>1, <1>2, <1>3 DEF LastExpanded

LEMMA InlineContexts ==
    ASSUME Activations, Contexts, prog' = prog, work # <<>>, Opened(Len(work)),
           IsContext(proc_ctx)', IsContext(func_ctx)',
           NEW m, m = Len(work), NEW n, n = m + 1, Expands(n)', work'[n].block = "inline",
           NEW isProc \in BOOLEAN, Decl(n)'.kind = IF isProc THEN "PROC" ELSE "FUNC",
           IF isProc
           THEN /\ proc_ctx'.stmt = work'[n].node /\ func_ctx'.stmt = func_ctx.stmt
                /\ work'[n].saved.stmt = proc_ctx.stmt
           ELSE /\ func_ctx'.stmt = work'[n].node /\ proc_ctx'.stmt = proc_ctx.stmt
                /\ work'[n].saved.stmt = func_ctx.stmt
    PROVE  Contexts'
<1>1. m \in Nat \ {0} /\ DOMAIN work = 1 .. m /\ n = m + 1 BY BlocksAre
<1>2. IsSeq(work') /\ Len(work') = n /\ \A k \in 1 .. m : work'[k] = work[k] BY DEF Opened
<1>3. DOMAIN work' = 1 .. n BY <1>2, IsSeqProperties
<1>4. SameBodies(m) BY <1>2 DEF SameBodies
<1>5. \A k \in 1 .. n : k \in 1 .. m \/ k = n BY <1>1
<1>6. LastExpanded("PROC", m, proc_ctx.stmt) /\ LastExpanded("FUNC", m, func_ctx.stmt)
  BY DEF Contexts
<1>7. \A kind, id : \A k \in 0 .. m : LastExpanded(kind, k, id) => LastExpanded(kind, k, id)'
  BY <1>1, <1>4, SameLastExpanded
<1>8. m \in 0 .. m /\ \A k \in 1 .. m : k - 1 \in 0 .. m /\ n - 1 = m BY <1>1
<1>9. ASSUME NEW kind, NEW id, Expanded(n, kind)', work'[n].node = id
      PROVE  LastExpanded(kind, n, id)'
  <2>1. n \in 1 .. n /\ \A j \in n + 1 .. n : FALSE BY <1>1
  <2> QED BY <1>9, <2>1 DEF LastExpanded
<1>10. ASSUME NEW kind, NEW id, LastExpanded(kind, m, id), (~Expanded(n, kind))'
       PROVE  LastExpanded(kind, n, id)'
  <2>1. LastExpanded(kind, m, id)' BY <1>7, <1>8, <1>10
  <2> QED BY <1>1, <1>10, <2>1, LastExpandedAbove
<1>11. PICK p, f : p = proc_ctx.stmt /\ f = func_ctx.stmt OBVIOUS
<1>12. PICK q, g : q = proc_ctx'.stmt /\ g = func_ctx'.stmt OBVIOUS
<1>13. LastExpanded("PROC", n, q)' /\ LastExpanded("FUNC", n, g)'
  <2>1. CASE isProc
    <3>1. q = work'[n].node /\ g = f BY <1>11, <1>12, <2>1
    <3>2. Expanded(n, "PROC")' /\ (~Expanded(n, "FUNC"))' BY <2>1 DEF Expanded
    <3> QED BY <1>6, <1>9, <1>10, <1>11, <3>1, <3>2
  <2>2. CASE ~isProc
    <3>1. g = work'[n].node /\ q = p BY <1>11, <1>12, <2>2
    <3>2. Expanded(n, "FUNC")' /\ (~Expanded(n, "PROC"))' BY <2>2 DEF Expanded
    <3> QED BY <1>6, <1>9, <1>10, <1>11, <3>1, <3>2
  <2> QED BY <2>1, <2>2
<1>14. (LastExpanded("PROC", Len(work), proc_ctx.stmt) /\ LastExpanded("FUNC", Len(work), func_ctx.stmt))'
  BY <1>2, <1>12, <1>13 DEF LastExpanded
<1>15. ASSUME NEW k \in 1 .. n, work'[k].block = "inline"
       PROVE  LastExpanded(Decl(k).kind, k - 1, work[k].saved.stmt)'
  <2>1. CASE k \in 1 .. m
    <3>1. PICK x, y : x = Decl(k).kind /\ y = work[k].saved.stmt OBVIOUS
    <3>2. k \in DOMAIN work /\ work[k].block = "inline" BY <1>1, <1>2, <1>15, <2>1
    <3>3. LastExpanded(x, k - 1, y) BY <3>1, <3>2 DEF Contexts
    <3>4. LastExpanded(x, k - 1, y)' BY <1>7, <1>8, <2>1, <3>3
    <3>5. Decl(k)' = Decl(k) BY <1>4, <2>1, SameExpanded
    <3>6. x = (Decl(k).kind)' /\ y = (work[k].saved.stmt)' BY <1>2, <2>1, <3>1, <3>5
    <3> QED BY <3>4, <3>6 DEF LastExpanded
  <2>2. CASE k = n
    <3>1. PICK x, y : x = (Decl(n).kind)' /\ y = (work[n].saved.stmt)' OBVIOUS
    <3>2. LastExpanded(x, m, y)
      <4>1. CASE isProc BY <1>6, <3>1, <4>1
      <4>2. CASE ~isProc BY <1>6, <3>1, <4>2
      <4> QED BY <4>1, <4>2
    <3>3. LastExpanded(x, m, y)' BY <1>7, <1>8, <3>2
    <3>4. m = n - 1 BY <1>1
    <3>5. (LastExpanded(Decl(n).kind, n - 1, work[n].saved.stmt))' BY <3>1, <3>3, <3>4 DEF LastExpanded
    <3> QED BY <2>2, <3>5
  <2> QED BY <1>5, <1>15, <2>1, <2>2
<1> QED BY <1>3, <1>14, <1>15 DEF Contexts

(* A context as the compiler leaves it for the body of a routine, and as it   *)
(* goes on with it.                                                           *)
WithTypes(c, ts) == [c EXCEPT !.types = ts]
ForBody(c, id) == [c EXCEPT !.stmt = id, !.types = <<>>]

LEMMA ContextWith ==
    ASSUME NEW c, IsContext(c), NEW ts \in Seq(Kinds), c.stmt # NULL
    PROVE  /\ IsContext(WithTypes(c, ts))
           /\ WithTypes(c, ts).stmt = c.stmt /\ WithTypes(c, ts).types = ts
<1>1. c \in [stmt : -1 .. asts_len - 1, types : Seq(Kinds), called_funcptr : {FALSE}]
  BY DEF IsContext
<1> DEFINE d == WithTypes(c, ts)
<1>2. /\ d \in [stmt : -1 .. asts_len - 1, types : Seq(Kinds), called_funcptr : {FALSE}]
      /\ d.stmt = c.stmt /\ d.types = ts
  BY <1>1 DEF WithTypes
<1> HIDE DEF d
<1>3. IsContext(d) BY <1>2 DEF IsContext
<1> QED BY <1>2, <1>3 DEF d

LEMMA ContextFor ==
    ASSUME NEW c, IsContext(c), NEW id \in 0 .. asts_len - 1
    PROVE  /\ IsContext(ForBody(c, id))
           /\ ForBody(c, id).stmt = id /\ ForBody(c, id).types = <<>>
<1>1. c \in [stmt : -1 .. asts_len - 1, types : Seq(Kinds), called_funcptr : {FALSE}]
  BY DEF IsContext
<1> DEFINE d == ForBody(c, id)
<1>2. id \in -1 .. asts_len - 1 /\ id # NULL BY DEF NULL
<1>3. <<>> \in Seq(Kinds) OBVIOUS
<1>4. /\ d \in [stmt : -1 .. asts_len - 1, types : Seq(Kinds), called_funcptr : {FALSE}]
      /\ d.stmt = id /\ d.types = <<>>
  BY <1>1, <1>2, <1>3 DEF ForBody
<1> HIDE DEF d
<1>5. IsContext(d) BY <1>2, <1>4 DEF IsContext
<1> QED BY <1>4, <1>5 DEF d

LEMMA ContextsBecome ==
    ASSUME prog' = prog, IsContext(proc_ctx'), IsContext(func_ctx')
    PROVE  IsContext(proc_ctx)' /\ IsContext(func_ctx)'
BY DEF IsContext, asts_len

(* What compile_inline makes of the contexts.                                 *)
LEMMA InlinedContexts ==
    ASSUME Activations, Contexts, work # <<>>, prog' = prog,
           NEW id \in 0 .. asts_len - 1, NEW ts \in Seq(Kinds), NEW isProc \in BOOLEAN,
           NEW own, own = IF isProc THEN proc_ctx ELSE func_ctx,
           NEW saved, saved = IF isProc = InProc THEN WithTypes(own, ts) ELSE own,
           IF isProc
           THEN /\ proc_ctx' = ForBody(own, id)
                /\ func_ctx' = IF InProc THEN func_ctx ELSE WithTypes(func_ctx, ts)
           ELSE /\ func_ctx' = ForBody(own, id)
                /\ proc_ctx' = IF InProc THEN WithTypes(proc_ctx, ts) ELSE proc_ctx
    PROVE  /\ IsContext(saved) /\ saved.stmt = own.stmt
           /\ IsContext(proc_ctx)' /\ IsContext(func_ctx)'
           /\ IF isProc THEN proc_ctx'.stmt = id /\ func_ctx'.stmt = func_ctx.stmt
                        ELSE func_ctx'.stmt = id /\ proc_ctx'.stmt = proc_ctx.stmt
           /\ isProc => proc_ctx'.types = <<>>
           /\ ~isProc => func_ctx'.types = <<>>
<1>1. /\ IsContext(proc_ctx) /\ IsContext(func_ctx) /\ InProc \in BOOLEAN
      /\ (~InProc => func_ctx.stmt # NULL) /\ (InProc => proc_ctx.stmt # NULL)
  BY CurrentContext DEF InProc
<1>2. /\ IsContext(own) /\ (isProc = InProc => own.stmt # NULL) BY <1>1
<1>3. IsContext(saved) /\ saved.stmt = own.stmt
  <2>1. CASE isProc = InProc BY <1>2, <2>1, ContextWith
  <2>2. CASE isProc # InProc BY <1>2, <2>2
  <2> QED BY <2>1, <2>2
<1>4. /\ IsContext(ForBody(own, id))
      /\ ForBody(own, id).stmt = id
      /\ ForBody(own, id).types = <<>>
  BY <1>2, ContextFor
<1>5. ~InProc => /\ IsContext(WithTypes(func_ctx, ts))
                 /\ WithTypes(func_ctx, ts).stmt = func_ctx.stmt
  BY <1>1, ContextWith
<1>6. InProc => /\ IsContext(WithTypes(proc_ctx, ts))
                /\ WithTypes(proc_ctx, ts).stmt = proc_ctx.stmt
  BY <1>1, ContextWith
<1>7. CASE isProc
  <2>1. IsContext(proc_ctx') /\ IsContext(func_ctx') BY <1>1, <1>4, <1>5, <1>7
  <2>2. IsContext(proc_ctx)' /\ IsContext(func_ctx)' BY <2>1, ContextsBecome
  <2> QED BY <1>3, <1>4, <1>5, <1>7, <2>2
<1>8. CASE ~isProc
  <2>1. IsContext(proc_ctx') /\ IsContext(func_ctx') BY <1>1, <1>4, <1>6, <1>8
  <2>2. IsContext(proc_ctx)' /\ IsContext(func_ctx)' BY <2>1, ContextsBecome
  <2> QED BY <1>3, <1>4, <1>6, <1>8, <2>2
<1> QED BY <1>7, <1>8

(* What lies under the body of one that is inlined where the types are ts.    *)
UnderBody(id, ts) == Current.under \o ts \o ArgKinds(astid(id).args)
MarksOfBody(id, ts) == Append(Current.marks, Len(UnderBody(id, ts)))

LEMMA InlinedUnder ==
    ASSUME Activations, IsProgram(prog), work # <<>>, NEW id, DeclaredAs(id, {"FUNC", "PROC"}),
           NEW ts \in Seq(Kinds)
    PROVE  /\ UnderBody(id, ts) \in Seq(Kinds)
           /\ Len(UnderBody(id, ts)) >= Len(ArgKinds(astid(id).args))
           /\ TopN(UnderBody(id, ts), Len(ArgKinds(astid(id).args))) = ArgKinds(astid(id).args)
           /\ MarksOfBody(id, ts) \in Seq(Nat) /\ Len(MarksOfBody(id, ts)) > 1
           /\ Len(MarksOfBody(id, ts)) # 1 /\ Top(MarksOfBody(id, ts)) = Len(UnderBody(id, ts))
<1>0. PICK args, under, marks :
         /\ args = ArgKinds(astid(id).args) /\ under = Current.under \o ts \o args
         /\ under = UnderBody(id, ts) /\ marks = MarksOfBody(id, ts)
         /\ marks = Append(Current.marks, Len(under))
  BY DEF UnderBody, MarksOfBody
<1>1. IsActivation(Current) BY BlocksAre
<1>2. Current.under \in Seq(Kinds) /\ Current.marks \in Seq(Nat) /\ Current.marks # <<>>
  BY <1>1 DEF IsActivation
<1>3. DeclaredAs(id, {"FUNC", "PROC", "EXTERN"}) BY DEF DeclaredAs
<1>4. args \in Seq(Kinds) BY <1>0, <1>3, SignatureOf
<1>5. PICK below : below = Current.under \o ts OBVIOUS
<1>6. below \in Seq(Kinds) BY <1>2, <1>5, ConcatParts
<1>7. under = below \o args BY <1>0, <1>5
<1>8. /\ under \in Seq(Kinds) /\ Len(under) = Len(below) + Len(args)
      /\ Len(below) \in Nat /\ Len(args) \in Nat /\ TopN(under, Len(args)) = args
  BY <1>4, <1>6, <1>7, ConcatParts
<1>9. Len(under) \in Nat /\ Len(under) >= Len(args) BY <1>8
<1>10. PICK ms, u : ms = Current.marks /\ u = Len(under) OBVIOUS
<1>11. /\ marks \in Seq(Nat) /\ Len(marks) = Len(ms) + 1 /\ marks[Len(ms) + 1] = u
  <2>1. ms \in Seq(Nat) /\ u \in Nat /\ marks = Append(ms, u) BY <1>0, <1>2, <1>9, <1>10
  <2> QED BY <2>1
<1>12. Len(ms) \in Nat \ {0} BY <1>2, <1>10
<1>13. Len(marks) > 1 /\ Len(marks) # 1 BY <1>11, <1>12
<1>14. Top(marks) = u BY <1>11 DEF Top
<1> QED BY <1>0, <1>8, <1>9, <1>10, <1>11, <1>13, <1>14

(* The block compile_inline opens.                                            *)
LEMMA InlinedBlock ==
    ASSUME Activations, KeepsMaps, IsProgram(prog), work # <<>>, ~Finished, Opened(Len(work)),
           NEW m, m = Len(work), NEW n, n = m + 1,
           NEW id, DeclaredAs(id, {"FUNC", "PROC"}), astid(id).inlin, ~(astid(id).body < 0),
           NEW ts \in Seq(Kinds), NEW saved, IsContext(saved),
           DOMAIN work'[n] = Frame,
           work'[n].block = "inline", work'[n].of = Current.of, work'[n].node = id,
           work'[n].cur = astid(id).body, work'[n].label = 0, work'[n].entry = <<>>,
           work'[n].saved = saved, work'[n].under = UnderBody(id, ts),
           work'[n].marks = MarksOfBody(id, ts)
    PROVE  /\ IsBlock(n)' /\ work'[n].block = "inline" /\ work'[n].node = id /\ work'[n].saved = saved
           /\ Expands(n)' /\ Decl(n)' = astid(id)
<1>1. /\ m \in Nat \ {0} /\ IsSeq(work) /\ IsActivation(Current) /\ Current = work[m]
  BY BlocksAre
<1>2. IsSeq(work') /\ Len(work') = n /\ \A k \in 1 .. m : work'[k] = work[k] BY DEF Opened
<1>3. DeclaredAs(id, {"FUNC", "PROC", "EXTERN"}) BY DEF DeclaredAs
<1>4. /\ ArgKinds(astid(id).args) \in Seq(Kinds)
      /\ Len(ArgKinds(astid(id).args)) = Len(astid(id).args)
      /\ astid(id).kind # "EXTERN" => astid(id).body \in -1 .. asts_len
  BY <1>3, SignatureOf
<1>5. astid(id).body \in -1 .. asts_len BY <1>4 DEF DeclaredAs
<1>6. /\ Current.under \in Seq(Kinds) /\ Current.marks \in Seq(Nat) /\ Current.marks # <<>>
      /\ Current.of # START /\ Current.of = work[1].of /\ Find(values_map, Current.of) = work[1].node
      /\ Current.cur \in -1 .. asts_len
  BY <1>1 DEF IsActivation
<1>8. PICK under, marks : under = UnderBody(id, ts) /\ marks = MarksOfBody(id, ts) OBVIOUS
<1>9. /\ under \in Seq(Kinds) /\ marks \in Seq(Nat) /\ Len(marks) > 1 /\ Len(marks) # 1
      /\ Top(marks) = Len(under) /\ work'[n].under = under /\ work'[n].marks = marks
      /\ Len(under) >= Len(astid(id).args) /\ TopN(under, Len(astid(id).args)) = ArgKinds(astid(id).args)
  BY <1>4, <1>8, InlinedUnder
<1>10. marks # <<>>
  <2> SUFFICES ASSUME marks = <<>> PROVE FALSE OBVIOUS
  <2> QED BY <1>9, SmallSeqs
<1>11. asts_len' = asts_len /\ \A i : astid(i)' = astid(i) BY SameAsts DEF KeepsMaps
<1>13. n > 1 /\ n # 1 /\ n - 1 = m /\ 1 \in 1 .. m /\ m \in 1 .. m BY <1>1
<1>14. IsActivation(work[n])'
  <2>1. DeclaredAs(id, {"FUNC", "PROC"})' BY <1>11 DEF DeclaredAs
  <2>2. IsContext(saved)' BY <1>11 DEF IsContext
  <2>3. Find(values_map, Current.of) # NULL
    <3>1. work # <<>> => work[1].node # NULL BY OutermostIs
    <3> QED BY <1>6, <3>1
  <2>4. PICK x : x = Current.of OBVIOUS
  <2>5. Find(values_map, x)' = work'[1].node
    <3>1. Find(values_map, x)' = Find(values_map, x) BY <2>3, <2>4 DEF KeepsMaps
    <3> QED BY <1>2, <1>6, <1>13, <2>4, <3>1
  <2>6. work'[n].of = x BY <2>4
  <2>7. (work'[n].of # START /\ work'[n].of = work'[1].of) BY <1>2, <1>6, <1>13
  <2>8. Find(values_map, work[n].of)' = work'[1].node BY <2>5, <2>6 DEF Find
  <2>9. /\ DOMAIN work'[n] = Frame
        /\ work'[n].cur \in -1 .. asts_len' /\ work'[n].label \in Nat /\ work'[n].entry \in Seq(Kinds)
        /\ work'[n].under \in Seq(Kinds) /\ work'[n].marks \in Seq(Nat) /\ work'[n].marks # <<>>
    <3>1. <<>> \in Seq(Kinds) /\ 0 \in Nat OBVIOUS
    <3> QED BY <1>5, <1>9, <1>10, <1>11, <3>1
  <2>10. DeclaredAs(work[n].node, {"FUNC", "PROC"})' BY <2>1 DEF DeclaredAs
  <2>11. IsContext(work[n].saved)' BY <2>2 DEF IsContext
  <2> QED BY <2>7, <2>8, <2>9, <2>10, <2>11 DEF IsActivation, Frame
<1>15. (IF Len(work[n].marks) = 1 THEN OfRoutine(work[n]) ELSE OfInlined(work[n]))'
  <2>1. ~(Len(work'[n].marks) = 1) BY <1>9
  <2>2. OfInlined(work[n])'
    <3>1. (astid(work[n].node))' = astid(id) BY <1>11
    <3> QED BY <1>9, <1>10, <3>1 DEF OfInlined, ArgKinds
  <2> QED BY <2>1, <2>2
<1>16. Encloses(work[n - 1], work[n])'
  <2>1. work'[n - 1].cur >= 0
    <3>1. work'[n - 1] = Current /\ Current.cur \in -1 .. asts_len BY <1>1, <1>2, <1>6, <1>13
    <3>2. ~(Current.cur < 0) BY DEF Finished
    <3>3. asts_len \in Nat BY AstOf
    <3> QED BY <3>1, <3>2, <3>3
  <2> QED BY <2>1 DEF Encloses, BranchBlocks, LoopBlocks
<1>17. Expands(n)' BY DEF Expands
<1>18. Decl(n)' = astid(id) BY <1>11 DEF Decl
<1>19. IsBlock(n)' BY <1>9, <1>10, <1>13, <1>14, <1>15, <1>16, <1>17 DEF IsBlock
<1> QED BY <1>17, <1>18, <1>19

LEMMA StraightLabels ==
    ASSUME CompilerShape, CountersGrow, Opened(Len(work)), Newcomer(Len(work)),
           NEW s, Appends(s), Straight(s)
    PROVE  LabelsInCode' /\ LabelsToCome'
<1>1. Activations /\ LabelsInCode /\ LabelsToCome BY DEF CompilerShape
<1>2. /\ IsSeq(work) /\ DOMAIN work = 1 .. Len(work) /\ Len(work) \in Nat
  BY <1>1, IsSeqProperties DEF Activations
<1>3. \A k \in 1 .. Len(work) : work[k].label \in Nat
  BY <1>1, <1>2 DEF Activations, IsBlock, IsActivation
<1>4. NewLabels(s) BY StraightIsNew
<1>5. NewJumps(s)
  <2>1. \A k \in DOMAIN work : \A l, n : Awaits(k, l, n) => Known(l, n)' BY <1>2, AwaitedStay
  <2> QED BY <2>1 DEF NewJumps, Straight
<1>6. LabelsInCode' BY <1>1, <1>4, <1>5, LabelsInCodeStep
<1>7. LabelsToCome' BY <1>1, <1>2, <1>3, StraightDefinesNothing, LabelsToComeStep
<1> QED BY <1>6, <1>7

LEMMA InlineIsNew == ASSUME NEW m, work'[m + 1].block = "inline" PROVE Newcomer(m)
BY DEF Newcomer, BranchBlocks, LoopBlocks, Awaited, Family

LEMMA ShapeInline ==
    ASSUME CompilerShape, Compiling({"CALL"}), NEW id, DeclaredAs(id, {"FUNC", "PROC"}), astid(id).inlin,
           NEW ts \in Seq(Kinds), compile_inline(id, ts)
    PROVE  CompilerShape'
<1>1. CASE ~Fits \/ astid(id).body < 0 BY <1>1, ShapeCrashes DEF compile_inline
<1>2. CASE ~(~Fits \/ astid(id).body < 0)
  <2> DEFINE isProcedure == astid(id).kind = "PROC"
  <2>1. PICK m, n, isProc, own, saved, under, marks :
           /\ m = Len(work) /\ n = m + 1
           /\ isProc = isProcedure /\ own = (IF isProcedure THEN proc_ctx ELSE func_ctx)
           /\ saved = (IF isProcedure = InProc THEN WithTypes(own, ts) ELSE own)
           /\ under = UnderBody(id, ts) /\ marks = MarksOfBody(id, ts)
    OBVIOUS
  <2> DEFINE enter == View([op |-> "enter"], Current.of, under, Current.marks)
             f == [block |-> "inline", of |-> Current.of, node |-> id, cur |-> astid(id).body,
                   label |-> 0, entry |-> <<>>, saved |-> saved, under |-> under, marks |-> marks]
  <2>2. /\ work' = Append(work, f)
        /\ IF isProc
           THEN /\ proc_ctx' = ForBody(own, id)
                /\ func_ctx' = IF InProc THEN func_ctx ELSE WithTypes(func_ctx, ts)
           ELSE /\ func_ctx' = ForBody(own, id)
                /\ proc_ctx' = IF InProc THEN WithTypes(proc_ctx, ts) ELSE proc_ctx
        /\ Emit(<<enter>>)
        /\ quirks' = quirks \union {q \in {"inline_ctx"} : InProc /\ ~isProc}
        /\ UNCHANGED <<prog, phase, maps, labels>>
    BY <1>2, <2>1 DEF compile_inline, WithTypes, ForBody, UnderBody, MarksOfBody
  <2>3. /\ phase \in {"main", "routines"} /\ work # <<>> /\ ~Finished BY Statement
  <2>4. /\ Maps /\ Progress /\ Activations /\ Contexts /\ OneBody /\ IsProgram(prog) /\ IsSeq(code)
        /\ IsSeq(work)
    BY ShapeFacts
  <2>5. Opened(Len(work)) /\ work'[n] = f BY <2>1, <2>2, <2>3, <2>4, AppendOpens
  <2>6. /\ DOMAIN work'[n] = Frame
        /\ work'[n].block = "inline" /\ work'[n].of = Current.of /\ work'[n].node = id
        /\ work'[n].cur = astid(id).body /\ work'[n].label = 0 /\ work'[n].entry = <<>>
        /\ work'[n].saved = saved /\ work'[n].under = under /\ work'[n].marks = marks
    <3>1. /\ DOMAIN f = Frame
          /\ f.block = "inline" /\ f.of = Current.of /\ f.node = id
          /\ f.cur = astid(id).body /\ f.label = 0 /\ f.entry = <<>>
          /\ f.saved = saved /\ f.under = under /\ f.marks = marks
      BY DEF Frame
    <3> HIDE DEF f
    <3> QED BY <2>5, <3>1
  <2>7. isProc \in BOOLEAN /\ prog' = prog BY <2>1, <2>2
  <2>8. Steady BY <2>2, <2>3, SteadyWhen
  <2> HIDE DEF f
  <2>9. id \in 0 .. asts_len - 1 BY DEF DeclaredAs
  <2>10. (isProc <=> astid(id).kind = "PROC") BY <2>1
  <2> HIDE DEF isProcedure
  <2>11. /\ own = (IF isProc THEN proc_ctx ELSE func_ctx)
         /\ saved = (IF isProc = InProc THEN WithTypes(own, ts) ELSE own)
    BY <2>1
  <2>12. /\ IsContext(saved) /\ saved.stmt = own.stmt
         /\ IsContext(proc_ctx)' /\ IsContext(func_ctx)'
         /\ IF isProc THEN proc_ctx'.stmt = id /\ func_ctx'.stmt = func_ctx.stmt
                      ELSE func_ctx'.stmt = id /\ proc_ctx'.stmt = proc_ctx.stmt
    BY <2>2, <2>3, <2>4, <2>7, <2>9, <2>11, InlinedContexts
  <2>14. /\ IsBlock(n)' /\ Expands(n)' /\ Decl(n)' = astid(id)
    <3>1. KeepsMaps /\ m = Len(work) /\ n = m + 1 BY <2>1, <2>8 DEF Steady
    <3>2. ~(astid(id).body < 0) BY <1>2
    <3>3. Activations /\ IsProgram(prog) /\ work # <<>> /\ ~Finished /\ Opened(Len(work)) /\ IsContext(saved)
      BY <2>3, <2>4, <2>5, <2>12
    <3>4. work'[n].under = UnderBody(id, ts) /\ work'[n].marks = MarksOfBody(id, ts) BY <2>1, <2>6
    <3> QED BY <2>6, <3>1, <3>2, <3>3, <3>4, InlinedBlock
  <2>15. m = Len(work) /\ n = m + 1 BY <2>1
  <2>16. IsBlock(m + 1)' /\ Expands(m + 1)' /\ work'[m + 1].block = "inline" BY <2>6, <2>14, <2>15
  <2>17. KeepsMaps BY <2>8 DEF Steady
  <2>18. Maps' /\ Progress' /\ Activations'
    <3>1. Progress' BY <2>4, <2>5, <2>8, ProgressStays
    <3>2. Opened(m) BY <2>5, <2>15
    <3>3. Activations' BY <2>4, <2>16, <2>17, <3>2, BlocksOpen
    <3> QED BY <2>17, <3>1, <3>3 DEF KeepsMaps
  <2>19. Contexts'
    <3>1. Decl(n)'.kind = IF isProc THEN "PROC" ELSE "FUNC"
      BY <2>10, <2>14 DEF DeclaredAs
    <3>2. IF isProc
          THEN /\ proc_ctx'.stmt = work'[n].node /\ func_ctx'.stmt = func_ctx.stmt
               /\ work'[n].saved.stmt = proc_ctx.stmt
          ELSE /\ func_ctx'.stmt = work'[n].node /\ proc_ctx'.stmt = proc_ctx.stmt
               /\ work'[n].saved.stmt = func_ctx.stmt
      BY <2>6, <2>11, <2>12
    <3> QED BY <2>3, <2>4, <2>5, <2>6, <2>7, <2>12, <2>14, <2>15, <3>1, <3>2, InlineContexts
  <2>20. OneBody'
    <3>1. Opened(m) BY <2>5, <2>15
    <3> QED BY <2>4, <2>7, <2>16, <3>1, OneBodyKept
  <2>21. ("inline_ctx" \notin quirks => FunctionsFirst)'
    <3> SUFFICES ASSUME "inline_ctx" \notin quirks' PROVE FunctionsFirst' OBVIOUS
    <3>1. FunctionsFirst /\ (isProc \/ ~InProc) BY <2>2 DEF CompilerShape
    <3>2. Opened(m) BY <2>5, <2>15
    <3>3. isProc => Expanded(n, "PROC")' BY <2>10, <2>14 DEF Expanded
    <3>4. ~isProc => \A k \in 1 .. m : ~Expanded(k, "PROC")
      <4>1. ~InProc => \A k \in DOMAIN work : ~Expanded(k, "PROC") BY <2>3, <2>4, CurrentContext
      <4>2. DOMAIN work = 1 .. Len(work) BY <2>3, <2>4, BlocksAre
      <4> QED BY <2>15, <3>1, <4>1, <4>2
    <3>5. Expanded(m + 1, "PROC")' \/ \A k \in 1 .. m : ~Expanded(k, "PROC") BY <2>15, <3>3, <3>4
    <3> QED BY <2>4, <2>7, <3>1, <3>2, <3>5, FunctionsFirstKept
  <2>22. LabelsInCode' /\ LabelsToCome'
    <3>1. enter.ins.op = "enter" BY DEF View
    <3> HIDE DEF enter
    <3>2. IsSeq(<<enter>>) /\ Straight(<<enter>>) BY <3>1, OneStraight
    <3>3. Appends(<<enter>>) BY <2>2, <2>4, <3>2 DEF Emit, Appends
    <3>4. Newcomer(m) BY <2>16, InlineIsNew
    <3>5. Newcomer(Len(work)) BY <2>15, <3>4
    <3>6. CountersGrow BY <2>8 DEF Steady
    <3> QED BY <2>5, <3>2, <3>3, <3>5, <3>6, StraightLabels
  <2> QED BY <2>18, <2>19, <2>20, <2>21, <2>22 DEF CompilerShape
<1> QED BY <1>1, <1>2

LEMMA SteadyPut ==
    ASSUME CompilerShape, phase \in {"main", "routines"}, UNCHANGED <<prog, phase, cursor, externs_map, labels>>,
           NEW id, DeclaredAs(id, {"FUNC", "PROC", "EXTERN"}), values_map' = Put(values_map, astid(id).name, id),
           quirks \subseteq quirks'
    PROVE  Steady
<1>1. Maps /\ label_counter \in Nat /\ while_label_counter \in Nat BY ShapeFacts
<1>2. KeepsMaps BY <1>1, MapsGrow
<1> QED BY <1>1, <1>2 DEF Steady, CountersGrow, labels

LEMMA ShapeFunctionCall ==
    ASSUME CompilerShape, Compiling({"CALL"}), NEW id, DeclaredAs(id, {"FUNC", "PROC", "EXTERN"}),
           astid(id).name = Node.name, compile_function_call(id)
    PROVE  CompilerShape'
<1>1. /\ phase \in {"main", "routines"} /\ work # <<>> /\ ~Finished /\ Types \in Seq(Kinds)
      /\ Len(Types) \in Nat
  BY Statement
<1>2. Maps /\ Activations /\ Contexts /\ IsProgram(prog) /\ IsSeq(code) BY ShapeFacts
<1>3. /\ Len(astid(id).args) \in Nat /\ Reversed(astid(id).rets) \in Seq(Kinds) BY <1>2, SignatureOf
<1> DEFINE d == astid(id)
           nargs == Len(d.args)
           ts == Drop(Types, nargs)
           after == ts \o Reversed(d.rets)
           call == IF d.kind = "EXTERN"
                   THEN [op |-> "ffi", args |-> ArgKinds(d.args),
                         rets |-> IF d.proto = "EXTERN_FUNC" THEN <<d.rets[1]>> ELSE <<>>]
                   ELSE CallOf(d)
<1>4. CASE Len(Types) < nargs \/ \E i \in 1 .. nargs : TopN(Types, nargs)[i] # d.args[i].kind
  BY <1>4, ShapeRejects DEF compile_function_call
<1>5. CASE ~(Len(Types) < nargs \/ \E i \in 1 .. nargs : TopN(Types, nargs)[i] # d.args[i].kind)
  <2>1. nargs \in Nat /\ nargs <= Len(Types) BY <1>1, <1>3, <1>5
  <2> HIDE DEF nargs
  <2>2. ts \in Seq(Kinds) BY <1>1, <2>1, DropProperties
  <2>3. after \in Seq(Kinds)
    <3> HIDE DEF ts
    <3> QED BY <1>3, <2>2, ConcatProperties
  <2>4. CASE d.kind = "EXTERN" /\ nargs > REGISTERS
    <3>1. Stop("corrupt") BY <1>5, <2>4 DEF compile_function_call, nargs
    <3> QED BY <3>1, ShapeStops
  <2>5. CASE d.kind # "EXTERN" /\ d.inlin
    <3>1. compile_inline(id, ts) BY <1>5, <2>5 DEF compile_function_call, nargs
    <3>2. DeclaredAs(id, {"FUNC", "PROC"}) BY <2>5 DEF DeclaredAs
    <3> HIDE DEF ts
    <3> QED BY <2>2, <2>5, <3>1, <3>2, ShapeInline
  <2>6. CASE ~(d.kind = "EXTERN" /\ nargs > REGISTERS) /\ ~(d.kind # "EXTERN" /\ d.inlin)
    <3>1. IF Overflow(ts, after) # "none" THEN Stop(Overflow(ts, after))
          ELSE /\ Emit(<<At(call, Types)>>) /\ SetTypes(after)
               /\ work' = Advanced(work)
               /\ values_map' = Put(values_map, Node.name, id)
               /\ quirks' = quirks \union
                      {q \in {"extern_rets"} : d.kind = "EXTERN" /\ Len(d.rets) > 1}
               /\ UNCHANGED <<prog, phase, cursor, externs_map, labels>>
      BY <1>5, <2>6 DEF compile_function_call, nargs
    <3> DEFINE v == At(call, Types)
    <3>2. v.ins.op \notin {"label", "jmp", "jz"} BY DEF At, View, CallOf
    <3> HIDE DEF v, call, after, ts
    <3>3. CASE Overflow(ts, after) # "none" BY <3>1, <3>3, OverflowIs, ShapeStops
    <3>4. CASE Overflow(ts, after) = "none"
      <4>1. /\ Emit(<<v>>) /\ SetTypes(after) /\ work' = Advanced(work)
            /\ values_map' = Put(values_map, astid(id).name, id)
            /\ quirks \subseteq quirks'
            /\ UNCHANGED <<prog, phase, cursor, externs_map, labels>>
        BY <3>1, <3>4 DEF v
      <4>2. Steady BY <1>1, <4>1, SteadyPut
      <4>3. SameStmts BY <1>1, <1>2, <2>3, <4>1, SetTypesKeeps
      <4>4. Moved(Len(work)) BY <1>1, <1>2, <4>1, AdvancedMoves
      <4>5. IsSeq(<<v>>) /\ Straight(<<v>>) BY <3>2, OneStraight
      <4>6. Appends(<<v>>) BY <1>2, <4>1, <4>5 DEF Emit, Appends
      <4> QED BY <4>2, <4>3, <4>4, <4>5, <4>6, StraightCodeStep
    <3> QED BY <3>3, <3>4
  <2> QED BY <2>4, <2>5, <2>6
<1> QED BY <1>4, <1>5

LEMMA ShapeCall == ASSUME CompilerShape, CompileCall PROVE CompilerShape'
<1> DEFINE name == Node.name
<1>1. Compiling({"CALL"}) BY DEF CompileCall
<1>2. Types \in Seq(Kinds) BY <1>1, Statement
<1>3. IsMap(values_map, {"FUNC", "PROC", "EXTERN"}) /\ IsMap(externs_map, {"EXTERN"})
  BY ShapeFacts DEF Maps
<1>4. CASE Find(values_map, name) # NULL
  <2>1. PICK id : id = Find(values_map, name) OBVIOUS
  <2>2. compile_function_call(id) BY <1>4, <2>1 DEF CompileCall
  <2>3. DeclaredAs(id, {"FUNC", "PROC", "EXTERN"}) /\ astid(id).name = Node.name
    BY <1>3, <1>4, <2>1, FindIsDeclared
  <2> QED BY <1>1, <2>2, <2>3, ShapeFunctionCall
<1>5. CASE Find(values_map, name) = NULL /\ Find(externs_map, name) # NULL
  <2>1. PICK id : id = Find(externs_map, name) OBVIOUS
  <2>2. compile_function_call(id) BY <1>5, <2>1 DEF CompileCall
  <2>3. DeclaredAs(id, {"EXTERN"}) /\ astid(id).name = Node.name
    BY <1>3, <1>5, <2>1, FindIsDeclared
  <2>4. DeclaredAs(id, {"FUNC", "PROC", "EXTERN"}) BY <2>3 DEF DeclaredAs
  <2> QED BY <1>1, <2>2, <2>3, <2>4, ShapeFunctionCall
<1>6. CASE Find(values_map, name) = NULL /\ Find(externs_map, name) = NULL /\ name \in DOMAIN prog.vars
  <2> DEFINE ins == LoadVar(name)
             kind == prog.vars[name].kind
  <2>1. Continue(<<At(ins, Types)>>, Append(Types, kind)) BY <1>6 DEF CompileCall
  <2>2. Append(Types, kind) \in Seq(Kinds) BY <1>2, <1>6, DataKinds, PushedKinds
  <2>3. Harmless(ins) BY DEF Harmless, LoadVar
  <2> HIDE DEF ins, kind
  <2> QED BY <1>1, <2>1, <2>2, <2>3, ShapeOne
<1>7. CASE Find(values_map, name) = NULL /\ Find(externs_map, name) = NULL /\ name \notin DOMAIN prog.vars
  <2>1. compile_argument_push(name) BY <1>7 DEF CompileCall
  <2> QED BY <1>1, <2>1, ShapeArgument
<1> QED BY <1>4, <1>5, <1>6, <1>7

LEMMA Return ==
    ASSUME CompilerShape, NEW block, Returning(block)
    PROVE  /\ phase \in {"main", "routines"} /\ work # <<>> /\ Current.block = block
           /\ Current = work[Len(work)] /\ Len(work) \in Nat \ {0}
           /\ Types \in Seq(Kinds) /\ Len(Types) \in Nat /\ IsSeq(Types)
           /\ (block = "routine" <=> Len(work) = 1)
           /\ (block # "routine" => Len(work) > 1 /\ Len(work) - 1 \in 1 .. Len(work)
                                    /\ Len(work) - 1 \in Nat \ {0})
<1>1. /\ phase \in {"main", "routines"} /\ work # <<>> /\ Current.block = block BY DEF Returning
<1>2. Activations /\ Contexts BY ShapeFacts
<1>3. /\ Len(work) \in Nat \ {0} /\ IsBlock(Len(work)) /\ Current = work[Len(work)]
  BY <1>1, <1>2, BlocksAre
<1>4. Types \in Seq(Kinds) /\ Len(Types) \in Nat /\ IsSeq(Types) BY <1>1, <1>2, CurrentContext
<1>5. block = "routine" <=> Len(work) = 1 BY <1>1, <1>3 DEF IsBlock
<1>6. block # "routine" => Len(work) > 1 /\ Len(work) - 1 \in 1 .. Len(work)
                           /\ Len(work) - 1 \in Nat \ {0}
  <2>1. PICK n : n = Len(work) OBVIOUS
  <2>2. n \in Nat \ {0} BY <1>3, <2>1
  <2>3. n # 1 => n > 1 /\ n - 1 \in 1 .. n /\ n - 1 \in Nat \ {0} BY <2>2
  <2> QED BY <1>5, <2>1, <2>3
<1> QED BY <1>1, <1>3, <1>4, <1>5, <1>6

LEMMA ContextsMove ==
    ASSUME Activations, Contexts, prog' = prog, IsContext(proc_ctx)', IsContext(func_ctx)',
           NEW m, Moved(m), NEW p, NEW f, LastExpanded("PROC", m, p), LastExpanded("FUNC", m, f),
           proc_ctx'.stmt = p, func_ctx'.stmt = f
    PROVE  Contexts'
<1>1. m \in 1 .. Len(work) /\ IsSeq(work') /\ Len(work') = m BY DEF Moved
<1>2. work # <<>> BY <1>1
<1>3. Len(work) \in Nat \ {0} /\ DOMAIN work = 1 .. Len(work) BY <1>2, OutermostIs
<1>4. DOMAIN work' = 1 .. m BY <1>1, IsSeqProperties
<1>5. SameBodies(m) /\ \A k \in 1 .. m : work'[k].saved = work[k].saved BY BodiesStay
<1>6. m \in Nat /\ m \in 0 .. m BY <1>1
<1>7. LastExpanded("PROC", m, p)' /\ LastExpanded("FUNC", m, f)' BY <1>5, <1>6, SameLastExpanded
<1>8. (LastExpanded("PROC", Len(work), proc_ctx.stmt) /\ LastExpanded("FUNC", Len(work), func_ctx.stmt))'
  BY <1>1, <1>7 DEF LastExpanded
<1>9. ASSUME NEW k \in 1 .. m, work'[k].block = "inline"
      PROVE  LastExpanded(Decl(k).kind, k - 1, work[k].saved.stmt)'
  <2>1. k \in DOMAIN work /\ k - 1 \in 0 .. m
    <3>1. k \in 1 .. Len(work) /\ k - 1 \in 0 .. m BY <1>1, <1>3, <1>6
    <3> QED BY <1>3, <3>1
  <2>2. work[k].block = "inline" BY <1>5, <1>9 DEF SameBodies
  <2>3. LastExpanded(Decl(k).kind, k - 1, work[k].saved.stmt) BY <2>1, <2>2 DEF Contexts
  <2>4. Decl(k)' = Decl(k) /\ work'[k].saved = work[k].saved BY <1>5, SameExpanded
  <2>5. PICK x, y : x = Decl(k).kind /\ y = work[k].saved.stmt OBVIOUS
  <2>6. LastExpanded(x, k - 1, y)' BY <1>5, <1>6, <2>1, <2>3, <2>5, SameLastExpanded
  <2>7. x = (Decl(k).kind)' /\ y = (work[k].saved.stmt)' BY <2>4, <2>5
  <2> QED BY <2>6, <2>7 DEF LastExpanded
<1> QED BY <1>4, <1>8, <1>9 DEF Contexts

(* A block that awaits no label is left.                                      *)
LEMMA LeaveLabels ==
    ASSUME CompilerShape, CountersGrow, work # <<>>, NEW m, Moved(m), m = Len(work) - 1,
           Awaited(Current.block) = {}, NEW s, Appends(s), Straight(s)
    PROVE  LabelsInCode' /\ LabelsToCome'
<1>1. Activations /\ LabelsInCode /\ LabelsToCome BY DEF CompilerShape
<1>2. /\ IsSeq(work) /\ DOMAIN work = 1 .. Len(work) /\ Len(work) \in Nat
  BY <1>1, IsSeqProperties DEF Activations
<1>3. \A k \in 1 .. Len(work) : work[k].label \in Nat
  BY <1>1, <1>2 DEF Activations, IsBlock, IsActivation
<1>4. NewLabels(s) BY StraightIsNew
<1>5. \A k \in 1 .. Len(work) : k \in 1 .. m \/ k = Len(work) BY <1>2
<1>6. NewJumps(s)
  <2>1. \A k \in DOMAIN work : \A l, n : Awaits(k, l, n) => Known(l, n)'
    <3> SUFFICES ASSUME NEW k \in DOMAIN work, NEW l, NEW n, Awaits(k, l, n) PROVE Known(l, n)'
      OBVIOUS
    <3>1. k # Len(work) BY DEF Awaits, Current
    <3>2. k \in 1 .. m BY <1>2, <1>5, <3>1
    <3> QED BY <1>2, <3>2, AwaitedStay
  <2> QED BY <2>1 DEF NewJumps, Straight
<1>7. LabelsInCode' BY <1>1, <1>4, <1>6, LabelsInCodeStep
<1>8. ~Opened(m)
  <2>1. m \in Nat BY <1>2 DEF Moved
  <2> QED BY <2>1 DEF Opened, Moved
<1>9. LabelsToCome' BY <1>1, <1>2, <1>3, <1>8, StraightDefinesNothing, LabelsToComeStep
<1> QED BY <1>7, <1>9

LEMMA ShapeEndInline == ASSUME CompilerShape, EndInline PROVE CompilerShape'
<1>1. Returning("inline") BY SMTT(30) DEF EndInline
<1> DEFINE d == astid(Current.node)
           isProc == d.kind = "PROC"
           proc == IF isProc THEN Current.saved ELSE proc_ctx
           func == IF isProc THEN func_ctx ELSE Current.saved
           old == IF proc.stmt # NULL THEN proc.types ELSE func.types
           new == old \o Reversed(d.rets)
           v == At([op |-> "leave", nargs |-> Len(d.args), rets |-> Reversed(d.rets)], Types)
<1>2. IF Overflow(old, new) # "none" THEN Stop(Overflow(old, new))
      ELSE /\ Emit(<<v>>)
           /\ proc_ctx' = (IF proc.stmt # NULL THEN WithTypes(proc, new) ELSE proc)
           /\ func_ctx' = (IF proc.stmt # NULL THEN func ELSE WithTypes(func, new))
           /\ values_map' = Put(values_map, d.name, Current.node)
           /\ work' = Advanced(Drop(work, 1))
           /\ quirks' = quirks \union {q \in {"inline_rets"} : ~Returns(Types, d.rets)}
           /\ UNCHANGED <<prog, phase, cursor, externs_map, labels>>
  BY DEF EndInline, WithTypes
<1>3. /\ phase \in {"main", "routines"} /\ work # <<>> /\ Current.block = "inline"
      /\ Current = work[Len(work)] /\ Len(work) > 1 /\ Len(work) \in Nat \ {0}
      /\ Len(work) - 1 \in 1 .. Len(work) /\ Len(work) - 1 \in Nat \ {0}
  BY <1>1, Return
<1>4. /\ Maps /\ Progress /\ Activations /\ Contexts /\ OneBody /\ IsProgram(prog) /\ IsSeq(code)
      /\ IsSeq(work)
  BY ShapeFacts
<1>5. v.ins.op \notin {"label", "jmp", "jz"} BY DEF At, View
<1> HIDE DEF v
<1>6. IsSeq(<<v>>) /\ Straight(<<v>>) BY <1>5, OneStraight
<1>7. DeclaredAs(Current.node, {"FUNC", "PROC"}) /\ IsContext(Current.saved)
  BY <1>3, <1>4, BlocksAre DEF IsActivation
<1>8. DeclaredAs(Current.node, {"FUNC", "PROC", "EXTERN"}) BY <1>7 DEF DeclaredAs
<1>9. Reversed(d.rets) \in Seq(Kinds) BY <1>4, <1>8, SignatureOf
<1>10. IsContext(proc) /\ IsContext(func) BY <1>4, <1>7 DEF Contexts
<1>11. PICK m : m = Len(work) - 1 OBVIOUS
<1>12. /\ LastExpanded("PROC", m, proc.stmt) /\ LastExpanded("FUNC", m, func.stmt)
  <2>1. Len(work) \in DOMAIN work BY <1>3, <1>4, BlocksAre
  <2>2. LastExpanded(Decl(Len(work)).kind, Len(work) - 1, Current.saved.stmt)
    BY <1>3, <1>4, <2>1 DEF Contexts
  <2>3. Decl(Len(work)) = d BY <1>3 DEF Decl
  <2>4. LastExpanded(d.kind, m, Current.saved.stmt) BY <1>11, <2>2, <2>3
  <2>5. LastExpanded("PROC", Len(work), proc_ctx.stmt) /\ LastExpanded("FUNC", Len(work), func_ctx.stmt)
    BY <1>4 DEF Contexts
  <2>6. CASE isProc
    <3>1. ~Expanded(Len(work), "FUNC") BY <2>3, <2>6 DEF Expanded
    <3>2. LastExpanded("FUNC", Len(work) - 1, func_ctx.stmt) BY <1>3, <2>5, <3>1, LastExpandedBelow
    <3> QED BY <1>11, <2>4, <2>6, <3>2
  <2>7. CASE ~isProc
    <3>1. ~Expanded(Len(work), "PROC") BY <2>3, <2>7 DEF Expanded
    <3>2. LastExpanded("PROC", Len(work) - 1, proc_ctx.stmt) BY <1>3, <2>5, <3>1, LastExpandedBelow
    <3>3. d.kind = "FUNC" BY <1>7, <2>7 DEF DeclaredAs
    <3> QED BY <1>11, <2>4, <2>7, <3>2, <3>3
  <2> QED BY <2>6, <2>7
<1> HIDE DEF d, isProc, proc, func
<1>13. proc.stmt # NULL \/ func.stmt # NULL
  <2>1. m \in 1 .. Len(work) BY <1>3, <1>11
  <2>2. PICK x, y : x = proc.stmt /\ y = func.stmt OBVIOUS
  <2>3. LastExpanded("PROC", m, x) /\ LastExpanded("FUNC", m, y) BY <1>12, <2>2
  <2> QED BY <1>4, <2>1, <2>2, <2>3, OneIsCurrent
<1>14. old \in Seq(Kinds) BY <1>10 DEF IsContext
<1> HIDE DEF old
<1>15. new \in Seq(Kinds) BY <1>9, <1>14, ConcatProperties
<1> HIDE DEF new
<1>16. CASE Overflow(old, new) # "none" BY <1>2, <1>16, OverflowIs, ShapeStops
<1>17. CASE Overflow(old, new) = "none"
  <2>1. /\ Emit(<<v>>)
        /\ proc_ctx' = (IF proc.stmt # NULL THEN WithTypes(proc, new) ELSE proc)
        /\ func_ctx' = (IF proc.stmt # NULL THEN func ELSE WithTypes(func, new))
        /\ values_map' = Put(values_map, d.name, Current.node)
        /\ work' = Advanced(Drop(work, 1)) /\ quirks \subseteq quirks'
        /\ UNCHANGED <<prog, phase, cursor, externs_map, labels>>
    BY <1>2, <1>17
  <2>2. Steady
    <3>1. values_map' = Put(values_map, astid(Current.node).name, Current.node) BY <2>1 DEF d
    <3> QED BY <1>3, <1>8, <2>1, <3>1, SteadyPut
  <2>3. Moved(m) BY <1>3, <1>4, <1>11, <2>1, DropAdvancedMoves
  <2>4. /\ IsContext(proc_ctx') /\ IsContext(func_ctx')
        /\ proc_ctx'.stmt = proc.stmt /\ func_ctx'.stmt = func.stmt
    <3>1. CASE proc.stmt # NULL
      <4>1. IsContext(WithTypes(proc, new)) /\ WithTypes(proc, new).stmt = proc.stmt
        BY <1>10, <1>15, <3>1, ContextWith
      <4> QED BY <1>10, <2>1, <3>1, <4>1
    <3>2. CASE proc.stmt = NULL
      <4>1. IsContext(WithTypes(func, new)) /\ WithTypes(func, new).stmt = func.stmt
        BY <1>10, <1>13, <1>15, <3>2, ContextWith
      <4> QED BY <1>10, <2>1, <3>2, <4>1
    <3> QED BY <3>1, <3>2
  <2>5. prog' = prog /\ KeepsMaps /\ Maps' /\ quirks \subseteq quirks' /\ CountersGrow
    BY <2>2 DEF Steady, KeepsMaps
  <2>6. Progress' BY <1>4, <2>2, <2>3, ProgressStays
  <2>7. Activations' BY <1>4, <2>3, <2>5, BlocksMove
  <2>8. Contexts'
    <3>1. IsContext(proc_ctx)' /\ IsContext(func_ctx)' BY <2>4, <2>5, ContextsBecome
    <3>2. PICK x, y : x = proc.stmt /\ y = func.stmt OBVIOUS
    <3>3. LastExpanded("PROC", m, x) /\ LastExpanded("FUNC", m, y) BY <1>12, <3>2
    <3>4. proc_ctx'.stmt = x /\ func_ctx'.stmt = y BY <2>4, <3>2
    <3> QED BY <1>4, <2>3, <2>5, <3>1, <3>3, <3>4, ContextsMove
  <2>9. ~Opened(m)
    <3>1. m \in Nat BY <1>3, <1>11
    <3> QED BY <2>3, <3>1 DEF Opened, Moved
  <2>10. OneBody' BY <1>4, <2>3, <2>5, <2>9, OneBodyKept
  <2>11. ("inline_ctx" \notin quirks => FunctionsFirst)'
    <3> SUFFICES ASSUME "inline_ctx" \notin quirks' PROVE FunctionsFirst' OBVIOUS
    <3>1. FunctionsFirst BY <2>5 DEF CompilerShape
    <3> QED BY <1>4, <2>3, <2>5, <2>9, <3>1, FunctionsFirstKept
  <2>12. LabelsInCode' /\ LabelsToCome'
    <3>1. Awaited(Current.block) = {} BY <1>3 DEF Awaited, LoopBlocks
    <3>2. Appends(<<v>>) BY <1>4, <1>6, <2>1 DEF Emit, Appends
    <3> QED BY <1>3, <1>6, <1>11, <2>3, <2>5, <3>1, <3>2, LeaveLabels
  <2> QED BY <2>5, <2>6, <2>7, <2>8, <2>10, <2>11, <2>12 DEF CompilerShape
<1> QED BY <1>16, <1>17

-----------------------------------------------------------------------------
(* From one routine to the next.                                              *)
LEMMA EmptySequence ==
    ASSUME NEW s, s = <<>> PROVE IsSeq(s) /\ Len(s) = 0 /\ DOMAIN s = {} /\ \A k : k \notin 1 .. Len(s)
<1>1. IsSeq(s) /\ Len(s) = 0 BY SmallSeqs
<1>2. DOMAIN s = 1 .. Len(s) BY <1>1, IsSeqProperties
<1>3. 1 .. 0 = {} OBVIOUS
<1> QED BY <1>1, <1>2, <1>3

LEMMA IdleContexts ==
    ASSUME CompilerShape, work = <<>> PROVE proc_ctx = NoCtx /\ func_ctx = NoCtx
<1>1. \A k : k \notin 1 .. Len(work) BY EmptySequence
<1>2. Contexts BY DEF CompilerShape
<1>3. proc_ctx.stmt = NULL /\ func_ctx.stmt = NULL BY <1>1, <1>2 DEF Contexts, LastExpanded
<1> QED BY <1>2, <1>3 DEF Contexts, IsContext

LEMMA NoContext == ASSUME asts_len \in Nat PROVE IsContext(NoCtx) /\ NoCtx.stmt = NULL
<1>1. -1 \in -1 .. asts_len - 1 /\ <<>> \in Seq(Kinds) OBVIOUS
<1> QED BY <1>1 DEF IsContext, NoCtx, NULL

LEMMA NoBlocks ==
    ASSUME IsProgram(prog), prog' = prog, work' = <<>>, proc_ctx' = NoCtx, func_ctx' = NoCtx
    PROVE  Activations' /\ Contexts' /\ OneBody' /\ FunctionsFirst' /\ LabelsToCome'
<1>1. IsSeq(work') /\ Len(work') = 0 /\ DOMAIN work' = {} /\ \A k : k \notin 1 .. Len(work')
  BY EmptySequence
<1>2. Activations' /\ OneBody' /\ FunctionsFirst' /\ LabelsToCome'
  BY <1>1 DEF Activations, OneBody, FunctionsFirst, LabelsToCome
<1>3. IsContext(NoCtx) /\ NoCtx.stmt = NULL BY NoContext, AstOf
<1>4. IsContext(proc_ctx)' /\ IsContext(func_ctx)' BY <1>3, ContextsBecome
<1>5. (LastExpanded("PROC", Len(work), proc_ctx.stmt) /\ LastExpanded("FUNC", Len(work), func_ctx.stmt))'
  BY <1>1, <1>3 DEF LastExpanded
<1> QED BY <1>1, <1>2, <1>4, <1>5 DEF Contexts

LEMMA ShapeIdle ==
    ASSUME CompilerShape, work = <<>>, UNCHANGED <<prog, ctx, work, labels, code, quirks>>, Maps', Progress'
    PROVE  CompilerShape'
<1>1. proc_ctx' = NoCtx /\ func_ctx' = NoCtx /\ work' = <<>> BY IdleContexts DEF ctx
<1>2. Activations' /\ Contexts' /\ OneBody' /\ FunctionsFirst' /\ LabelsToCome'
  BY <1>1, ShapeFacts, NoBlocks
<1>3. LabelsInCode'
  BY DEF CompilerShape, LabelsInCode, LabelsAt, JumpsAt, Labels, Counter, Awaits, labels
<1> QED BY <1>2, <1>3 DEF CompilerShape

(* What the parser has made sure of, on the way through the declarations.     *)
LEMMA ChainOf ==
    ASSUME IsProgram(prog), check_for_main_function(prog), NEW i \in TopLevel(prog) \union {asts_len}
    PROVE  /\ asts_len \in Nat /\ i \in 0 .. asts_len
           /\ prog.main \in TopLevel(prog) /\ prog.main \in 0 .. asts_len - 1
           /\ DeclaredAs(prog.main, {"FUNC"})
           /\ astid(prog.main).name = MAIN_FUNCTION /\ astid(prog.main).args = <<>>
           /\ i = asts_len => astid(i).next = 0
           /\ i # asts_len => /\ i \in TopLevel(prog) /\ i \in 0 .. asts_len - 1 /\ astid(i).next > i
                              /\ astid(i).next \in TopLevel(prog) \union {asts_len}
                              /\ astid(i).next \in 0 .. asts_len
                              /\ (i < prog.main => astid(i).next <= prog.main)
<1>1. /\ asts_len \in Nat /\ TopLevel(prog) \subseteq 0 .. asts_len - 1 /\ astid(asts_len).next = 0
      /\ \A k \in TopLevel(prog) :
            /\ astid(k).next > k /\ astid(k).next \in TopLevel(prog) \union {asts_len}
            /\ k < prog.main => astid(k).next <= prog.main
  BY DEF IsProgram, asts_len, astid
<1>2. /\ prog.main \in TopLevel(prog) /\ astid(prog.main).kind = "FUNC"
      /\ astid(prog.main).name = MAIN_FUNCTION /\ astid(prog.main).args = <<>>
  BY DEF check_for_main_function, astid
<1>3. prog.main \in 0 .. asts_len - 1 BY <1>1, <1>2
<1>4. i \in 0 .. asts_len BY <1>1
<1>5. DeclaredAs(prog.main, {"FUNC"}) BY <1>2, <1>3 DEF DeclaredAs
<1> QED BY <1>1, <1>2, <1>3, <1>4, <1>5

LEMMA ProgramStays ==
    ASSUME IsProgram(prog), check_for_main_function(prog), prog' = prog
    PROVE  /\ (IsProgram(prog) /\ check_for_main_function(prog))'
           /\ TopLevel(prog)' = TopLevel(prog) /\ asts_len' = asts_len
<1>1. TopLevel(prog)' = TopLevel(prog) BY DEF TopLevel
<1>2. (IsProgram(prog) /\ check_for_main_function(prog))' BY <1>1 DEF IsProgram, check_for_main_function
<1> QED BY <1>1, <1>2 DEF asts_len

LEMMA ShapeFillMaps == ASSUME CompilerShape, FillMaps PROVE CompilerShape'
<1> DEFINE d == astid(cursor)
<1>1. Filling /\ phase = "fill" BY DEF FillMaps, Filling
<1>2. CASE d.kind \in Declarations /\ report_if_redeclared(d.name, cursor)
  BY <1>2, ShapeRejects DEF FillMaps
<1>3. CASE ~(d.kind \in Declarations /\ report_if_redeclared(d.name, cursor))
  <2>1. /\ values_map' = IF d.kind \in {"FUNC", "PROC"} THEN Put(values_map, d.name, cursor) ELSE values_map
        /\ externs_map' = IF d.kind = "EXTERN" THEN Put(externs_map, d.name, cursor) ELSE externs_map
        /\ cursor' = d.next
        /\ UNCHANGED <<prog, phase, ctx, work, labels, code, quirks>>
    BY <1>3 DEF FillMaps
  <2>2. /\ Maps /\ IsProgram(prog) /\ check_for_main_function(prog)
        /\ work = <<>> /\ code = <<>> /\ cursor \in TopLevel(prog) \union {asts_len}
        /\ cursor > prog.main => Find(values_map, MAIN_FUNCTION) = prog.main
        /\ label_counter \in Nat /\ while_label_counter \in Nat
    BY <1>1 DEF CompilerShape, Progress
  <2>3. /\ cursor \in 0 .. asts_len - 1 /\ cursor \in TopLevel(prog) /\ d.next > cursor
        /\ d.next \in TopLevel(prog) \union {asts_len} /\ d.next \in 0 .. asts_len /\ asts_len \in Nat
        /\ prog.main \in 0 .. asts_len - 1
        /\ cursor < prog.main => d.next <= prog.main
        /\ DeclaredAs(prog.main, {"FUNC"}) /\ astid(prog.main).name = MAIN_FUNCTION
    BY <1>1, <2>2, ChainOf DEF Filling
  <2>4. /\ IsMap(values_map, {"FUNC", "PROC", "EXTERN"}) /\ IsMap(externs_map, {"EXTERN"})
    BY <2>2 DEF Maps
  <2>5. d.kind \in {"FUNC", "PROC", "EXTERN"} => DeclaredAs(cursor, {"FUNC", "PROC", "EXTERN"})
    BY <2>3 DEF DeclaredAs
  <2>6. d.kind = "EXTERN" => DeclaredAs(cursor, {"EXTERN"}) BY <2>3 DEF DeclaredAs
  <2>7. IsMap(values_map', {"FUNC", "PROC", "EXTERN"})
    <3>1. CASE d.kind \in {"FUNC", "PROC"} BY <2>1, <2>4, <2>5, <3>1, PutKeepsMap
    <3>2. CASE d.kind \notin {"FUNC", "PROC"} BY <2>1, <2>4, <3>2
    <3> QED BY <3>1, <3>2
  <2>8. IsMap(externs_map', {"EXTERN"})
    <3>1. CASE d.kind = "EXTERN" BY <2>1, <2>4, <2>6, <3>1, PutKeepsMap
    <3>2. CASE d.kind # "EXTERN" BY <2>1, <2>4, <3>2, SMTT(30)
    <3> QED BY <3>1, <3>2
  <2>9. Maps' BY <2>1, <2>7, <2>8, ZenonT(30) DEF Maps, IsMap, DeclaredAs, asts_len, astid
  <2>10. ASSUME cursor' > prog.main PROVE Find(values_map', MAIN_FUNCTION) = prog.main
    <3>1. cursor >= prog.main BY <2>1, <2>3, <2>10
    <3>2. prog.main # NULL BY <2>3, IdsAreNotNull
    <3>3. CASE cursor > prog.main
      <4>1. Find(values_map, MAIN_FUNCTION) = prog.main BY <2>2, <3>3
      <4>2. CASE d.kind \in {"FUNC", "PROC"}
        <5>1. DeclaredAs(cursor, {"FUNC", "PROC", "EXTERN"}) BY <2>5, <4>2
        <5>2. \A key : Find(values_map, key) # NULL =>
                  Find(Put(values_map, d.name, cursor), key) = Find(values_map, key)
          BY <2>4, <5>1, PutKeepsMap
        <5> QED BY <2>1, <3>2, <4>1, <4>2, <5>2
      <4>3. CASE d.kind \notin {"FUNC", "PROC"} BY <2>1, <4>1, <4>3
      <4> QED BY <4>2, <4>3
    <3>4. CASE cursor = prog.main
      <4>1. d.kind = "FUNC" /\ d.name = MAIN_FUNCTION BY <2>3, <3>4 DEF DeclaredAs
      <4>2. Declared(MAIN_FUNCTION) \in {NULL, prog.main}
        BY <1>3, <3>4, <4>1 DEF report_if_redeclared, Declarations
      <4>3. DeclaredAs(cursor, {"FUNC", "PROC", "EXTERN"}) BY <2>5, <4>1
      <4>4. /\ Find(values_map, d.name) # NULL =>
                  Find(Put(values_map, d.name, cursor), d.name) = Find(values_map, d.name)
            /\ Find(values_map, d.name) = NULL => Find(Put(values_map, d.name, cursor), d.name) = cursor
        BY <2>4, <4>3, PutKeepsMap
      <4>5. Find(values_map, d.name) # NULL => Find(values_map, d.name) = prog.main
        BY <4>1, <4>2 DEF Declared
      <4>6. values_map' = Put(values_map, d.name, cursor) BY <2>1, <4>1
      <4> QED BY <3>4, <4>1, <4>4, <4>5, <4>6
    <3> QED BY <2>3, <3>1, <3>3, <3>4
  <2>11. (IsProgram(prog) /\ check_for_main_function(prog))' /\ TopLevel(prog)' = TopLevel(prog)
         /\ asts_len' = asts_len
    BY <2>1, <2>2, ProgramStays
  <2>12. Find(values_map, MAIN_FUNCTION)' = Find(values_map', MAIN_FUNCTION) BY DEF Find, MAIN_FUNCTION
  <2>13. Progress'
    <3>1. /\ phase' = "fill" /\ work' = <<>> /\ code' = <<>>
          /\ label_counter' \in Nat /\ while_label_counter' \in Nat
          /\ cursor' \in (TopLevel(prog) \union {asts_len})' /\ cursor' \in Nat /\ prog'.main = prog.main
      BY <1>1, <2>1, <2>2, <2>3, <2>11 DEF labels
    <3>2. cursor' > prog'.main => Find(values_map, MAIN_FUNCTION)' = prog'.main
      BY <2>1, <2>10, <2>12
    <3> QED BY <2>11, <3>1, <3>2 DEF Progress
  <2> QED BY <2>1, <2>2, <2>9, <2>13, ShapeIdle
<1> QED BY <1>2, <1>3

(* The block of a routine.                                                    *)
LEMMA RoutineBlock ==
    ASSUME IsProgram(prog), prog' = prog, values_map' = values_map, NEW id, DeclaredAs(id, {"FUNC", "PROC"}),
           Find(values_map, astid(id).name) = id, ~astid(id).inlin \/ astid(id).args = <<>>,
           work' = <<Routine(id)>>
    PROVE  /\ Len(work') = 1 /\ DOMAIN work' = 1 .. 1 /\ Activations'
           /\ work'[1].node = id /\ work'[1].block = "routine"
<1>1. PICK f : f = Routine(id) OBVIOUS
<1>2. /\ DOMAIN f = {"block", "of", "node", "cur", "label", "entry", "saved", "under", "marks"}
      /\ f.block = "routine" /\ f.of = astid(id).name /\ f.node = id /\ f.cur = astid(id).body
      /\ f.label = 0 /\ f.entry = <<>> /\ f.saved = NoCtx /\ f.under = <<>> /\ f.marks = <<0>>
  BY <1>1 DEF Routine
<1>3. IsSeq(work') /\ Len(work') = 1 /\ work'[1] = f BY <1>1, SmallSeqs
<1>4. DOMAIN work' = 1 .. 1 BY <1>3, IsSeqProperties
<1>5. DeclaredAs(id, {"FUNC", "PROC", "EXTERN"}) BY DEF DeclaredAs
<1>6. /\ astid(id).kind # "EXTERN" /\ astid(id).name # START /\ astid(id).body \in -1 .. asts_len
  <2>1. astid(id).kind # "EXTERN" BY DEF DeclaredAs
  <2> QED BY <1>5, <2>1, SignatureOf
<1>7. IsContext(NoCtx) BY NoContext, AstOf
<1>8. asts_len' = asts_len /\ \A i : astid(i)' = astid(i) BY SameAsts
<1>9. Len(<<0>>) = 1 /\ <<0>> \in Seq(Nat) /\ <<0>> # <<>> /\ <<>> \in Seq(Kinds) OBVIOUS
<1>10. IsActivation(work[1])'
  <2>1. DeclaredAs(work[1].node, {"FUNC", "PROC"})' BY <1>2, <1>3, <1>8 DEF DeclaredAs
  <2>2. IsContext(work[1].saved)' BY <1>2, <1>3, <1>7, <1>8 DEF IsContext
  <2>3. Find(values_map, work[1].of)' = work'[1].node BY <1>2, <1>3, ZenonT(30) DEF Find
  <2>4. /\ DOMAIN f = {"block", "of", "node", "cur", "label", "entry", "saved", "under", "marks"}
        /\ f.label \in Nat /\ f.entry \in Seq(Kinds) /\ f.under \in Seq(Kinds)
        /\ f.marks \in Seq(Nat) /\ f.marks # <<>>
    <3>1. DOMAIN f = {"block", "of", "node", "cur", "label", "entry", "saved", "under", "marks"} BY <1>2
    <3>2. f.label \in Nat BY <1>2
    <3>3. f.entry \in Seq(Kinds) /\ f.under \in Seq(Kinds) BY <1>2, <1>9
    <3>4. f.marks \in Seq(Nat) /\ f.marks # <<>> BY <1>2, <1>9
    <3> QED BY <3>1, <3>2, <3>3, <3>4
  <2>5. work'[1].cur \in -1 .. asts_len' /\ work'[1].of # START BY <1>2, <1>3, <1>6, <1>8
  <2> QED BY <1>3, <2>1, <2>2, <2>3, <2>4, <2>5 DEF IsActivation
<1>11. IsBlock(1)'
  <2>1. OfRoutine(work[1])' BY <1>2, <1>3, <1>8 DEF OfRoutine
  <2>2. Len(work'[1].marks) = 1 BY <1>2, <1>3, <1>9
  <2>3. IsActivation(work[1])' /\ (Expands(1))' BY <1>2, <1>3, <1>10 DEF Expands
  <2>4. (IF Len(work[1].marks) = 1 THEN OfRoutine(work[1]) ELSE OfInlined(work[1]))' BY <2>1, <2>2
  <2>5. work'[1].block = "routine" BY <1>2, <1>3
  <2>6. ~(1 > 1) OBVIOUS
  <2> QED BY <2>2, <2>3, <2>4, <2>5, <2>6 DEF IsBlock
<1>12. Activations' BY <1>3, <1>4, <1>11 DEF Activations
<1> QED BY <1>2, <1>3, <1>4, <1>12

LEMMA ShapeOpens ==
    ASSUME CompilerShape, work = <<>>, UNCHANGED <<prog, maps, labels, quirks>>,
           NEW id, DeclaredAs(id, {"FUNC", "PROC"}),
           Find(values_map, astid(id).name) = id, ~astid(id).inlin \/ astid(id).args = <<>>,
           compile_routine(id), Progress'
    PROVE  CompilerShape'
<1>1. /\ Emit(Prologue(id)) /\ work' = <<Routine(id)>>
      /\ IF astid(id).kind = "PROC"
         THEN proc_ctx' = [NoCtx EXCEPT !.stmt = id] /\ func_ctx' = NoCtx
         ELSE func_ctx' = [NoCtx EXCEPT !.stmt = id] /\ proc_ctx' = NoCtx
  BY IdleContexts DEF compile_routine
<1>2. /\ Maps /\ IsProgram(prog) /\ IsSeq(code) /\ LabelsInCode /\ asts_len \in Nat
      /\ label_counter \in Nat /\ while_label_counter \in Nat
  BY ShapeFacts, AstOf
<1>3. /\ Len(work') = 1 /\ DOMAIN work' = 1 .. 1 /\ Activations'
      /\ work'[1].node = id /\ work'[1].block = "routine"
  BY <1>1, <1>2, RoutineBlock DEF maps
<1>4. Maps' BY <1>2, MapsStay DEF maps, KeepsMaps
<1>5. asts_len' = asts_len /\ \A i : astid(i)' = astid(i) BY SameAsts
<1>6. Expands(1)' /\ Decl(1)' = astid(id) /\ astid(id).kind \in {"FUNC", "PROC"}
  BY <1>3, <1>5 DEF Expands, Decl, DeclaredAs
<1> DEFINE c == [NoCtx EXCEPT !.stmt = id]
<1>7. IsContext(c) /\ c.stmt = id /\ IsContext(NoCtx) /\ NoCtx.stmt = NULL
  <2>1. id \in -1 .. asts_len - 1 /\ id # NULL BY <1>2 DEF DeclaredAs, NULL
  <2>2. IsContext(NoCtx) BY <1>2, NoContext
  <2>3. NoCtx \in [stmt : -1 .. asts_len - 1, types : Seq(Kinds), called_funcptr : {FALSE}]
    BY <2>2 DEF IsContext
  <2>4. c \in [stmt : -1 .. asts_len - 1, types : Seq(Kinds), called_funcptr : {FALSE}] /\ c.stmt = id
    BY <2>1, <2>3
  <2> QED BY <1>2, <2>1, <2>4, NoContext DEF IsContext
<1> HIDE DEF c
<1>8. IsContext(proc_ctx') /\ IsContext(func_ctx') BY <1>1, <1>7 DEF c
<1>9. IsContext(proc_ctx)' /\ IsContext(func_ctx)' BY <1>8, ContextsBecome
<1>10. Contexts'
  <2>1. \A k \in 1 .. 1 : k = 1 OBVIOUS
  <2>2. \A k \in 1 .. 1 : \A j \in k + 1 .. 1 : FALSE OBVIOUS
  <2>3. 1 \in 1 .. 1 OBVIOUS
  <2>4. (LastExpanded("PROC", Len(work), proc_ctx.stmt) /\ LastExpanded("FUNC", Len(work), func_ctx.stmt))'
    <3>1. PICK sort : sort = astid(id).kind OBVIOUS
    <3>2. \A kind : Expanded(1, kind)' <=> kind = sort BY <1>6, <3>1 DEF Expanded
    <3>3. \A kind : LastExpanded(kind, Len(work), IF kind = sort THEN id ELSE NULL)'
      <4> SUFFICES ASSUME NEW kind PROVE LastExpanded(kind, Len(work), IF kind = sort THEN id ELSE NULL)'
        OBVIOUS
      <4>1. CASE kind = sort
        <5>1. Expanded(1, kind)' /\ work'[1].node = id BY <1>3, <3>2, <4>1
        <5> QED BY <5>1, <1>3, <2>2, <2>3, <4>1 DEF LastExpanded
      <4>2. CASE kind # sort
        <5>1. \A k \in 1 .. 1 : ~Expanded(k, kind)' BY <2>1, <3>2, <4>2
        <5> QED BY <5>1, <1>3, <4>2 DEF LastExpanded
      <4> QED BY <4>1, <4>2
    <3>4. /\ proc_ctx'.stmt = (IF "PROC" = sort THEN id ELSE NULL)
          /\ func_ctx'.stmt = (IF "FUNC" = sort THEN id ELSE NULL)
      BY <1>1, <1>6, <1>7, <3>1 DEF c
    <3>5. LastExpanded("PROC", Len(work), proc_ctx.stmt)' BY <3>3, <3>4
    <3>6. LastExpanded("FUNC", Len(work), func_ctx.stmt)' BY <3>3, <3>4
    <3> QED BY <3>5, <3>6
  <2>5. \A k \in DOMAIN work' : work'[k].block # "inline" BY <1>3, <2>1
  <2> QED BY <1>9, <2>4, <2>5 DEF Contexts
<1>11. OneBody' /\ FunctionsFirst'
  <2>1. \A k \in DOMAIN work' : k = 1 BY <1>3
  <2>2. \A j \in 1 .. 1 : j = 1 OBVIOUS
  <2>3. OneBody' BY <2>1, <2>2 DEF OneBody
  <2>4. FunctionsFirst' BY <2>1, <2>2 DEF FunctionsFirst, Expanded
  <2> QED BY <2>3, <2>4
<1>12. Awaited("routine") = {} /\ Family("routine") = {} /\ "routine" \notin BranchBlocks /\ "routine" \notin LoopBlocks
  BY DEF Awaited, Family, BranchBlocks, LoopBlocks
<1>13. LabelsToCome'
  <2>1. \A k \in DOMAIN work' : work'[k].block = "routine" BY <1>3
  <2> QED BY <1>12, <2>1 DEF LabelsToCome
<1>14. LabelsInCode'
  <2>1. PICK s : s = Prologue(id) OBVIOUS
  <2>2. IsSeq(s) /\ Straight(s)
    <3> DEFINE v == View([op |-> "entry", name |-> astid(id).name], astid(id).name, <<>>, <<>>)
               w == View([op |-> "enter"], astid(id).name, <<>>, <<>>)
    <3>1. s = <<v, w>> BY <2>1 DEF Prologue
    <3>2. v.ins.op = "entry" /\ w.ins.op = "enter" BY DEF View
    <3> HIDE DEF v, w
    <3>3. IsSeq(s) /\ Len(s) = 2 /\ s[1] = v /\ s[2] = w BY <3>1, SmallSeqs
    <3>4. \A j \in 1 .. 2 : j = 1 \/ j = 2 OBVIOUS
    <3> QED BY <3>2, <3>3, <3>4 DEF Straight
  <2>3. Appends(s) BY <1>1, <1>2, <2>1, <2>2 DEF Appends, Emit
  <2>4. CountersGrow BY <1>2 DEF CountersGrow, labels
  <2>5. NewJumps(s)
    <3>1. DOMAIN work = {} BY EmptySequence
    <3> QED BY <2>2, <3>1 DEF NewJumps, Straight
  <2> QED BY <1>2, <2>2, <2>3, <2>4, <2>5, StraightIsNew, LabelsInCodeStep
<1> QED BY <1>3, <1>4, <1>10, <1>11, <1>13, <1>14 DEF CompilerShape

(* The declarations that are compiled: main, which fill_maps has passed, and   *)
(* what values_map holds.                                                     *)
LEMMA MainIsMapped ==
    ASSUME CompilerShape, CompileMain
    PROVE  /\ DeclaredAs(prog.main, {"FUNC", "PROC"})
           /\ Find(values_map, astid(prog.main).name) = prog.main /\ astid(prog.main).args = <<>>
<1>1. phase = "fill" /\ ~Filling BY DEF CompileMain
<1>2. /\ IsProgram(prog) /\ check_for_main_function(prog)
      /\ work = <<>> /\ cursor \in TopLevel(prog) \union {asts_len} /\ cursor \in Nat
      /\ cursor > prog.main => Find(values_map, MAIN_FUNCTION) = prog.main
  BY <1>1 DEF CompilerShape, Progress
<1>3. /\ asts_len \in Nat /\ prog.main \in 0 .. asts_len - 1 /\ DeclaredAs(prog.main, {"FUNC"})
      /\ astid(prog.main).name = MAIN_FUNCTION /\ astid(prog.main).args = <<>>
      /\ cursor # asts_len => astid(cursor).next > cursor /\ astid(cursor).next \in 0 .. asts_len
  BY <1>2, ChainOf
<1>4. cursor = asts_len
  <2> SUFFICES ASSUME cursor # asts_len PROVE FALSE OBVIOUS
  <2>1. astid(cursor).next # 0 /\ astid(cursor).next <= asts_len BY <1>2, <1>3
  <2> QED BY <1>1, <2>1 DEF Filling
<1>5. cursor > prog.main BY <1>3, <1>4
<1>6. Find(values_map, astid(prog.main).name) = prog.main BY <1>2, <1>3, <1>5
<1>7. DeclaredAs(prog.main, {"FUNC", "PROC"}) BY <1>3 DEF DeclaredAs
<1> QED BY <1>3, <1>6, <1>7

LEMMA RoutineIsMapped ==
    ASSUME CompilerShape, phase = "routines", cursor <= Len(values_map), NEW id, id = values_map[cursor].id
    PROVE  DeclaredAs(id, {"FUNC", "PROC", "EXTERN"}) /\ Find(values_map, astid(id).name) = id
<1>1. cursor \in Nat /\ cursor > 0 /\ IsMap(values_map, {"FUNC", "PROC", "EXTERN"})
  BY DEF CompilerShape, Progress, Maps
<1>2. cursor \in DOMAIN values_map
  <2>1. Len(values_map) \in Nat /\ DOMAIN values_map = 1 .. Len(values_map)
    BY <1>1, IsSeqProperties DEF IsMap
  <2> QED BY <1>1, <2>1
<1>3. DeclaredAs(id, {"FUNC", "PROC", "EXTERN"}) /\ astid(id).name = values_map[cursor].key
  BY <1>1, <1>2 DEF IsMap
<1> QED BY <1>1, <1>2, <1>3, FindOf

LEMMA ShapeCompileMain == ASSUME CompilerShape, CompileMain PROVE CompilerShape'
<1>1. /\ phase = "fill" /\ ~Filling /\ compile_routine(prog.main) /\ phase' = "main"
      /\ UNCHANGED <<prog, maps, labels, quirks>>
  BY DEF CompileMain
<1>2. /\ IsProgram(prog) /\ check_for_main_function(prog) /\ work = <<>> /\ cursor \in Nat
      /\ label_counter \in Nat /\ while_label_counter \in Nat
  BY <1>1 DEF CompilerShape, Progress
<1>3. /\ DeclaredAs(prog.main, {"FUNC", "PROC"})
      /\ Find(values_map, astid(prog.main).name) = prog.main /\ astid(prog.main).args = <<>>
  BY MainIsMapped
<1>4. Progress'
  <2>1. (IsProgram(prog) /\ check_for_main_function(prog))' BY <1>1, <1>2, ProgramStays
  <2>2. work' # <<>> /\ work'[1].node = prog.main BY <1>1 DEF compile_routine, Routine
  <2>3. /\ cursor' \in Nat /\ label_counter' \in Nat /\ while_label_counter' \in Nat /\ prog'.main = prog.main
    BY <1>1, <1>2 DEF maps, labels
  <2> QED BY <1>1, <2>1, <2>2, <2>3 DEF Progress
<1>5. UNCHANGED <<prog, maps, labels, quirks>> BY <1>1
<1> QED BY <1>1, <1>2, <1>3, <1>4, <1>5, ShapeOpens

LEMMA ShapeCompileRoutine == ASSUME CompilerShape, CompileRoutine PROVE CompilerShape'
<1>1. /\ phase = "routines" /\ work = <<>> /\ cursor <= Len(values_map)
      /\ UNCHANGED <<prog, phase, values_map, externs_map, labels, quirks>>
  BY DEF CompileRoutine
<1>2. /\ IsProgram(prog) /\ check_for_main_function(prog) /\ cursor \in Nat /\ cursor > 0 /\ Maps
      /\ label_counter \in Nat /\ while_label_counter \in Nat
  BY <1>1 DEF CompilerShape, Progress
<1>5. PICK id : id = values_map[cursor].id OBVIOUS
<1>6. DeclaredAs(id, {"FUNC", "PROC", "EXTERN"}) /\ Find(values_map, astid(id).name) = id
  BY <1>1, <1>5, RoutineIsMapped
<1>7. (IsProgram(prog) /\ check_for_main_function(prog))' BY <1>1, <1>2, ProgramStays
<1> DEFINE taken == \/ astid(id).kind = "PROC" /\ ~astid(id).inlin
                    \/ astid(id).kind = "FUNC" /\ ~astid(id).inlin /\ astid(id).name # MAIN_FUNCTION
<1>8. IF taken THEN compile_routine(id) /\ UNCHANGED cursor
      ELSE cursor' = cursor + 1 /\ UNCHANGED <<ctx, work, code>>
  BY <1>5 DEF CompileRoutine, NextEntry
<1>9. CASE taken
  <2>1. compile_routine(id) /\ cursor' = cursor BY <1>8, <1>9
  <2>2. DeclaredAs(id, {"FUNC", "PROC"}) /\ ~astid(id).inlin BY <1>6, <1>9 DEF DeclaredAs
  <2>3. UNCHANGED <<prog, maps, labels, quirks>> BY <1>1, <2>1 DEF maps
  <2>4. Progress' BY <1>1, <1>2, <1>7, <2>1 DEF Progress, labels
  <2> QED BY <1>1, <1>6, <2>1, <2>2, <2>3, <2>4, ShapeOpens
<1>10. CASE ~taken
  <2>1. cursor' = cursor + 1 /\ UNCHANGED <<ctx, work, code>> BY <1>8, <1>10
  <2>2. cursor' \in Nat /\ cursor' > 0 BY <1>2, <2>1
  <2>3. Maps' BY <1>1, <1>2, MapsStay DEF KeepsMaps
  <2>4. Progress' BY <1>1, <1>2, <1>7, <2>2 DEF Progress, labels
  <2> QED BY <1>1, <2>1, <2>3, <2>4, ShapeIdle
<1> QED BY <1>9, <1>10

LEMMA ShapeDone == ASSUME CompilerShape, CompileDone PROVE CompilerShape'
BY ShapeUnchanged DEF CompileDone, Stop, Halted

LEMMA StraightConcat ==
    ASSUME NEW s, IsSeq(s), Straight(s), NEW t, IsSeq(t), Straight(t) PROVE IsSeq(s \o t) /\ Straight(s \o t)
<1> DEFINE u == s \o t
           a == Len(s)
           b == Len(t)
<1>1. /\ IsSeq(u) /\ Len(u) = a + b /\ \A i \in 1 .. a : u[i] = s[i]
      /\ \A i \in 1 .. b : u[a + i] = t[i]
  BY ConcatSeq
<1>2. a \in Nat /\ b \in Nat BY IsSeqProperties
<1>3. \A i \in 1 .. a : s[i].ins.op \notin {"label", "jmp", "jz"} BY DEF Straight
<1>4. \A i \in 1 .. b : t[i].ins.op \notin {"label", "jmp", "jz"} BY DEF Straight
<1> HIDE DEF u, a, b
<1>5. ASSUME NEW i \in 1 .. Len(u) PROVE u[i].ins.op \notin {"label", "jmp", "jz"}
  <2>1. i \in 1 .. a \/ (i - a \in 1 .. b /\ i = a + (i - a)) BY <1>1, <1>2
  <2> QED BY <1>1, <1>3, <1>4, <2>1
<1> QED BY <1>1, <1>5 DEF Straight, u

LEMMA StartIsStraight ==
    ASSUME NEW d PROVE IsSeq(Start(d)) /\ Len(Start(d)) = 3 /\ Straight(Start(d))
<1> DEFINE u == View([op |-> "start"], START, <<>>, <<>>)
           v == View(CallOf(d), START, <<>>, <<>>)
           w == View([op |-> "exit"], START, Reversed(d.rets), <<>>)
<1>1. u.ins.op = "start" /\ v.ins.op = "call" /\ w.ins.op = "exit" BY DEF View, CallOf
<1>2. Start(d) = <<u, v, w>> BY DEF Start
<1> HIDE DEF u, v, w
<1>3. /\ <<u, v, w>> \in Seq({u, v, w}) /\ Len(<<u, v, w>>) = 3
      /\ <<u, v, w>>[1] = u /\ <<u, v, w>>[2] = v /\ <<u, v, w>>[3] = w
  OBVIOUS
<1>4. IsSeq(<<u, v, w>>) BY <1>3, SeqIsSeq
<1>5. \A i \in 1 .. 3 : i = 1 \/ i = 2 \/ i = 3 OBVIOUS
<1>6. Straight(<<u, v, w>>) BY <1>1, <1>3, <1>5 DEF Straight
<1> QED BY <1>2, <1>3, <1>4, <1>6

LEMMA ShapeEndRoutine == ASSUME CompilerShape, EndRoutine PROVE CompilerShape'
<1> DEFINE d == astid(Current.node)
           v == At([op |-> "ret", nargs |-> Len(d.args), rets |-> Reversed(d.rets),
                    main |-> d.kind = "FUNC" /\ d.name = MAIN_FUNCTION], Types)
           rest == IF phase = "main" THEN Start(d) ELSE <<>>
<1>1. CASE d.kind = "FUNC" /\ ~Returns(func_ctx.types, d.rets)
  BY <1>1, ShapeRejects DEF EndRoutine
<1>2. CASE ~(d.kind = "FUNC" /\ ~Returns(func_ctx.types, d.rets))
  <2>1. /\ Returning("routine") /\ Emit(<<v>> \o rest)
        /\ IF d.kind = "PROC" THEN proc_ctx' = NoCtx /\ UNCHANGED func_ctx
                              ELSE func_ctx' = NoCtx /\ UNCHANGED proc_ctx
        /\ work' = <<>> /\ phase' = "routines"
        /\ cursor' = IF phase = "main" THEN 1 ELSE cursor + 1
        /\ UNCHANGED <<prog, values_map, externs_map, labels, quirks>>
    BY <1>2 DEF EndRoutine, Closed
  <2>2. /\ phase \in {"main", "routines"} /\ work # <<>> /\ Current.block = "routine"
        /\ Current = work[Len(work)] /\ Len(work) = 1
    BY <2>1, Return
  <2>3. /\ Maps /\ Progress /\ Activations /\ Contexts /\ LabelsInCode
        /\ IsProgram(prog) /\ IsSeq(code) /\ IsSeq(work)
        /\ label_counter \in Nat /\ while_label_counter \in Nat
    BY ShapeFacts
  <2>4. proc_ctx' = NoCtx /\ func_ctx' = NoCtx
    <3>1. LastExpanded("PROC", 1, proc_ctx.stmt) /\ LastExpanded("FUNC", 1, func_ctx.stmt)
      BY <2>2, <2>3 DEF Contexts
    <3>2. Decl(1) = d BY <2>2 DEF Decl
    <3>3. \A k \in 1 .. 1 : k = 1 OBVIOUS
    <3>4. IsContext(proc_ctx) /\ IsContext(func_ctx) BY <2>3 DEF Contexts
    <3>5. CASE d.kind = "PROC"
      <4>1. \A k \in 1 .. 1 : ~Expanded(k, "FUNC") BY <3>2, <3>3, <3>5 DEF Expanded
      <4>2. func_ctx.stmt = NULL BY <3>1, <4>1 DEF LastExpanded
      <4> QED BY <2>1, <3>4, <3>5, <4>2 DEF IsContext
    <3>6. CASE d.kind # "PROC"
      <4>1. \A k \in 1 .. 1 : ~Expanded(k, "PROC") BY <3>2, <3>3, <3>6 DEF Expanded
      <4>2. proc_ctx.stmt = NULL BY <3>1, <4>1 DEF LastExpanded
      <4> QED BY <2>1, <3>4, <3>6, <4>2 DEF IsContext
    <3> QED BY <3>5, <3>6
  <2>5. Activations' /\ Contexts' /\ OneBody' /\ FunctionsFirst' /\ LabelsToCome'
    BY <2>1, <2>3, <2>4, NoBlocks
  <2>6. Maps' BY <2>1, <2>3, MapsStay DEF KeepsMaps
  <2>7. Progress'
    <3>1. (IsProgram(prog) /\ check_for_main_function(prog))'
      BY <2>1, <2>3, ProgramStays DEF Progress
    <3>2. cursor' \in Nat /\ cursor' > 0 BY <2>1, <2>3 DEF Progress
    <3> QED BY <2>1, <2>3, <3>1, <3>2 DEF Progress, labels
  <2>8. PICK s : s = <<v>> \o rest OBVIOUS
  <2>9. IsSeq(s) /\ Straight(s)
    <3>1. v.ins.op \notin {"label", "jmp", "jz"} BY DEF At, View
    <3> HIDE DEF v
    <3>2. IsSeq(<<v>>) /\ Straight(<<v>>) BY <3>1, OneStraight
    <3>3. IsSeq(rest) /\ Straight(rest) BY StartIsStraight, NoneStraight
    <3> HIDE DEF rest
    <3> QED BY <2>8, <3>2, <3>3, StraightConcat
  <2>10. Appends(s) BY <2>1, <2>3, <2>8, <2>9 DEF Appends, Emit
  <2>11. CountersGrow BY <2>1, <2>3 DEF CountersGrow, labels
  <2>12. NewJumps(s)
    <3>1. DOMAIN work = 1 .. 1 BY <2>2, <2>3, IsSeqProperties
    <3>2. \A k \in 1 .. 1 : k = 1 OBVIOUS
    <3>3. work[1].block = "routine" BY <2>2
    <3>4. Awaited("routine") = {} BY DEF Awaited, LoopBlocks
    <3>5. \A k \in DOMAIN work : \A l, n : ~Awaits(k, l, n) BY <3>1, <3>2, <3>3, <3>4 DEF Awaits
    <3> QED BY <2>9, <3>5 DEF NewJumps, Straight
  <2>13. LabelsInCode' BY <2>3, <2>9, <2>10, <2>11, <2>12, StraightIsNew, LabelsInCodeStep
  <2> QED BY <2>5, <2>6, <2>7, <2>13 DEF CompilerShape
<1> QED BY <1>1, <1>2

-----------------------------------------------------------------------------
(* Branches and loops.  s has a label of each sort in L, and goes to labels   *)
(* of the sorts in J; all of them bear the number n.                          *)
LabelsFor(block) == IF block \in BranchBlocks THEN {"else", "edon"} ELSE {"while", "wdon"}
Writes(s, L, J, n) ==
    /\ IsSeq(s)
    /\ \A j \in 1 .. Len(s) : s[j].ins.op = "label" =>
          /\ \E l \in L : s[j].ins = Label(l, n)
          /\ \A i \in 1 .. Len(s) : s[i].ins = s[j].ins => i = j
    /\ \A j \in 1 .. Len(s) : s[j].ins.op \in {"jmp", "jz"} => s[j].ins.l \in J /\ s[j].ins.n = n
    /\ \A l \in L : Defines(s, l, n)

LEMMA DefinedIsKnown ==
    ASSUME NEW s, Appends(s), NEW l, NEW n, Defines(s, l, n) PROVE Known(l, n)'
<1>1. Labels(l, n)' # {} BY LabelsGrow
<1> QED BY <1>1 DEF Known

LEMMA AwaitedIsKnown ==
    ASSUME NEW m \in Nat, Opened(m), NEW l, NEW n, l \in Awaited(work'[m + 1].block), n = work'[m + 1].label
    PROVE  Known(l, n)'
<1>1. IsSeq(work') /\ Len(work') = m + 1 BY DEF Opened
<1>2. DOMAIN work' = 1 .. m + 1 BY <1>1, IsSeqProperties
<1> DEFINE k == m + 1
<1>3. k \in DOMAIN work' BY <1>2
<1>4. l \in Awaited(work'[k].block) /\ n = work'[k].label OBVIOUS
<1> HIDE DEF k
<1> QED BY <1>3, <1>4 DEF Known, Awaits

LEMMA WrittenIsAwaited ==
    ASSUME NEW b \in BranchBlocks \union LoopBlocks, NEW l \in LabelsFor(b), NEW block, l \in Awaited(block)
    PROVE  block \in Family(b)
BY DEF LabelsFor, Awaited, Family, BranchBlocks, LoopBlocks

LEMMA FlowStep ==
    ASSUME CompilerShape, Steady, SameStmts, work # <<>>, NEW m, Moved(m) \/ Opened(m),
           m = Len(work) \/ (m = Len(work) - 1 /\ ~Expands(Len(work))),
           NEW b \in BranchBlocks \union LoopBlocks, NEW n \in Nat,
           n < (IF b \in BranchBlocks THEN label_counter' ELSE while_label_counter'),
           \A k \in 1 .. m : work[k].block \in Family(b) => work[k].label # n,
           NEW L, L \subseteq LabelsFor(b), NEW J, NEW s, Appends(s), Writes(s, L, J, n),
           \A l \in L : Labels(l, n) = {},
           \A l \in J : Known(l, n)',
           m = Len(work) \/ \A l \in Awaited(work[Len(work)].block) :
                                work[Len(work)].label = n /\ Known(l, n)',
           Opened(m) =>
              /\ IsBlock(m + 1)' /\ ~Expands(m + 1)' /\ work'[m + 1].node = work[m].node
              /\ work'[m + 1].block \in Family(b) /\ work'[m + 1].label = n
              /\ \A l \in Awaited(work'[m + 1].block) : l \notin L /\ Labels(l, n) = {}
              /\ b \in LoopBlocks => Labels("while", n) # {} \/ "while" \in L
    PROVE  CompilerShape'
<1>1. Activations /\ LabelsInCode /\ LabelsToCome BY ShapeFacts
<1>2. Len(work) \in Nat \ {0} /\ DOMAIN work = 1 .. Len(work) /\ IsSeq(work)
  BY <1>1, BlocksAre
<1>3. \A k \in 1 .. Len(work) : work[k].label \in Nat
  BY <1>1, <1>2 DEF Activations, IsBlock, IsActivation
<1>4. CountersGrow BY DEF Steady
<1>5. m \in 1 .. Len(work) BY DEF Moved, Opened
<1>6. NewLabels(s)
  <2> SUFFICES ASSUME NEW j \in 1 .. Len(s), s[j].ins.op = "label"
               PROVE  /\ s[j].ins = Label(s[j].ins.l, s[j].ins.n)
                      /\ s[j].ins.n \in 0 .. CounterAfter(s[j].ins.l) - 1
                      /\ Labels(s[j].ins.l, s[j].ins.n) = {}
                      /\ \A i \in 1 .. Len(s) : s[i].ins = s[j].ins => i = j
    BY DEF NewLabels
  <2>1. PICK l \in L : s[j].ins = Label(l, n) BY DEF Writes
  <2>2. s[j].ins.l = l /\ s[j].ins.n = n BY <2>1 DEF Label
  <2>3. CounterAfter(l) = IF b \in BranchBlocks THEN label_counter' ELSE while_label_counter'
    BY DEF CounterAfter, LabelsFor
  <2>4. CounterAfter(l) \in Nat BY <1>4 DEF CounterAfter, CountersGrow
  <2>5. n \in 0 .. CounterAfter(l) - 1 BY <2>3, <2>4
  <2> QED BY <2>1, <2>2, <2>5 DEF Writes
<1>7. NewJumps(s)
  <2>1. \A j \in 1 .. Len(s) : s[j].ins.op \in {"jmp", "jz"} => Known(s[j].ins.l, s[j].ins.n)'
    <3> SUFFICES ASSUME NEW j \in 1 .. Len(s), s[j].ins.op \in {"jmp", "jz"}
                 PROVE  Known(s[j].ins.l, s[j].ins.n)'
      OBVIOUS
    <3>1. s[j].ins.l \in J /\ s[j].ins.n = n BY DEF Writes
    <3> QED BY <3>1
  <2>2. ASSUME NEW k \in DOMAIN work, NEW l, NEW c, Awaits(k, l, c) PROVE Known(l, c)'
    <3>1. CASE k \in 1 .. m BY <1>2, <2>2, <3>1, AwaitedStay
    <3>2. CASE k \notin 1 .. m
      <4>1. k = Len(work) /\ m # Len(work)
        <5>1. PICK z : z = Len(work) OBVIOUS
        <5>2. z \in Nat /\ k \in 1 .. z /\ m \in 1 .. z /\ (m = z \/ m = z - 1) BY <1>2, <1>5, <5>1
        <5>3. k = z /\ m # z BY <3>2, <5>2
        <5> QED BY <5>1, <5>3
      <4>2. l \in Awaited(work[Len(work)].block) /\ c = work[Len(work)].label
        BY <2>2, <4>1 DEF Awaits
      <4>3. c = n /\ Known(l, n)' BY <4>1, <4>2
      <4> QED BY <4>3
    <3> QED BY <3>1, <3>2
  <2> QED BY <2>1, <2>2 DEF NewJumps
<1>8. LabelsInCode' BY <1>1, <1>4, <1>6, <1>7, LabelsInCodeStep
<1>9. ASSUME NEW l, NEW c, Defines(s, l, c) PROVE l \in L /\ c = n
  <2>1. PICK j \in 1 .. Len(s) : s[j].ins = Label(l, c) BY <1>9 DEF Defines
  <2>2. s[j].ins.op = "label" BY <2>1 DEF Label
  <2>3. PICK x \in L : s[j].ins = Label(x, n) BY <2>2 DEF Writes
  <2> QED BY <2>1, <2>3 DEF Label
<1>10. \A k \in 1 .. m : \A l \in Awaited(work[k].block) : ~Defines(s, l, work[k].label)
  BY <1>9, WrittenIsAwaited
<1>11. ASSUME Opened(m) PROVE Newcomer(m)
  <2>1. PICK f : f = work'[m + 1] OBVIOUS
  <2>2. /\ f.block \in Family(b) /\ f.label = n
        /\ \A l \in Awaited(f.block) : l \notin L /\ Labels(l, n) = {}
        /\ b \in LoopBlocks => Labels("while", n) # {} \/ "while" \in L
    BY <1>11, <2>1
  <2>3. /\ f.block \in BranchBlocks <=> b \in BranchBlocks
        /\ f.block \in LoopBlocks <=> b \in LoopBlocks
        /\ b \in LoopBlocks => b \notin BranchBlocks
        /\ Family(f.block) = Family(b)
    BY <2>2 DEF Family, BranchBlocks, LoopBlocks
  <2>4. f.block \in LoopBlocks => \E i \in DOMAIN code' : code'[i].ins = Label("while", n)
    <3>1. "while" \in L => Defines(s, "while", n) BY DEF Writes
    <3>2. f.block \in LoopBlocks => Labels("while", n)' # {} BY <2>2, <2>3, <3>1, LabelsGrow
    <3> QED BY <3>2, LabelsOf
  <2>5. \A l \in Awaited(f.block) : \A i \in DOMAIN code' : code'[i].ins # Label(l, n)
    <3>1. \A l \in Awaited(f.block) : ~Defines(s, l, n) BY <1>9, <2>2
    <3>2. \A l \in Awaited(f.block) : Labels(l, n)' = {} BY <2>2, <3>1, LabelsGrow
    <3> QED BY <3>2, LabelsOf
  <2> QED BY <2>1, <2>2, <2>3, <2>4, <2>5 DEF Newcomer
<1>12. LabelsToCome' BY <1>1, <1>2, <1>3, <1>4, <1>10, <1>11, LabelsToComeStep
<1>13. Opened(m) => /\ IsBlock(m + 1)' /\ ~Expands(m + 1)'
                    /\ work'[m + 1].node = work[m].node
  OBVIOUS
<1> QED BY <1>8, <1>12, <1>13, BlockStep

(* The block nested in one that is open.                                      *)
LEMMA NestedBlock ==
    ASSUME CompilerShape, work # <<>>, KeepsMaps, NEW m, Opened(m),
           m = Len(work) \/ (m = Len(work) - 1 /\ ~Expands(Len(work))),
           NEW b \in BranchBlocks \union LoopBlocks, NEW first \in -1 .. asts_len, NEW label \in Nat,
           NEW ts \in Seq(Kinds), work'[m + 1] = Block(b, first, label, ts),
           work[m].cur >= 0,
           astid(work[m].cur).kind = IF b \in BranchBlocks THEN "IF" ELSE "WHILE"
    PROVE  /\ IsBlock(m + 1)' /\ ~Expands(m + 1)' /\ work'[m + 1].node = work[m].node
           /\ work'[m + 1].block = b /\ work'[m + 1].label = label
<1>1. Activations BY ShapeFacts
<1>2. /\ Len(work) \in Nat \ {0} /\ IsSeq(work) /\ Current = work[Len(work)]
      /\ \A k \in 1 .. Len(work) : IsBlock(k) /\ IsActivation(work[k])
  BY <1>1, BlocksAre
<1>3. m \in 1 .. Len(work) /\ \A k \in 1 .. m : work'[k] = work[k] BY DEF Opened
<1>4. m \in Nat \ {0} /\ 1 \in 1 .. m /\ m \in 1 .. m /\ 1 \in 1 .. Len(work) BY <1>2, <1>3
<1>5. PICK g : g = Current OBVIOUS
<1>6. IsActivation(g) BY <1>2, <1>4, <1>5
<1>7. PICK f : f = Block(b, first, label, ts) OBVIOUS
<1>8. /\ DOMAIN f = DOMAIN g /\ f.block = b /\ f.cur = first /\ f.label = label /\ f.entry = ts
      /\ f.of = g.of /\ f.node = g.node /\ f.saved = g.saved /\ f.under = g.under /\ f.marks = g.marks
  BY <1>5, <1>6, <1>7 DEF Block, IsActivation
<1>9. b \notin {"routine", "inline"} /\ (b \in LoopBlocks => b \notin BranchBlocks)
  BY DEF BranchBlocks, LoopBlocks
<1>10. Within(f, work[m])
  <2>1. CASE m = Len(work) BY <1>2, <1>5, <1>8, <2>1 DEF Within
  <2>2. CASE m = Len(work) - 1 /\ ~Expands(Len(work))
    <3>1. PICK n : n = Len(work) OBVIOUS
    <3>2. n > 1 /\ n - 1 = m /\ n \in 1 .. n BY <1>2, <1>4, <2>2, <3>1
    <3>3. IsBlock(n) /\ ~Expands(n) BY <1>2, <2>2, <3>1, <3>2
    <3>4. Within(work[n], work[n - 1]) BY <3>2, <3>3 DEF IsBlock
    <3> QED BY <1>2, <1>5, <1>8, <3>1, <3>2, <3>4 DEF Within
  <2> QED BY <2>1, <2>2
<1>11. asts_len' = asts_len /\ (\A i : astid(i)' = astid(i)) /\ work'[1] = work[1]
  BY <1>3, <1>4, SameAsts DEF KeepsMaps
<1> DEFINE k == m + 1
<1>12. work'[k] = f /\ k > 1 /\ k # 1 /\ work'[k - 1] = work[m] BY <1>3, <1>4, <1>7
<1> HIDE DEF k
<1>13. (~Expands(k))' BY <1>8, <1>9, <1>12 DEF Expands
<1>14. IsActivation(work[k])'
  <2>1. /\ DOMAIN f = Frame /\ f.cur \in -1 .. asts_len /\ f.label \in Nat /\ f.entry \in Seq(Kinds)
        /\ f.under \in Seq(Kinds) /\ f.marks \in Seq(Nat) /\ f.marks # <<>>
        /\ DeclaredAs(f.node, {"FUNC", "PROC"}) /\ IsContext(f.saved)
        /\ f.of # START /\ f.of = work[1].of /\ Find(values_map, f.of) = work[1].node
    BY <1>6, <1>8 DEF IsActivation, Frame
  <2>2. DeclaredAs(work[k].node, {"FUNC", "PROC"})' BY <1>11, <1>12, <2>1 DEF DeclaredAs
  <2>3. IsContext(work[k].saved)' BY <1>11, <1>12, <2>1 DEF IsContext
  <2>4. Find(values_map, work[k].of)' = work'[1].node
    <3>1. IsBlock(1) BY <1>2, <1>4
    <3>2. DeclaredAs(work[1].node, {"FUNC", "PROC"}) BY <3>1 DEF IsBlock, IsActivation
    <3>3. Find(values_map, f.of) # NULL BY <2>1, <3>2, IdsAreNotNull
    <3>4. Find(values_map, f.of)' = work[1].node BY <2>1, <3>3 DEF KeepsMaps
    <3> QED BY <1>11, <1>12, <3>4
  <2> QED BY <1>11, <1>12, <2>1, <2>2, <2>3, <2>4 DEF IsActivation, Frame
<1>15. (IF Len(work[k].marks) = 1 THEN OfRoutine(work[k]) ELSE OfInlined(work[k]))'
  <2>1. IsBlock(Len(work)) BY <1>2, <1>4
  <2>2. IF Len(g.marks) = 1 THEN OfRoutine(g) ELSE OfInlined(g) BY <1>2, <1>5, <2>1 DEF IsBlock
  <2> QED BY <1>8, <1>11, <1>12, <2>2 DEF OfRoutine, OfInlined, ArgKinds
<1>16. Encloses(work[k - 1], work[k])'
  <2>1. Encloses(work[m], f) BY <1>8, <1>9 DEF Encloses
  <2> QED BY <1>11, <1>12, <2>1 DEF Encloses
<1>17. Within(work[k], work[k - 1])' BY <1>10, <1>12 DEF Within
<1>18. IsBlock(k)' BY <1>8, <1>9, <1>12, <1>14, <1>15, <1>16, <1>17 DEF IsBlock
<1> QED BY <1>8, <1>10, <1>12, <1>13, <1>18 DEF k, Within

LEMMA WritesJump ==
    ASSUME NEW v, NEW op \in {"jmp", "jz"}, NEW l, NEW n, v.ins = Jump(op, l, n)
    PROVE  Writes(<<v>>, {}, {l}, n)
<1>1. IsSeq(<<v>>) /\ Len(<<v>>) = 1 /\ <<v>>[1] = v BY SmallSeqs
<1>2. v.ins.op # "label" /\ v.ins.l = l /\ v.ins.n = n BY DEF Jump
<1>3. \A j \in 1 .. 1 : j = 1 OBVIOUS
<1> QED BY <1>1, <1>2, <1>3 DEF Writes

LEMMA WritesLabel ==
    ASSUME NEW v, NEW l, NEW n, v.ins = Label(l, n)
    PROVE  Writes(<<v>>, {l}, {}, n)
<1>1. IsSeq(<<v>>) /\ Len(<<v>>) = 1 /\ <<v>>[1] = v BY SmallSeqs
<1>2. v.ins.op = "label" BY DEF Label
<1>3. \A j \in 1 .. 1 : j = 1 OBVIOUS
<1>4. Defines(<<v>>, l, n) BY <1>1, <1>3 DEF Defines
<1> QED BY <1>1, <1>2, <1>3, <1>4 DEF Writes

LEMMA WritesJumpAndLabel ==
    ASSUME NEW u, NEW v, NEW op \in {"jmp", "jz"}, NEW l, NEW x, NEW n,
           u.ins = Jump(op, l, n), v.ins = Label(x, n)
    PROVE  Writes(<<u, v>>, {x}, {l}, n)
<1>1. IsSeq(<<u, v>>) /\ Len(<<u, v>>) = 2 /\ <<u, v>>[1] = u /\ <<u, v>>[2] = v BY SmallSeqs
<1>2. /\ u.ins.op # "label" /\ u.ins.l = l /\ u.ins.n = n
      /\ v.ins.op = "label" /\ u.ins # v.ins
  BY DEF Jump, Label
<1>3. 2 \in 1 .. 2 /\ \A j \in 1 .. 2 : j = 1 \/ j = 2 OBVIOUS
<1> DEFINE s == <<u, v>>
<1>4. IsSeq(s) /\ Len(s) = 2 /\ s[1] = u /\ s[2] = v BY <1>1
<1> HIDE DEF s
<1>5. Defines(s, x, n) BY <1>3, <1>4 DEF Defines
<1>6. Writes(s, {x}, {l}, n) BY <1>2, <1>3, <1>4, <1>5 DEF Writes
<1> QED BY <1>6 DEF s

LEMMA WritesJumpAndLabels ==
    ASSUME NEW u, NEW v, NEW w, NEW op \in {"jmp", "jz"}, NEW l, NEW x, NEW y, x # y, NEW n,
           u.ins = Jump(op, l, n), v.ins = Label(x, n), w.ins = Label(y, n)
    PROVE  Writes(Append(<<u, v>>, w), {x, y}, {l}, n)
<1> DEFINE s == Append(<<u, v>>, w)
<1>1. IsSeq(<<u, v>>) /\ Len(<<u, v>>) = 2 /\ <<u, v>>[1] = u /\ <<u, v>>[2] = v BY SmallSeqs
<1>2. /\ IsSeq(s) /\ Len(s) = 2 + 1 /\ s[2 + 1] = w
      /\ \A i \in 1 .. 2 : s[i] = <<u, v>>[i]
  BY <1>1, AppendSeq
<1> HIDE DEF s
<1>3. 1 \in 1 .. 2 /\ 2 \in 1 .. 2 OBVIOUS
<1>4. IsSeq(s) /\ Len(s) = 3 /\ s[1] = u /\ s[2] = v /\ s[3] = w BY <1>1, <1>2, <1>3
<1>5. /\ u.ins.op # "label" /\ u.ins.l = l /\ u.ins.n = n
      /\ v.ins.op = "label" /\ w.ins.op = "label"
      /\ u.ins # v.ins /\ u.ins # w.ins /\ v.ins # w.ins
  BY DEF Jump, Label
<1>6. 2 \in 1 .. 3 /\ 3 \in 1 .. 3 /\ \A j \in 1 .. 3 : j = 1 \/ j = 2 \/ j = 3 OBVIOUS
<1>7. Defines(s, x, n) /\ Defines(s, y, n) BY <1>4, <1>6 DEF Defines
<1>8. \A j \in 1 .. Len(s) : s[j].ins.op = "label" =>
          /\ \E a \in {x, y} : s[j].ins = Label(a, n)
          /\ \A i \in 1 .. Len(s) : s[i].ins = s[j].ins => i = j
  BY <1>4, <1>5, <1>6
<1>9. \A j \in 1 .. Len(s) : s[j].ins.op \in {"jmp", "jz"} => s[j].ins.l \in {l} /\ s[j].ins.n = n
  BY <1>4, <1>5, <1>6
<1>10. Writes(s, {x, y}, {l}, n) BY <1>4, <1>7, <1>8, <1>9 DEF Writes
<1> QED BY <1>10 DEF s

(* The counters give numbers no label has.                                    *)
LEMMA FreshLabels ==
    ASSUME CompilerShape
    PROVE  /\ Labels("else", label_counter) = {} /\ Labels("edon", label_counter) = {}
           /\ Labels("while", while_label_counter) = {} /\ Labels("wdon", while_label_counter) = {}
           /\ \A k \in 1 .. Len(work) : work[k].block \in BranchBlocks => work[k].label # label_counter
           /\ \A k \in 1 .. Len(work) : work[k].block \in LoopBlocks => work[k].label # while_label_counter
<1>1. /\ LabelsInCode /\ LabelsToCome /\ Activations /\ label_counter \in Nat /\ while_label_counter \in Nat
  BY ShapeFacts
<1>2. ASSUME NEW l, Labels(l, Counter(l)) # {} PROVE FALSE
  <2>1. PICK i \in DOMAIN code : code[i].ins = [op |-> "label", l |-> l, n |-> Counter(l)]
    BY <1>2 DEF Labels
  <2>2. i \in LabelsAt /\ code[i].ins.l = l /\ code[i].ins.n = Counter(l) BY <2>1 DEF LabelsAt
  <2>3. Counter(l) \in 0 .. Counter(l) - 1 BY <1>1, <2>2 DEF LabelsInCode
  <2>4. Counter(l) \in Nat BY <1>1 DEF Counter
  <2> QED BY <2>3, <2>4
<1>3. /\ Counter("else") = label_counter /\ Counter("edon") = label_counter
      /\ Counter("while") = while_label_counter /\ Counter("wdon") = while_label_counter
  BY DEF Counter
<1>4. DOMAIN work = 1 .. Len(work) BY <1>1, IsSeqProperties DEF Activations
<1>5. ASSUME NEW k \in 1 .. Len(work)
      PROVE  /\ work[k].block \in BranchBlocks => work[k].label # label_counter
             /\ work[k].block \in LoopBlocks => work[k].label # while_label_counter
  <2>1. /\ work[k].block \in BranchBlocks => work[k].label < label_counter
        /\ work[k].block \in LoopBlocks => work[k].label < while_label_counter
        /\ work[k].label \in Nat
    BY <1>1, <1>4 DEF LabelsToCome, Activations, IsBlock, IsActivation
  <2> QED BY <1>1, <2>1
<1> QED BY <1>2, <1>3, <1>5

(* What is known of the block of an IF or a WHILE.                            *)
LEMMA Enclosing ==
    ASSUME CompilerShape, work # <<>>, Len(work) > 1, NEW m, m = Len(work) - 1,
           Current.block \in BranchBlocks \union LoopBlocks
    PROVE  /\ m \in 1 .. Len(work) /\ m \in Nat \ {0} /\ m + 1 = Len(work)
           /\ Current = work[Len(work)] /\ ~Expands(Len(work))
           /\ Top(Drop(work, 1)) = work[m] /\ work[m].cur \in 0 .. asts_len
           /\ astid(work[m].cur).kind = IF Current.block \in BranchBlocks THEN "IF" ELSE "WHILE"
           /\ astid(work[m].cur).kind = "IF" => astid(work[m].cur).else \in -1 .. asts_len
           /\ astid(work[m].cur).kind = "WHILE" => astid(work[m].cur).body \in -1 .. asts_len
           /\ Current.entry \in Seq(Kinds) /\ Current.label \in Nat
           /\ Current.label < (IF Current.block \in BranchBlocks THEN label_counter ELSE while_label_counter)
           /\ \A l \in Awaited(Current.block) : Labels(l, Current.label) = {}
           /\ Current.block \in LoopBlocks => Labels("while", Current.label) # {}
           /\ \A k \in 1 .. m : work[k].block \in Family(Current.block) => work[k].label # Current.label
<1>1. Activations /\ LabelsToCome /\ IsProgram(prog) BY ShapeFacts
<1>2. PICK n : n = Len(work) OBVIOUS
<1>3. /\ n \in Nat \ {0} /\ DOMAIN work = 1 .. n /\ n \in DOMAIN work /\ Current = work[n]
      /\ IsBlock(n) /\ IsActivation(Current) /\ work[n - 1].cur \in 0 .. asts_len /\ IsSeq(work)
  BY <1>1, <1>2, BlocksAre
<1>4. m \in 1 .. n /\ m \in Nat \ {0} /\ m + 1 = n /\ m = n - 1 /\ n > 1 BY <1>2, <1>3
<1>5. Encloses(work[m], work[n]) BY <1>3, <1>4 DEF IsBlock
<1>6. Top(Drop(work, 1)) = work[m]
  <2>1. Len(Drop(work, 1)) = m /\ \A k \in 1 .. m : Drop(work, 1)[k] = work[k] BY <1>2, <1>3, <1>4, DropSeq
  <2>2. m \in 1 .. m BY <1>4
  <2> QED BY <2>1, <2>2 DEF Top
<1>7. Current.block \in LoopBlocks => Current.block \notin BranchBlocks
  BY DEF BranchBlocks, LoopBlocks
<1>8. astid(work[m].cur).kind = IF Current.block \in BranchBlocks THEN "IF" ELSE "WHILE"
  BY <1>3, <1>5, <1>7 DEF Encloses
<1>9. IsAst(astid(work[m].cur), -1 .. asts_len) BY <1>1, <1>3, <1>4, AstOf
<1>10. ~Expands(n) BY <1>3 DEF Expands, BranchBlocks, LoopBlocks
<1>11. /\ Current.label < (IF Current.block \in BranchBlocks THEN label_counter ELSE while_label_counter)
       /\ \A l \in Awaited(Current.block) : Labels(l, Current.label) = {}
       /\ Current.block \in LoopBlocks => Labels("while", Current.label) # {}
  BY <1>1, <1>3 DEF LabelsToCome
<1>12. ASSUME NEW k \in 1 .. m, work[k].block \in Family(Current.block) PROVE work[k].label # Current.label
  <2>1. k \in DOMAIN work /\ k # n BY <1>3, <1>4
  <2> QED BY <1>1, <1>3, <1>12, <2>1 DEF LabelsToCome
<1>13. Current.entry \in Seq(Kinds) /\ Current.label \in Nat BY <1>3 DEF IsActivation
<1> QED BY <1>2, <1>3, <1>4, <1>6, <1>8, <1>9, <1>10, <1>11, <1>12, <1>13 DEF IsAst

LEMMA SteadyCounts ==
    ASSUME CompilerShape, phase \in {"main", "routines"},
           UNCHANGED <<prog, phase, maps>>, quirks \subseteq quirks',
           label_counter' \in {label_counter, label_counter + 1},
           while_label_counter' \in {while_label_counter, while_label_counter + 1}
    PROVE  Steady
<1>1. Maps /\ label_counter \in Nat /\ while_label_counter \in Nat BY ShapeFacts
<1>2. KeepsMaps BY <1>1, MapsStay DEF maps
<1>3. CountersGrow BY <1>1 DEF CountersGrow
<1> QED BY <1>2, <1>3 DEF Steady, maps

LEMMA BlockKinds ==
    /\ "then" \in BranchBlocks /\ "else" \in BranchBlocks /\ "cond" \in LoopBlocks /\ "body" \in LoopBlocks
    /\ "cond" \notin BranchBlocks /\ "body" \notin BranchBlocks
    /\ "then" \notin LoopBlocks /\ "else" \notin LoopBlocks
    /\ Awaited("then") = {"else", "edon"} /\ Awaited("else") = {"edon"}
    /\ Awaited("cond") = {"wdon"} /\ Awaited("body") = {"wdon"}
    /\ \A b \in BranchBlocks : Family(b) = BranchBlocks /\ LabelsFor(b) = {"else", "edon"}
    /\ \A b \in LoopBlocks : Family(b) = LoopBlocks /\ LabelsFor(b) = {"while", "wdon"}
BY DEF BranchBlocks, LoopBlocks, Awaited, Family, LabelsFor

LEMMA ShapeEndElse == ASSUME CompilerShape, EndElse PROVE CompilerShape'
<1>1. /\ Returning("else") /\ Emit(<<At(Label("edon", Current.label), Types)>>)
      /\ work' = Advanced(Drop(work, 1)) /\ quirks \subseteq quirks'
      /\ UNCHANGED <<prog, phase, maps, ctx, labels>>
  BY DEF EndElse
<1>2. /\ phase \in {"main", "routines"} /\ work # <<>> /\ Current.block = "else" /\ Len(work) > 1
  BY <1>1, Return
<1>3. Activations /\ Contexts /\ IsProgram(prog) /\ IsSeq(code) BY ShapeFacts
<1>4. PICK m, n : m = Len(work) - 1 /\ n = Current.label OBVIOUS
<1>5. /\ "else" \in BranchBlocks /\ Awaited("else") = {"edon"} /\ "edon" \in LabelsFor("else")
      /\ "else" \in BranchBlocks \union LoopBlocks
  BY BlockKinds
<1>6. /\ m \in 1 .. Len(work) /\ m \in Nat \ {0} /\ ~Expands(Len(work)) /\ n \in Nat /\ n < label_counter
      /\ Current = work[Len(work)] /\ Labels("edon", n) = {}
      /\ \A k \in 1 .. m : work[k].block \in Family("else") => work[k].label # n
  BY <1>2, <1>4, <1>5, Enclosing
<1>7. PICK s : s = <<At(Label("edon", n), Types)>> OBVIOUS
<1>8. Writes(s, {"edon"}, {}, n)
  <2>1. At(Label("edon", n), Types).ins = Label("edon", n) BY DEF At, View
  <2> QED BY <1>7, <2>1, WritesLabel
<1>9. Appends(s) BY <1>1, <1>3, <1>4, <1>7, <1>8 DEF Appends, Emit, Writes
<1>10. Steady BY <1>1, <1>2, SteadyWhen
<1>11. SameStmts BY <1>1, <1>3, ContextsStay DEF ctx
<1>12. Moved(m) BY <1>1, <1>2, <1>3, <1>4, DropAdvancedMoves
<1>13. ~Opened(m)
  <2>1. m \in Nat BY <1>6
  <2> QED BY <1>12, <2>1 DEF Opened, Moved
<1>14. label_counter' = label_counter BY <1>1 DEF labels
<1>15. Known("edon", n)' BY <1>8, <1>9, DefinedIsKnown DEF Writes
<1>16. \A l \in Awaited(work[Len(work)].block) : work[Len(work)].label = n /\ Known(l, n)'
  BY <1>2, <1>4, <1>5, <1>6, <1>15
<1>17. /\ m = Len(work) - 1 /\ ~Expands(Len(work)) /\ {"edon"} \subseteq LabelsFor("else")
       /\ n < (IF "else" \in BranchBlocks THEN label_counter' ELSE while_label_counter')
       /\ (\A l \in {"edon"} : Labels(l, n) = {}) /\ (\A l \in {} : Known(l, n)')
  BY <1>4, <1>5, <1>6, <1>14
<1> QED BY <1>2, <1>5, <1>6, <1>8, <1>9, <1>10, <1>11, <1>12, <1>13, <1>16, <1>17, FlowStep, ZenonT(30)

LEMMA ShapeEndBody == ASSUME CompilerShape, EndBody PROVE CompilerShape'
<1>1. CASE Len(Types) # Len(Current.entry) /\ SizeChecked
  BY <1>1, ShapeRejects DEF EndBody
<1>2. CASE ~(Len(Types) # Len(Current.entry) /\ SizeChecked)
  <2>1. /\ Returning("body")
        /\ Emit(<<At(Jump("jmp", "while", Current.label), Types), At(Label("wdon", Current.label), Types)>>)
        /\ work' = Advanced(Drop(work, 1)) /\ quirks \subseteq quirks'
        /\ UNCHANGED <<prog, phase, maps, ctx, labels>>
    BY <1>2 DEF EndBody
  <2>2. /\ phase \in {"main", "routines"} /\ work # <<>> /\ Current.block = "body" /\ Len(work) > 1
    BY <2>1, Return
  <2>3. Activations /\ Contexts /\ IsProgram(prog) /\ IsSeq(code) BY ShapeFacts
  <2>4. PICK m, n : m = Len(work) - 1 /\ n = Current.label OBVIOUS
  <2>5. /\ "body" \in LoopBlocks /\ "body" \notin BranchBlocks /\ Awaited("body") = {"wdon"}
        /\ "wdon" \in LabelsFor("body") /\ "body" \in BranchBlocks \union LoopBlocks
    BY BlockKinds
  <2>6. /\ m \in 1 .. Len(work) /\ m \in Nat \ {0} /\ ~Expands(Len(work)) /\ n \in Nat
        /\ n < while_label_counter
        /\ Current = work[Len(work)] /\ Labels("wdon", n) = {} /\ Labels("while", n) # {}
        /\ \A k \in 1 .. m : work[k].block \in Family("body") => work[k].label # n
    BY <2>2, <2>4, <2>5, Enclosing
  <2> DEFINE u == At(Jump("jmp", "while", n), Types)
             v == At(Label("wdon", n), Types)
  <2>7. u.ins = Jump("jmp", "while", n) /\ v.ins = Label("wdon", n) BY DEF At, View
  <2>8. Emit(<<u, v>>) BY <2>1, <2>4
  <2> HIDE DEF u, v
  <2>9. PICK s : s = <<u, v>> OBVIOUS
  <2>10. Writes(s, {"wdon"}, {"while"}, n) BY <2>7, <2>9, WritesJumpAndLabel
  <2>11. Appends(s) BY <2>3, <2>8, <2>9, <2>10 DEF Appends, Emit, Writes
  <2>12. Steady BY <2>1, <2>2, SteadyWhen
  <2>13. SameStmts BY <2>1, <2>3, ContextsStay DEF ctx
  <2>14. Moved(m) BY <2>1, <2>2, <2>3, <2>4, DropAdvancedMoves
  <2>15. ~Opened(m)
    <3>1. m \in Nat BY <2>6
    <3> QED BY <2>14, <3>1 DEF Opened, Moved
  <2>16. while_label_counter' = while_label_counter BY <2>1 DEF labels
  <2>17. Known("wdon", n)' BY <2>10, <2>11, DefinedIsKnown DEF Writes
  <2>18. Known("while", n)'
    <3>1. Labels("while", n)' # {} BY <2>6, <2>11, LabelsGrow
    <3> QED BY <3>1 DEF Known
  <2>19. \A l \in Awaited(work[Len(work)].block) : work[Len(work)].label = n /\ Known(l, n)'
    BY <2>2, <2>4, <2>5, <2>6, <2>17
  <2>20. PICK b, L, J : b = "body" /\ L = {"wdon"} /\ J = {"while"} OBVIOUS
  <2>21. /\ Moved(m) \/ Opened(m)
         /\ m = Len(work) \/ (m = Len(work) - 1 /\ ~Expands(Len(work)))
         /\ n \in Nat /\ n < (IF b \in BranchBlocks THEN label_counter' ELSE while_label_counter')
         /\ \A k \in 1 .. m : work[k].block \in Family(b) => work[k].label # n
         /\ L \subseteq LabelsFor(b)
         /\ \A l \in L : Labels(l, n) = {}
         /\ \A l \in J : Known(l, n)'
         /\ m = Len(work) \/ \A l \in Awaited(work[Len(work)].block) : work[Len(work)].label = n /\ Known(l, n)'
    BY <2>4, <2>5, <2>6, <2>14, <2>16, <2>18, <2>19, <2>20
  <2>22. Writes(s, L, J, n) /\ b \in BranchBlocks \union LoopBlocks BY <2>5, <2>10, <2>20
  <2> QED BY <2>2, <2>11, <2>12, <2>13, <2>15, <2>21, <2>22, FlowStep
<1> QED BY <1>1, <1>2

LEMMA ShapeEndThen == ASSUME CompilerShape, EndThen PROVE CompilerShape'
<1>1. /\ Returning("then") /\ quirks \subseteq quirks' /\ UNCHANGED <<prog, phase, maps, ctx, labels>>
  BY DEF EndThen
<1>2. /\ phase \in {"main", "routines"} /\ work # <<>> /\ Current.block = "then" /\ Len(work) > 1
  BY <1>1, Return
<1>3. Activations /\ Contexts /\ IsProgram(prog) /\ IsSeq(code) BY ShapeFacts
<1>4. PICK m, n, el : m = Len(work) - 1 /\ n = Current.label /\ el = astid(Top(Drop(work, 1)).cur).else OBVIOUS
<1>5. /\ "then" \in BranchBlocks /\ Awaited("then") = {"else", "edon"} /\ "else" \in BranchBlocks
      /\ LabelsFor("then") = {"else", "edon"} /\ "then" \in BranchBlocks \union LoopBlocks
      /\ Family("then") = BranchBlocks /\ Awaited("else") = {"edon"} /\ "then" \notin LoopBlocks
      /\ "else" \in BranchBlocks \union LoopBlocks
  BY BlockKinds
<1>6. /\ m \in 1 .. Len(work) /\ m \in Nat \ {0} /\ m + 1 = Len(work) /\ ~Expands(Len(work)) /\ n \in Nat
      /\ n < label_counter /\ Current = work[Len(work)]
      /\ Labels("edon", n) = {} /\ Labels("else", n) = {}
      /\ (\A k \in 1 .. m : work[k].block \in Family("then") => work[k].label # n)
      /\ Top(Drop(work, 1)) = work[m] /\ work[m].cur \in 0 .. asts_len
      /\ astid(work[m].cur).kind = "IF" /\ el \in -1 .. asts_len /\ Current.entry \in Seq(Kinds)
  <2>1. m = Len(work) - 1 /\ Current.block \in BranchBlocks \union LoopBlocks BY <1>2, <1>4, <1>5
  <2>2. /\ m \in 1 .. Len(work) /\ m \in Nat \ {0} /\ m + 1 = Len(work)
        /\ Current = work[Len(work)] /\ ~Expands(Len(work))
        /\ Top(Drop(work, 1)) = work[m] /\ work[m].cur \in 0 .. asts_len
        /\ astid(work[m].cur).kind = IF Current.block \in BranchBlocks THEN "IF" ELSE "WHILE"
        /\ astid(work[m].cur).kind = "IF" => astid(work[m].cur).else \in -1 .. asts_len
        /\ Current.entry \in Seq(Kinds) /\ Current.label \in Nat
        /\ Current.label < (IF Current.block \in BranchBlocks THEN label_counter ELSE while_label_counter)
        /\ \A l \in Awaited(Current.block) : Labels(l, Current.label) = {}
        /\ \A k \in 1 .. m : work[k].block \in Family(Current.block) => work[k].label # Current.label
    BY <1>2, <2>1, Enclosing
  <2>3. PICK block : block = Current.block OBVIOUS
  <2>4. block = "then" BY <1>2, <2>3
  <2>5. n < label_counter BY <1>4, <1>5, <2>2, <2>3, <2>4
  <2>6. Labels("edon", n) = {} /\ Labels("else", n) = {} BY <1>4, <1>5, <2>2, <2>3, <2>4
  <2>7. \A k \in 1 .. m : work[k].block \in Family("then") => work[k].label # n BY <1>4, <2>2, <2>3, <2>4
  <2>8. astid(work[m].cur).kind = "IF" BY <1>5, <2>2, <2>3, <2>4
  <2>9. el \in -1 .. asts_len BY <1>4, <2>2, <2>8
  <2> QED BY <1>4, <2>2, <2>5, <2>6, <2>7, <2>8, <2>9
<1> DEFINE u == At(Jump("jmp", "edon", n), Types)
           v == At(Label("else", n), Types)
           w == At(Label("edon", n), Types)
<1>7. u.ins = Jump("jmp", "edon", n) /\ v.ins = Label("else", n) /\ w.ins = Label("edon", n)
  BY DEF At, View
<1>8. IF el >= 0
      THEN Emit(<<u, v>>) /\ work' = Append(Drop(work, 1), Block("else", el, n, Current.entry))
      ELSE Emit(Append(<<u, v>>, w)) /\ work' = Advanced(Drop(work, 1))
  BY <1>4 DEF EndThen
<1> HIDE DEF u, v, w
<1>9. Steady BY <1>1, <1>2, SteadyWhen
<1>10. SameStmts BY <1>1, <1>3, ContextsStay DEF ctx
<1>11. label_counter' = label_counter BY <1>1 DEF labels
<1>12. /\ m = Len(work) - 1 /\ ~Expands(Len(work))
       /\ n < (IF "then" \in BranchBlocks THEN label_counter' ELSE while_label_counter')
  BY <1>4, <1>5, <1>6, <1>11
<1>13. CASE el >= 0
  <2>1. PICK s : s = <<u, v>> OBVIOUS
  <2>2. Writes(s, {"else"}, {"edon"}, n) BY <1>7, <2>1, WritesJumpAndLabel
  <2>3. Appends(s) BY <1>3, <1>8, <1>13, <2>1, <2>2 DEF Appends, Emit, Writes
  <2>4. PICK f : f = Block("else", el, n, Current.entry) OBVIOUS
  <2>5. work' = Append(Drop(work, 1), f) BY <1>8, <1>13, <2>4, SMTT(30)
  <2>6. Opened(m) /\ work'[m + 1] = f BY <1>2, <1>3, <1>4, <1>6, <2>5, DropAppendOpens
  <2>7. KeepsMaps BY <1>9 DEF Steady
  <2>8. /\ IsBlock(m + 1)' /\ ~Expands(m + 1)' /\ work'[m + 1].node = work[m].node
        /\ work'[m + 1].block = "else" /\ work'[m + 1].label = n
    <3>1. work'[m + 1] = Block("else", el, n, Current.entry) BY <2>4, <2>6
    <3>2. work[m].cur >= 0 BY <1>6
    <3>3. astid(work[m].cur).kind = IF "else" \in BranchBlocks THEN "IF" ELSE "WHILE" BY <1>5, <1>6, SMTT(30)
    <3>4. /\ m = Len(work) \/ (m = Len(work) - 1 /\ ~Expands(Len(work)))
          /\ el \in -1 .. asts_len /\ n \in Nat /\ Current.entry \in Seq(Kinds)
      BY <1>6, <1>12
    <3> QED BY <1>2, <1>5, <2>6, <2>7, <3>1, <3>2, <3>3, <3>4, NestedBlock
  <2>9. Known("edon", n)'
    <3>1. "edon" \in Awaited(work'[m + 1].block) /\ n = work'[m + 1].label /\ m \in Nat BY <1>5, <1>6, <2>8
    <3> QED BY <2>6, <3>1, AwaitedIsKnown
  <2>10. Known("else", n)' BY <2>2, <2>3, DefinedIsKnown DEF Writes
  <2>11. \A l \in Awaited(work[Len(work)].block) : work[Len(work)].label = n /\ Known(l, n)'
    BY <1>2, <1>4, <1>5, <1>6, <2>9, <2>10
  <2>12. /\ {"else"} \subseteq LabelsFor("then")
         /\ (\A l \in {"else"} : Labels(l, n) = {}) /\ (\A l \in {"edon"} : Known(l, n)')
    BY <1>5, <1>6, <2>9
  <2>13. /\ IsBlock(m + 1)' /\ ~Expands(m + 1)' /\ work'[m + 1].node = work[m].node
         /\ work'[m + 1].block \in Family("then") /\ work'[m + 1].label = n
         /\ (\A l \in Awaited(work'[m + 1].block) : l \notin {"else"} /\ Labels(l, n) = {})
    BY <1>5, <1>6, <2>8
  <2>14. PICK b, L, J : b = "then" /\ L = {"else"} /\ J = {"edon"} OBVIOUS
  <2>15. /\ Moved(m) \/ Opened(m)
         /\ m = Len(work) \/ (m = Len(work) - 1 /\ ~Expands(Len(work)))
         /\ n \in Nat /\ n < (IF b \in BranchBlocks THEN label_counter' ELSE while_label_counter')
         /\ \A k \in 1 .. m : work[k].block \in Family(b) => work[k].label # n
         /\ L \subseteq LabelsFor(b)
         /\ \A l \in L : Labels(l, n) = {}
         /\ \A l \in J : Known(l, n)'
         /\ m = Len(work) \/ \A l \in Awaited(work[Len(work)].block) : work[Len(work)].label = n /\ Known(l, n)'
         /\ b \notin LoopBlocks
    BY <2>14, <1>5, <1>6, <1>12, <2>6, <2>11, <2>12
  <2>16. Writes(s, L, J, n) /\ b \in BranchBlocks \union LoopBlocks BY <1>5, <2>2, <2>14
  <2>17. Opened(m) =>
            /\ IsBlock(m + 1)' /\ ~Expands(m + 1)' /\ work'[m + 1].node = work[m].node
            /\ work'[m + 1].block \in Family(b) /\ work'[m + 1].label = n
            /\ \A l \in Awaited(work'[m + 1].block) : l \notin L /\ Labels(l, n) = {}
            /\ b \in LoopBlocks => Labels("while", n) # {} \/ "while" \in L
    BY <1>5, <2>13, <2>14
  <2> QED BY <1>2, <1>9, <1>10, <2>3, <2>15, <2>16, <2>17, FlowStep
<1>14. CASE ~(el >= 0)
  <2>1. PICK s : s = Append(<<u, v>>, w) OBVIOUS
  <2>2. Writes(s, {"else", "edon"}, {"edon"}, n) BY <1>7, <2>1, WritesJumpAndLabels
  <2>3. Appends(s) BY <1>3, <1>8, <1>14, <2>1, <2>2 DEF Appends, Emit, Writes
  <2>4. Moved(m) BY <1>2, <1>3, <1>4, <1>8, <1>14, DropAdvancedMoves
  <2>5. ~Opened(m)
    <3>1. m \in Nat BY <1>6
    <3> QED BY <2>4, <3>1 DEF Opened, Moved
  <2>6. Known("edon", n)' /\ Known("else", n)' BY <2>2, <2>3, DefinedIsKnown DEF Writes
  <2>7. \A l \in Awaited(work[Len(work)].block) : work[Len(work)].label = n /\ Known(l, n)'
    BY <1>2, <1>4, <1>5, <1>6, <2>6
  <2>8. /\ {"else", "edon"} \subseteq LabelsFor("then")
        /\ (\A l \in {"else", "edon"} : Labels(l, n) = {}) /\ (\A l \in {"edon"} : Known(l, n)')
    BY <1>5, <1>6, <2>6
  <2>9. PICK b, L, J : b = "then" /\ L = {"else", "edon"} /\ J = {"edon"} OBVIOUS
  <2>10. /\ Moved(m) \/ Opened(m)
         /\ m = Len(work) \/ (m = Len(work) - 1 /\ ~Expands(Len(work)))
         /\ n \in Nat /\ n < (IF b \in BranchBlocks THEN label_counter' ELSE while_label_counter')
         /\ \A k \in 1 .. m : work[k].block \in Family(b) => work[k].label # n
         /\ L \subseteq LabelsFor(b)
         /\ \A l \in L : Labels(l, n) = {}
         /\ \A l \in J : Known(l, n)'
         /\ m = Len(work) \/ \A l \in Awaited(work[Len(work)].block) : work[Len(work)].label = n /\ Known(l, n)'
    BY <2>9, <1>6, <1>12, <2>4, <2>7, <2>8
  <2>11. Writes(s, L, J, n) /\ b \in BranchBlocks \union LoopBlocks BY <1>5, <2>2, <2>9
  <2> QED BY <1>2, <1>9, <1>10, <2>3, <2>5, <2>10, <2>11, FlowStep
<1> QED BY <1>13, <1>14

LEMMA ShapeEndCond == ASSUME CompilerShape, EndCond PROVE CompilerShape'
<1>1. CASE Types = <<>> \/ Top(Types) # "int" BY <1>1, ShapeRejects DEF EndCond
<1>2. CASE ~(Types = <<>> \/ Top(Types) # "int")
  <2>1. PICK m, n, body :
           m = Len(work) - 1 /\ n = Current.label /\ body = astid(Top(Drop(work, 1)).cur).body
    OBVIOUS
  <2>2. /\ Returning("cond") /\ Emit(<<At(Jump("jz", "wdon", n), Types)>>) /\ SetTypes(Popped)
        /\ work' = Append(Drop(work, 1), Block("body", body, n, Current.entry)) /\ quirks \subseteq quirks'
        /\ UNCHANGED <<prog, phase, maps, labels>>
    BY <1>2, <2>1 DEF EndCond
  <2>3. /\ phase \in {"main", "routines"} /\ work # <<>> /\ Current.block = "cond" /\ Len(work) > 1
        /\ Types \in Seq(Kinds) /\ Len(Types) \in Nat
    BY <2>2, Return
  <2>4. Activations /\ Contexts /\ IsProgram(prog) /\ IsSeq(code) BY ShapeFacts
  <2>5. Popped \in Seq(Kinds)
    <3>1. Len(Types) >= 1 BY <1>2, <2>3
    <3> QED BY <2>3, <3>1, DropOne DEF Popped
  <2>6. /\ "cond" \in LoopBlocks /\ "cond" \notin BranchBlocks /\ Awaited("cond") = {"wdon"}
        /\ "cond" \in BranchBlocks \union LoopBlocks /\ "body" \in BranchBlocks \union LoopBlocks
        /\ "body" \in LoopBlocks /\ "body" \notin BranchBlocks /\ Awaited("body") = {"wdon"}
        /\ Family("cond") = LoopBlocks
    BY BlockKinds
  <2>7. /\ m \in 1 .. Len(work) /\ m \in Nat \ {0} /\ m + 1 = Len(work) /\ ~Expands(Len(work)) /\ n \in Nat
        /\ n < while_label_counter /\ Current = work[Len(work)]
        /\ Labels("wdon", n) = {} /\ Labels("while", n) # {}
        /\ (\A k \in 1 .. m : work[k].block \in Family("cond") => work[k].label # n)
        /\ Top(Drop(work, 1)) = work[m] /\ work[m].cur \in 0 .. asts_len
        /\ astid(work[m].cur).kind = "WHILE" /\ body \in -1 .. asts_len /\ Current.entry \in Seq(Kinds)
    BY <2>1, <2>3, <2>6, Enclosing
  <2>8. PICK s : s = <<At(Jump("jz", "wdon", n), Types)>> OBVIOUS
  <2>9. Writes(s, {}, {"wdon"}, n)
    <3>1. At(Jump("jz", "wdon", n), Types).ins = Jump("jz", "wdon", n) BY DEF At, View
    <3> QED BY <2>8, <3>1, WritesJump
  <2>10. Appends(s) BY <2>2, <2>4, <2>8, <2>9 DEF Appends, Emit, Writes
  <2>11. Steady BY <2>2, <2>3, SteadyWhen
  <2>12. SameStmts BY <2>2, <2>3, <2>4, <2>5, SetTypesKeeps
  <2>13. PICK f : f = Block("body", body, n, Current.entry) OBVIOUS
  <2>14. Opened(m) /\ work'[m + 1] = f
    <3>1. work' = Append(Drop(work, 1), f) BY <2>2, <2>13
    <3> QED BY <2>1, <2>3, <2>4, <2>7, <3>1, DropAppendOpens
  <2>15. /\ IsBlock(m + 1)' /\ ~Expands(m + 1)' /\ work'[m + 1].node = work[m].node
         /\ work'[m + 1].block = "body" /\ work'[m + 1].label = n
    <3>1. work'[m + 1] = Block("body", body, n, Current.entry) BY <2>13, <2>14
    <3>2. work[m].cur >= 0 /\ m = Len(work) - 1 BY <2>1, <2>7
    <3>3. astid(work[m].cur).kind = IF "body" \in BranchBlocks THEN "IF" ELSE "WHILE" BY <2>6, <2>7
    <3>4. KeepsMaps BY <2>11 DEF Steady
    <3> QED BY <2>3, <2>6, <2>7, <2>14, <3>1, <3>2, <3>3, <3>4, NestedBlock, SMTT(30)
  <2>16. Known("wdon", n)'
    <3>1. "wdon" \in Awaited(work'[m + 1].block) /\ n = work'[m + 1].label /\ m \in Nat BY <2>6, <2>7, <2>15
    <3> QED BY <2>14, <3>1, AwaitedIsKnown
  <2>17. \A l \in Awaited(work[Len(work)].block) : work[Len(work)].label = n /\ Known(l, n)'
    BY <2>1, <2>3, <2>6, <2>7, <2>16
  <2>18. while_label_counter' = while_label_counter BY <2>2 DEF labels
  <2>19. /\ m = Len(work) - 1 /\ {} \subseteq LabelsFor("cond")
         /\ n < (IF "cond" \in BranchBlocks THEN label_counter' ELSE while_label_counter')
         /\ (\A l \in {} : Labels(l, n) = {}) /\ (\A l \in {"wdon"} : Known(l, n)')
    BY <2>1, <2>6, <2>7, <2>16, <2>18
  <2>20. /\ IsBlock(m + 1)' /\ ~Expands(m + 1)' /\ work'[m + 1].node = work[m].node
         /\ work'[m + 1].block \in Family("cond") /\ work'[m + 1].label = n
         /\ (\A l \in Awaited(work'[m + 1].block) : l \notin {} /\ Labels(l, n) = {})
         /\ Labels("while", n) # {}
    BY <2>6, <2>7, <2>15
  <2>21. PICK b, L, J : b = "cond" /\ L = {} /\ J = {"wdon"} OBVIOUS
  <2>22. /\ Moved(m) \/ Opened(m)
         /\ m = Len(work) \/ (m = Len(work) - 1 /\ ~Expands(Len(work)))
         /\ n \in Nat /\ n < (IF b \in BranchBlocks THEN label_counter' ELSE while_label_counter')
         /\ \A k \in 1 .. m : work[k].block \in Family(b) => work[k].label # n
         /\ L \subseteq LabelsFor(b)
         /\ \A l \in L : Labels(l, n) = {}
         /\ \A l \in J : Known(l, n)'
         /\ m = Len(work) \/ \A l \in Awaited(work[Len(work)].block) : work[Len(work)].label = n /\ Known(l, n)'
    BY <2>7, <2>14, <2>17, <2>19, <2>21
  <2>23. Writes(s, L, J, n) /\ b \in BranchBlocks \union LoopBlocks BY <2>6, <2>9, <2>21
  <2>24. Opened(m) =>
            /\ IsBlock(m + 1)' /\ ~Expands(m + 1)' /\ work'[m + 1].node = work[m].node
            /\ work'[m + 1].block \in Family(b) /\ work'[m + 1].label = n
            /\ \A l \in Awaited(work'[m + 1].block) : l \notin L /\ Labels(l, n) = {}
            /\ b \in LoopBlocks => Labels("while", n) # {} \/ "while" \in L
    BY <2>20, <2>21
  <2> QED BY <2>3, <2>10, <2>11, <2>12, <2>22, <2>23, <2>24, FlowStep
<1> QED BY <1>1, <1>2

(* What a nested block of the current statement can count on.                 *)
LEMMA NestedHere ==
    ASSUME CompilerShape, NEW kinds, Compiling(kinds)
    PROVE  /\ Len(work) \in Nat \ {0} /\ Len(work) \in 1 .. Len(work) /\ work[Len(work)] = Current
           /\ work[Len(work)].cur \in 0 .. asts_len /\ astid(work[Len(work)].cur) = Node
           /\ Node.kind = "IF" => Node.then \in -1 .. asts_len /\ Node.else \in -1 .. asts_len
           /\ Node.kind = "WHILE" => Node.cond \in -1 .. asts_len /\ Node.body \in -1 .. asts_len
<1>1. work # <<>> /\ Current.cur \in 0 .. asts_len /\ IsAst(Node, -1 .. asts_len) BY Statement
<1>2. Activations BY ShapeFacts
<1>3. Len(work) \in Nat \ {0} /\ Current = work[Len(work)] BY <1>1, <1>2, BlocksAre
<1> QED BY <1>1, <1>3 DEF IsAst, Node

LEMMA ShapeCompileWhile == ASSUME CompilerShape, CompileWhile PROVE CompilerShape'
<1>1. CASE ~Fits BY <1>1, ShapeCrashes DEF CompileWhile
<1>2. CASE Fits
  <2>1. PICK m, n : m = Len(work) /\ n = while_label_counter OBVIOUS
  <2>2. PICK b, first : /\ b = IF Node.cond >= 0 THEN "cond" ELSE "body"
                        /\ first = IF Node.cond >= 0 THEN Node.cond ELSE Node.body
    OBVIOUS
  <2>3. /\ Compiling({"WHILE"}) /\ while_label_counter' = n + 1
        /\ Emit(<<At(Label("while", n), Types)>>)
        /\ work' = Append(work, Block(b, first, n, Types))
        /\ UNCHANGED <<prog, phase, maps, ctx, label_counter, quirks>>
    BY <1>2, <2>1, <2>2 DEF CompileWhile, Increment
  <2>4. /\ phase \in {"main", "routines"} /\ work # <<>> /\ Node.kind \in {"WHILE"} /\ Types \in Seq(Kinds)
    BY <2>3, Statement
  <2>5. Activations /\ Contexts /\ IsSeq(code) /\ while_label_counter \in Nat BY ShapeFacts
  <2>6. /\ m \in Nat /\ m \in 1 .. Len(work) /\ work[m].cur >= 0 /\ astid(work[m].cur).kind = "WHILE"
        /\ first \in -1 .. asts_len /\ n \in Nat
    BY <2>1, <2>2, <2>3, <2>4, <2>5, NestedHere
  <2>7. /\ b \in LoopBlocks /\ b \notin BranchBlocks /\ Awaited(b) = {"wdon"} /\ Family(b) = LoopBlocks
        /\ b \in BranchBlocks \union LoopBlocks /\ LabelsFor(b) = {"while", "wdon"} /\ b \in Family(b)
    BY <2>2, BlockKinds
  <2>8. /\ Labels("while", n) = {} /\ Labels("wdon", n) = {}
        /\ \A k \in 1 .. m : work[k].block \in LoopBlocks => work[k].label # n
    BY <2>1, FreshLabels
  <2>9. PICK s, L, J : s = <<At(Label("while", n), Types)>> /\ L = {"while"} /\ J = {} OBVIOUS
  <2>10. Writes(s, L, J, n)
    <3>1. At(Label("while", n), Types).ins = Label("while", n) BY DEF At, View
    <3> QED BY <2>9, <3>1, WritesLabel
  <2>11. Appends(s) BY <2>3, <2>5, <2>9, <2>10 DEF Appends, Emit, Writes
  <2>12. Steady BY <2>1, <2>3, <2>4, SteadyCounts
  <2>13. SameStmts BY <2>3, <2>5, ContextsStay DEF ctx
  <2>14. PICK f : f = Block(b, first, n, Types) OBVIOUS
  <2>15. Opened(m) /\ work'[m + 1] = f BY <2>1, <2>3, <2>4, <2>5, <2>14, AppendOpens
  <2>16. /\ IsBlock(m + 1)' /\ ~Expands(m + 1)' /\ work'[m + 1].node = work[m].node
         /\ work'[m + 1].block = b /\ work'[m + 1].label = n
    <3>1. /\ work'[m + 1] = Block(b, first, n, Types)
          /\ m = Len(work) \/ (m = Len(work) - 1 /\ ~Expands(Len(work)))
          /\ astid(work[m].cur).kind = IF b \in BranchBlocks THEN "IF" ELSE "WHILE"
      BY <2>1, <2>6, <2>7, <2>14, <2>15
    <3>2. KeepsMaps BY <2>12 DEF Steady
    <3> QED BY <2>4, <2>6, <2>7, <2>15, <3>1, <3>2, NestedBlock
  <2>17. /\ Moved(m) \/ Opened(m)
         /\ m = Len(work) \/ (m = Len(work) - 1 /\ ~Expands(Len(work)))
         /\ n \in Nat /\ n < (IF b \in BranchBlocks THEN label_counter' ELSE while_label_counter')
         /\ \A k \in 1 .. m : work[k].block \in Family(b) => work[k].label # n
         /\ L \subseteq LabelsFor(b)
         /\ \A l \in L : Labels(l, n) = {}
         /\ \A l \in J : Known(l, n)'
         /\ m = Len(work) \/ \A l \in Awaited(work[Len(work)].block) : work[Len(work)].label = n /\ Known(l, n)'
    BY <2>1, <2>3, <2>6, <2>7, <2>8, <2>9, <2>15
  <2>18. Opened(m) =>
            /\ IsBlock(m + 1)' /\ ~Expands(m + 1)' /\ work'[m + 1].node = work[m].node
            /\ work'[m + 1].block \in Family(b) /\ work'[m + 1].label = n
            /\ \A l \in Awaited(work'[m + 1].block) : l \notin L /\ Labels(l, n) = {}
            /\ b \in LoopBlocks => Labels("while", n) # {} \/ "while" \in L
    BY <2>7, <2>8, <2>9, <2>16
  <2> QED BY <2>4, <2>7, <2>10, <2>11, <2>12, <2>13, <2>17, <2>18, FlowStep
<1> QED BY <1>1, <1>2

LEMMA ShapeCompileIf == ASSUME CompilerShape, CompileIf PROVE CompilerShape'
<1>1. Compiling({"IF"}) BY DEF CompileIf
<1>2. /\ phase \in {"main", "routines"} /\ work # <<>> /\ Node.kind \in {"IF"} /\ Types \in Seq(Kinds)
      /\ Len(Types) \in Nat /\ Types # <<>> => Len(Types) >= 1
      /\ Len(Types) >= 1 => Popped \in Seq(Kinds)
  BY <1>1, Statement
<1>3. CASE Types = <<>> \/ Top(Types) # "int" BY <1>3, ShapeRejects DEF CompileIf
<1>4. CASE ~(Types = <<>> \/ Top(Types) # "int") /\ Node.then < 0 /\ Node.else < 0
  <2>1. Continue(<<At([op |-> "drop"], Types)>>, Popped) BY <1>4 DEF CompileIf
  <2>2. Popped \in Seq(Kinds) BY <1>2, <1>4
  <2>3. Harmless([op |-> "drop"]) BY DEF Harmless
  <2> QED BY <1>1, <2>1, <2>2, <2>3, ShapeOne
<1>5. CASE /\ ~(Types = <<>> \/ Top(Types) # "int") /\ ~(Node.then < 0 /\ Node.else < 0)
           /\ ~Fits
  BY <1>5, ShapeCrashes DEF CompileIf
<1>6. CASE /\ ~(Types = <<>> \/ Top(Types) # "int") /\ ~(Node.then < 0 /\ Node.else < 0)
           /\ Fits
  <2>1. PICK m, n : m = Len(work) /\ n = label_counter OBVIOUS
  <2>2. PICK b, first : /\ b = IF Node.then >= 0 THEN "then" ELSE "else"
                        /\ first = IF Node.then >= 0 THEN Node.then ELSE Node.else
    OBVIOUS
  <2> DEFINE u == At(Jump("jz", "else", n), Types)
             v == At(Label("else", n), Popped)
  <2>3. /\ label_counter' = n + 1 /\ SetTypes(Popped)
        /\ Emit(IF Node.then >= 0 THEN <<u>> ELSE <<u, v>>)
        /\ work' = Append(work, Block(b, first, n, Popped))
        /\ UNCHANGED <<prog, phase, maps, while_label_counter, quirks>>
    BY <1>6, <2>1, <2>2 DEF CompileIf, Increment
  <2>4. u.ins = Jump("jz", "else", n) /\ v.ins = Label("else", n) BY DEF At, View
  <2> HIDE DEF u, v
  <2>5. Activations /\ Contexts /\ IsSeq(code) /\ label_counter \in Nat /\ IsProgram(prog) BY ShapeFacts
  <2>6. /\ m \in Nat /\ m \in 1 .. Len(work) /\ work[m].cur >= 0 /\ astid(work[m].cur).kind = "IF"
        /\ first \in -1 .. asts_len /\ n \in Nat
    BY <1>1, <1>2, <2>1, <2>2, <2>5, NestedHere
  <2>7. /\ b \in BranchBlocks /\ b \notin LoopBlocks /\ Family(b) = BranchBlocks /\ "edon" \in Awaited(b)
        /\ (Node.then >= 0 => Awaited(b) = {"else", "edon"})
        /\ (~(Node.then >= 0) => Awaited(b) = {"edon"})
        /\ b \in BranchBlocks \union LoopBlocks /\ LabelsFor(b) = {"else", "edon"} /\ b \in Family(b)
    BY <2>2, BlockKinds
  <2>8. /\ Labels("else", n) = {} /\ Labels("edon", n) = {}
        /\ \A k \in 1 .. m : work[k].block \in BranchBlocks => work[k].label # n
    BY <2>1, FreshLabels
  <2>9. PICK s, L, J : /\ s = IF Node.then >= 0 THEN <<u>> ELSE <<u, v>>
                       /\ L = IF Node.then >= 0 THEN {} ELSE {"else"}
                       /\ J = {"else"}
    OBVIOUS
  <2>10. Writes(s, L, J, n)
    <3>1. CASE Node.then >= 0 BY <2>4, <2>9, <3>1, WritesJump
    <3>2. CASE ~(Node.then >= 0) BY <2>4, <2>9, <3>2, WritesJumpAndLabel
    <3> QED BY <3>1, <3>2
  <2>11. Appends(s) BY <2>3, <2>5, <2>9, <2>10 DEF Appends, Emit, Writes
  <2>12. Steady BY <1>2, <2>1, <2>3, SteadyCounts
  <2>13. Popped \in Seq(Kinds) BY <1>2, <1>6
  <2>14. SameStmts BY <1>2, <2>3, <2>5, <2>13, SetTypesKeeps
  <2>15. PICK f : f = Block(b, first, n, Popped) OBVIOUS
  <2>16. Opened(m) /\ work'[m + 1] = f BY <1>2, <2>1, <2>3, <2>5, <2>15, AppendOpens
  <2>17. /\ IsBlock(m + 1)' /\ ~Expands(m + 1)' /\ work'[m + 1].node = work[m].node
         /\ work'[m + 1].block = b /\ work'[m + 1].label = n
    <3>1. /\ work'[m + 1] = Block(b, first, n, Popped)
          /\ m = Len(work) \/ (m = Len(work) - 1 /\ ~Expands(Len(work)))
          /\ astid(work[m].cur).kind = IF b \in BranchBlocks THEN "IF" ELSE "WHILE"
      BY <2>1, <2>6, <2>7, <2>15, <2>16
    <3>2. KeepsMaps BY <2>12 DEF Steady
    <3> QED BY <1>2, <2>6, <2>7, <2>13, <2>16, <3>1, <3>2, NestedBlock, SMTT(30)
  <2>18. Known("else", n)'
    <3>1. CASE Node.then >= 0
      <4>1. "else" \in Awaited(work'[m + 1].block) /\ n = work'[m + 1].label BY <2>7, <2>17, <3>1
      <4> QED BY <2>6, <2>16, <4>1, AwaitedIsKnown
    <3>2. CASE ~(Node.then >= 0)
      <4>1. Defines(s, "else", n) BY <2>9, <2>10, <3>2 DEF Writes
      <4> QED BY <2>11, <4>1, DefinedIsKnown
    <3> QED BY <3>1, <3>2
  <2>19. /\ Moved(m) \/ Opened(m)
         /\ m = Len(work) \/ (m = Len(work) - 1 /\ ~Expands(Len(work)))
         /\ n \in Nat /\ n < (IF b \in BranchBlocks THEN label_counter' ELSE while_label_counter')
         /\ \A k \in 1 .. m : work[k].block \in Family(b) => work[k].label # n
         /\ L \subseteq LabelsFor(b)
         /\ \A l \in L : Labels(l, n) = {}
         /\ \A l \in J : Known(l, n)'
         /\ m = Len(work) \/ \A l \in Awaited(work[Len(work)].block) : work[Len(work)].label = n /\ Known(l, n)'
    BY <2>1, <2>3, <2>6, <2>7, <2>8, <2>9, <2>16, <2>18
  <2>20. Opened(m) =>
            /\ IsBlock(m + 1)' /\ ~Expands(m + 1)' /\ work'[m + 1].node = work[m].node
            /\ work'[m + 1].block \in Family(b) /\ work'[m + 1].label = n
            /\ \A l \in Awaited(work'[m + 1].block) : l \notin L /\ Labels(l, n) = {}
            /\ b \in LoopBlocks => Labels("while", n) # {} \/ "while" \in L
    BY <2>7, <2>8, <2>9, <2>17
  <2> QED BY <1>2, <2>7, <2>10, <2>11, <2>12, <2>14, <2>19, <2>20, FlowStep
<1> QED BY <1>3, <1>4, <1>5, <1>6

-----------------------------------------------------------------------------
(* Every step of the compiler, and every other.                               *)
LEMMA CompileKeepsShape == ASSUME CompilerShape, Compile PROVE CompilerShape'
<1>1. CASE FillMaps \/ CompileMain \/ CompileRoutine \/ EndRoutine \/ CompileDone
  BY <1>1, ShapeFillMaps, ShapeCompileMain, ShapeCompileRoutine, ShapeEndRoutine, ShapeDone
<1>2. CASE CompilePush \/ CompileLiteral \/ CompileCall \/ EndInline
  BY <1>2, ShapePush, ShapeLiteral, ShapeCall, ShapeEndInline
<1>3. CASE CompileArith \/ CompileEqual BY <1>3, ShapeArith
<1>4. CASE CompileBnot \/ CompileDrop \/ CompileDup \/ CompileDot \/ CompileWrite BY <1>4, ShapeUnary
<1>5. CASE CompilePlus \/ CompileSyscall \/ CompileNothing
  BY <1>5, ShapePlus, ShapeSyscall, ShapeNothing
<1>6. CASE CompileIf \/ EndThen \/ EndElse BY <1>6, ShapeCompileIf, ShapeEndThen, ShapeEndElse
<1>7. CASE CompileWhile \/ EndCond \/ EndBody BY <1>7, ShapeCompileWhile, ShapeEndCond, ShapeEndBody
<1> QED BY <1>1, <1>2, <1>3, <1>4, <1>5, <1>6, <1>7 DEF Compile

LEMMA ShapeStep == ASSUME CompilerShape, [Next]_vars PROVE CompilerShape'
<1>1. CASE Compiles BY <1>1, CompileKeepsShape DEF Compiles
<1>2. ASSUME UNCHANGED codegenVars PROVE CompilerShape'
  <2>1. phase' = phase /\ UNCHANGED <<prog, maps, ctx, work, labels, code, quirks>>
    BY <1>2 DEF codegenVars
  <2> QED BY <2>1, ShapeUnchanged
<1>3. CASE Load \/ Executes \/ End \/ UNCHANGED vars BY <1>2, <1>3 DEF Load, Executes, End, vars
<1> QED BY <1>1, <1>3 DEF Next

LEMMA ShapeAtFirst == ASSUME Init PROVE CompilerShape
<1>1. /\ prog \in Programs /\ phase = "fill" /\ cursor = 0 /\ values_map = <<>> /\ externs_map = <<>>
      /\ proc_ctx = NoCtx /\ func_ctx = NoCtx /\ work = <<>> /\ label_counter = 0
      /\ while_label_counter = 0 /\ code = <<>> /\ quirks = {}
  BY DEF Init, CodegenInit
<1>2. IsProgram(prog) /\ check_for_main_function(prog) BY <1>1, ProgramAssumption, MainAssumption
<1>3. IsSeq(<<>>) /\ Len(<<>>) = 0 /\ DOMAIN <<>> = {} BY EmptySequence
<1>4. Maps BY <1>1, <1>3 DEF Maps, IsMap
<1>5. Progress
  <2>1. prog.main \in 0 .. asts_len - 1 /\ 0 \in TopLevel(prog)
    BY <1>2, ChainOf DEF IsProgram
  <2>2. ~(cursor > prog.main) BY <1>1, <2>1
  <2> QED BY <1>1, <1>2, <2>1, <2>2 DEF Progress
<1>6. Activations /\ OneBody /\ FunctionsFirst /\ LabelsToCome
  BY <1>1, <1>3 DEF Activations, OneBody, FunctionsFirst, LabelsToCome
<1>7. Contexts
  <2>1. IsContext(NoCtx) /\ NoCtx.stmt = NULL BY <1>2, NoContext, AstOf
  <2>2. \A k : k \notin 1 .. Len(work) BY <1>1, EmptySequence
  <2> QED BY <1>1, <1>3, <2>1, <2>2 DEF Contexts, LastExpanded
<1>8. LabelsInCode BY <1>1, <1>3 DEF LabelsInCode, LabelsAt, JumpsAt
<1> QED BY <1>4, <1>5, <1>6, <1>7, <1>8 DEF CompilerShape

(* compiler.c, for every program: a name is in a map once and with its own    *)
(* declaration; the open blocks nest as the IFs, WHILEs and inlined bodies    *)
(* they come from do; a context is the innermost routine's of its sort; and   *)
(* each label of the code is new, each jump's known or still to be written.   *)
THEOREM ShapeHolds == Spec => []CompilerShape
<1>1. Init => CompilerShape BY ShapeAtFirst
<1>2. CompilerShape /\ [Next]_vars => CompilerShape' BY ShapeStep
<1> QED BY <1>1, <1>2, PTL DEF Spec

-----------------------------------------------------------------------------
(* What that says of contexts and labels.                                     *)
LEMMA InnermostIs ==
    ASSUME Activations, NEW k \in DOMAIN work, Expands(k),
           \A j \in k + 1 .. Len(work) : ~Expands(j)
    PROVE  Innermost = k
<1>1. Len(work) \in Nat /\ DOMAIN work = 1 .. Len(work) BY IsSeqProperties DEF Activations
<1>2. k \in Expanding /\ Expanding \subseteq Nat BY <1>1 DEF Expanding, Expands
<1>3. ASSUME NEW j \in Expanding PROVE j <= k
  <2>1. j \in 1 .. Len(work) /\ Expands(j) BY <1>1 DEF Expanding, Expands
  <2>2. j \notin k + 1 .. Len(work) BY <2>1
  <2> QED BY <1>1, <2>1, <2>2
<1>4. ASSUME NEW x \in Expanding, \A j \in Expanding : j <= x PROVE x = k
  <2>1. k <= x /\ x <= k /\ x \in Nat /\ k \in Nat BY <1>2, <1>3, <1>4
  <2> QED BY <2>1
<1> HIDE DEF Expanding
<1> QED BY <1>2, <1>3, <1>4 DEF Innermost

LEMMA ContextIsOfTheBody == ASSUME CompilerShape PROVE ContextOfTheBody
<1>1. CASE work = <<>> BY <1>1, IdleContexts DEF ContextOfTheBody
<1>2. CASE work # <<>>
  <2> SUFFICES ASSUME "inline_ctx" \notin quirks PROVE Ctx.stmt = work[Innermost].node
    BY <1>2 DEF ContextOfTheBody
  <2>1. Activations /\ Contexts BY ShapeFacts
  <2>2. FunctionsFirst BY DEF CompilerShape
  <2>3. /\ Len(work) \in Nat \ {0} /\ DOMAIN work = 1 .. Len(work)
        /\ \A k \in DOMAIN work : IsActivation(work[k])
    BY <1>2, <2>1, BlocksAre
  <2>4. \A k \in DOMAIN work : Decl(k).kind \in {"FUNC", "PROC"}
    BY <2>3 DEF IsActivation, DeclaredAs, Decl
  <2>5. /\ LastExpanded("PROC", Len(work), proc_ctx.stmt)
        /\ LastExpanded("FUNC", Len(work), func_ctx.stmt)
    BY <2>1 DEF Contexts
  <2>6. CASE InProc
    <3>1. PICK k \in 1 .. Len(work) : /\ Expanded(k, "PROC") /\ work[k].node = proc_ctx.stmt
                                      /\ \A j \in k + 1 .. Len(work) : ~Expanded(j, "PROC")
      BY <2>5, <2>6 DEF LastExpanded, InProc
    <3>2. ASSUME NEW j \in k + 1 .. Len(work), Expands(j) PROVE FALSE
      <4>1. j \in DOMAIN work /\ k \in 1 .. j BY <2>3
      <4>2. Decl(j).kind = "PROC" BY <2>2, <3>1, <3>2, <4>1 DEF FunctionsFirst
      <4> QED BY <3>1, <3>2, <4>2 DEF Expanded
    <3>3. Innermost = k BY <2>1, <2>3, <3>1, <3>2, InnermostIs DEF Expanded
    <3> QED BY <2>6, <3>1, <3>3 DEF Ctx
  <2>7. CASE ~InProc
    <3>1. func_ctx.stmt # NULL /\ \A k \in DOMAIN work : ~Expanded(k, "PROC")
      BY <1>2, <2>1, <2>7, CurrentContext
    <3>2. PICK k \in 1 .. Len(work) : /\ Expanded(k, "FUNC") /\ work[k].node = func_ctx.stmt
                                      /\ \A j \in k + 1 .. Len(work) : ~Expanded(j, "FUNC")
      BY <2>5, <3>1 DEF LastExpanded
    <3>3. ASSUME NEW j \in k + 1 .. Len(work), Expands(j) PROVE FALSE
      <4>1. j \in DOMAIN work BY <2>3
      <4> QED BY <2>4, <3>1, <3>2, <3>3, <4>1 DEF Expanded
    <3>4. Innermost = k BY <2>1, <2>3, <3>2, <3>3, InnermostIs DEF Expanded
    <3> QED BY <2>7, <3>2, <3>4 DEF Ctx
  <2> QED BY <2>6, <2>7
<1> QED BY <1>1, <1>2

LEMMA JumpsHaveLabels == ASSUME CompilerShape PROVE JumpsLand
<1> SUFFICES ASSUME Accepted, NEW i \in DOMAIN code, code[i].ins.op \in {"jmp", "jz"}
             PROVE  Cardinality(Labels(code[i].ins.l, code[i].ins.n)) = 1
  BY DEF JumpsLand
<1>1. LabelsInCode /\ work = <<>> BY DEF CompilerShape, Progress, Accepted
<1>2. DOMAIN work = {} BY <1>1, EmptySequence
<1>3. i \in JumpsAt BY DEF JumpsAt
<1> DEFINE L == Labels(code[i].ins.l, code[i].ins.n)
<1>4. L # {} BY <1>1, <1>2, <1>3 DEF LabelsInCode
<1>5. ASSUME NEW x \in L, NEW y \in L PROVE x = y
  <2>1. x \in LabelsAt /\ y \in LabelsAt /\ code[x].ins = code[y].ins BY DEF Labels, LabelsAt
  <2> QED BY <1>1, <2>1 DEF LabelsInCode
<1> HIDE DEF L
<1>6. PICK x : L = {x} BY <1>4, <1>5
<1> QED BY <1>6, FS_Singleton DEF L

(* compile_inline, compile_proc, compile_func: whatever is nested or inlined, *)
(* code is compiled in the context of the routine whose body it is.           *)
THEOREM ContextHolds == Spec => []ContextOfTheBody
<1>1. CompilerShape => ContextOfTheBody BY ContextIsOfTheBody
<1> QED BY <1>1, ShapeHolds, PTL

(* label_counter, while_label_counter: in an accepted program every jump has  *)
(* exactly one label to go to, at any nesting and however often its code was  *)
(* inlined.                                                                   *)
THEOREM JumpsLandHolds == Spec => []JumpsLand
<1>1. CompilerShape => JumpsLand BY JumpsHaveLabels
<1> QED BY <1>1, ShapeHolds, PTL

-----------------------------------------------------------------------------
(* Words.  Each pattern of bits is that of one of them.                       *)
LEMMA PowerOfTwo ==
    ASSUME NEW n \in Nat
    PROVE  2 ^ n \in Nat \ {0} /\ 2 ^ 0 = 1 /\ 2 ^ (n + 1) = 2 * 2 ^ n
<1> DEFINE S == 1 .. n
           x == n + 1
           U == S \union {x}
           with == [T \in SUBSET S |-> T \union {x}]
           W == {T \union {x} : T \in SUBSET S}
<1>1. IsFiniteSet(S) /\ Cardinality(S) = n BY FS_Interval
<1>2. x \notin S OBVIOUS
<1>3. IsFiniteSet(U) /\ Cardinality(U) = n + 1 BY <1>1, <1>2, FS_AddElement
<1>4. IsFiniteSet(SUBSET S) /\ Cardinality(SUBSET S) = 2 ^ n BY <1>1, FS_SUBSET
<1>5. IsFiniteSet(SUBSET U) /\ Cardinality(SUBSET U) = 2 ^ (n + 1) BY <1>3, FS_SUBSET
<1>6. 2 ^ 0 = 1
  <2>1. IsFiniteSet({}) /\ Cardinality({}) = 0 BY FS_EmptySet
  <2>2. Cardinality(SUBSET {}) = 2 ^ 0 BY <2>1, FS_SUBSET
  <2>3. SUBSET {} = {{}} OBVIOUS
  <2> QED BY <2>2, <2>3, FS_Singleton
<1> HIDE DEF S, x
<1>7. IsFiniteSet(W) /\ Cardinality(W) = Cardinality(SUBSET S)
  <2>1. with \in [SUBSET S -> W] OBVIOUS
  <2>2. \A T \in SUBSET S : with[T] \ {x} = T BY <1>2
  <2>3. \A T, V \in SUBSET S : with[T] = with[V] => T = V
    <3> HIDE DEF with
    <3> QED BY <2>2
  <2>4. \A Y \in W : \E T \in SUBSET S : with[T] = Y OBVIOUS
  <2> HIDE DEF with, W
  <2>5. with \in Bijection(SUBSET S, W) BY <2>1, <2>3, <2>4 DEF Bijection, Injection, Surjection, IsInjective
  <2>6. ExistsBijection(SUBSET S, W) BY <2>5 DEF ExistsBijection
  <2> QED BY <1>4, <2>6, FS_Bijection
<1>8. SUBSET U = (SUBSET S) \union W
  <2>1. ASSUME NEW Y \in SUBSET U, x \in Y PROVE Y \in W
    <3>1. Y \ {x} \in SUBSET S /\ Y = (Y \ {x}) \union {x} BY <2>1
    <3> QED BY <3>1
  <2>2. ASSUME NEW Y \in SUBSET U, x \notin Y PROVE Y \in SUBSET S BY <2>2
  <2>3. W \subseteq SUBSET U /\ SUBSET S \subseteq SUBSET U OBVIOUS
  <2> HIDE DEF W, U
  <2> QED BY <2>1, <2>2, <2>3
<1>9. (SUBSET S) \intersect W = {} BY <1>2
<1>10. Cardinality(SUBSET U) = Cardinality(SUBSET S) + Cardinality(W) - 0
  <2> HIDE DEF W, U
  <2> QED BY <1>4, <1>7, <1>8, <1>9, FS_Union, FS_EmptySet
<1>11. Cardinality(SUBSET S) \in Nat /\ Cardinality(SUBSET S) # 0
  <2>1. {} \in SUBSET S OBVIOUS
  <2> QED BY <1>4, <2>1, FS_EmptySet, FS_CardinalityType
<1> HIDE DEF U, W
<1> QED BY <1>4, <1>5, <1>6, <1>7, <1>10, <1>11

LEMMA Division ==
    ASSUME NEW x \in Nat, NEW m \in Nat \ {0}
    PROVE  x = m * (x \div m) + (x % m) /\ x \div m \in Nat /\ x % m \in 0 .. m - 1
OBVIOUS

LEMMA QuotientIs ==
    ASSUME NEW m \in Nat \ {0}, NEW q \in Nat, NEW r \in 0 .. m - 1, NEW x, x = m * q + r
    PROVE  x \div m = q
<1>1. x \in Nat OBVIOUS
<1>2. PICK p \in Nat, s \in 0 .. m - 1 : x \div m = p /\ x = m * p + s BY <1>1, Division
<1>3. m * (p - q) = r - s BY <1>2
<1>4. ~(p - q >= 1)
  <2> SUFFICES ASSUME p - q >= 1 PROVE FALSE OBVIOUS
  <2>1. m * (p - q) >= m OBVIOUS
  <2> QED BY <1>3, <2>1
<1>5. ~(q - p >= 1)
  <2> SUFFICES ASSUME q - p >= 1 PROVE FALSE OBVIOUS
  <2>1. m * (q - p) >= m OBVIOUS
  <2>2. m * (q - p) = s - r BY <1>2
  <2> QED BY <2>1, <2>2
<1> QED BY <1>2, <1>4, <1>5

LEMMA HalfThenPart ==
    ASSUME NEW x \in Nat, NEW m \in Nat \ {0}
    PROVE  x \div (2 * m) = (x \div 2) \div m
<1>1. PICK h \in Nat, b \in 0 .. 1 : x \div 2 = h /\ x = 2 * h + b OBVIOUS
<1>2. PICK q \in Nat, r \in 0 .. m - 1 : h \div m = q /\ h = m * q + r BY Division
<1>3. x = (2 * m) * q + (2 * r + b) BY <1>1, <1>2
<1>4. 2 * r + b \in 0 .. 2 * m - 1 OBVIOUS
<1>5. PICK k \in Nat \ {0} : k = 2 * m OBVIOUS
<1>6. x = k * q + (2 * r + b) /\ 2 * r + b \in 0 .. k - 1 BY <1>3, <1>4, <1>5
<1>7. x \div k = q BY <1>6, QuotientIs
<1> QED BY <1>1, <1>2, <1>5, <1>7

LEMMA PatternIsAWord ==
    ASSUME NEW n \in Nat, NEW b \in [Nat -> {0, 1}]
    PROVE  \E z \in 0 .. 2 ^ n - 1 : \A i \in 0 .. n - 1 : Bit(z, i) = b[i]
<1> DEFINE Found(m, c) == \E z \in 0 .. 2 ^ m - 1 : \A i \in 0 .. m - 1 : Bit(z, i) = c[i]
           P == {m \in Nat : \A c \in [Nat -> {0, 1}] : Found(m, c)}
<1>1. 0 \in P
  <2>1. 0 \in 0 .. 2 ^ 0 - 1 /\ \A i : i \notin 0 .. 0 - 1 BY PowerOfTwo
  <2> QED BY <2>1
<1>2. ASSUME NEW m \in Nat, m \in P PROVE m + 1 \in P
  <2> SUFFICES ASSUME NEW c \in [Nat -> {0, 1}] PROVE Found(m + 1, c) OBVIOUS
  <2> DEFINE d == [i \in Nat |-> c[i + 1]]
  <2>1. d \in [Nat -> {0, 1}] OBVIOUS
  <2>2. PICK w \in 0 .. 2 ^ m - 1 : \A i \in 0 .. m - 1 : Bit(w, i) = d[i]
    <3>1. Found(m, d) BY <1>2, <2>1
    <3> QED BY <3>1
  <2>3. PICK p \in Nat \ {0} : p = 2 ^ m /\ 2 ^ (m + 1) = 2 * p BY PowerOfTwo
  <2>4. PICK low \in {0, 1} : low = c[0] OBVIOUS
  <2>5. PICK z : z = 2 * w + low OBVIOUS
  <2>6. w \in Nat /\ w <= p - 1 BY <2>2, <2>3
  <2>7. z \in 0 .. 2 * p - 1 /\ z \in Nat /\ z % 2 = low /\ z \div 2 = w /\ z \div 1 = z
    BY <2>4, <2>5, <2>6
  <2>8. Bit(z, 0) = c[0]
    <3>1. 2 ^ 0 = 1 BY PowerOfTwo
    <3> QED BY <2>4, <2>7, <3>1 DEF Bit
  <2>9. ASSUME NEW i \in 0 .. m - 1 PROVE Bit(z, i + 1) = c[i + 1]
    <3>1. PICK k \in Nat \ {0} : k = 2 ^ i /\ 2 ^ (i + 1) = 2 * k BY PowerOfTwo
    <3>2. z \div (2 * k) = (z \div 2) \div k BY <2>7, HalfThenPart
    <3>3. Bit(z, i + 1) = (w \div k) % 2 BY <2>7, <3>1, <3>2 DEF Bit
    <3>4. Bit(w, i) = (w \div k) % 2 BY <3>1 DEF Bit
    <3>5. Bit(w, i) = d[i] /\ d[i] = c[i + 1] BY <2>2
    <3> QED BY <3>3, <3>4, <3>5
  <2>10. \A i \in 0 .. (m + 1) - 1 : i = 0 \/ (i - 1 \in 0 .. m - 1 /\ i = (i - 1) + 1) OBVIOUS
  <2>11. \A i \in 0 .. (m + 1) - 1 : Bit(z, i) = c[i] BY <2>8, <2>9, <2>10
  <2>12. z \in 0 .. 2 ^ (m + 1) - 1 BY <2>3, <2>7
  <2> QED BY <2>11, <2>12
<1> HIDE DEF P
<1>3. n \in P BY <1>1, <1>2, Induction
<1> QED BY <1>3 DEF P

LEMMA WrappedIs == ASSUME NEW x \in Int PROVE Wrap(x) \in Nat
<1>1. 2 ^ Width \in Nat \ {0} BY PowerOfTwo, WidthAssumption
<1> QED BY <1>1 DEF Wrap

LEMMA BitOrIs == ASSUME NEW x, NEW y PROVE BitOr(x, y) \in Nat
<1> DEFINE or == [i \in Nat |-> Truth(Bit(x, i) = 1 \/ Bit(y, i) = 1)]
<1>1. or \in [Nat -> {0, 1}] BY DEF Truth
<1>2. Width \in Nat BY WidthAssumption
<1>3. PICK z \in 0 .. 2 ^ Width - 1 : \A i \in 0 .. Width - 1 : Bit(z, i) = or[i]
  <2> HIDE DEF or
  <2> QED BY <1>1, <1>2, PatternIsAWord
<1>4. \A i \in 0 .. Width - 1 : Bit(z, i) = Truth(Bit(x, i) = 1 \/ Bit(y, i) = 1) BY <1>2, <1>3
<1>5. BitOr(x, y) \in Word BY <1>3, <1>4, Zenon DEF BitOr, Word
<1>6. 2 ^ Width \in Nat BY <1>2, PowerOfTwo
<1> QED BY <1>5, <1>6 DEF Word

(* What an operator leaves on the stack.                                      *)
LEMMA EmittedIs ==
    ASSUME NEW op \in BinaryOps, NEW x \in Nat, NEW y \in Nat, ~Traps(op, y)
    PROVE  Emitted(op, x, y) \in Nat
<1>1. Wrap(x + y) \in Nat /\ Wrap(x - y) \in Nat /\ Wrap(x * y) \in Nat BY WrappedIs
<1>2. op \in {"DIV", "MOD"} => x \div y \in Nat /\ x % y \in Nat
  <2>1. ASSUME y # 0 PROVE x \div y \in Nat /\ x % y \in Nat
    <3>1. y \in Nat \ {0} BY <2>1
    <3>2. x \div y \in Nat /\ x % y \in 0 .. y - 1 BY <3>1, Division
    <3> QED BY <3>2
  <2> QED BY <2>1 DEF Traps
<1>3. BitOr(x, y) \in Nat BY BitOrIs
<1>4. \A t : Truth(t) \in Nat BY DEF Truth
<1> QED BY <1>1, <1>2, <1>3, <1>4 DEF Emitted, BinaryOps, ArithOps, OrderOps

LEMMA BitNotIs == ASSUME NEW x \in Int PROVE BitNot(Wrap(x)) \in Nat
<1>1. PICK p \in Nat \ {0} : p = 2 ^ Width BY PowerOfTwo, WidthAssumption
<1>2. x % p \in 0 .. p - 1 OBVIOUS
<1> QED BY <1>1, <1>2 DEF BitNot, Wrap

-----------------------------------------------------------------------------
(* Types.  Each instruction is what the processor can take: its operands are  *)
(* of their sorts, whatever quirks a program uses.  names are its variables.  *)
IsInstruction(ins, names) ==
    /\ ins.op \in {"push", "loadvar", "loadarg"} => ins.kind \in Kinds \ {"poisoned"}
    /\ ins.op = "push" => ins.value \in Nat
    /\ ins.op \in {"loadvar", "store"} => ins.name \in names
    /\ ins.op = "binary" => ins.f \in BinaryOps
    /\ ins.op \in {"loadarg", "leave", "ret"} => ins.nargs \in Nat
    /\ ins.op = "loadarg" => ins.arg \in 1 .. ins.nargs /\ ins.slot \in Nat
    /\ ins.op = "syscall" => ins.pops \in Nat
    /\ ins.op \in {"call", "ffi"} => ins.args \in Seq(Kinds)
    /\ ins.op \in {"call", "ffi", "leave", "ret"} => ins.rets \in Seq(Kinds)
    /\ ins.op = "ffi" => Len(ins.rets) <= 1
    /\ ins.op = "ret" => (ins.main => ins.rets # <<>>)
IsView(v, names) == v.types \in Seq(Kinds) /\ v.marks \in Seq(Nat) /\ IsInstruction(v.ins, names)
AreViews(s, names) == IsSeq(s) /\ \A j \in 1 .. Len(s) : IsView(s[j], names)
Variables == DOMAIN prog.vars
TypedCode == AreViews(code, Variables)

LEMMA ViewIsWellFormed ==
    ASSUME NEW i \in DOMAIN code, NEW names, IsView(code[i], names) PROVE WellFormed(i)
BY DEF IsView, IsInstruction, WellFormed

LEMMA FewViews ==
    ASSUME NEW names, NEW u, IsView(u, names)
    PROVE  /\ AreViews(<<>>, names) /\ AreViews(<<u>>, names)
           /\ \A v : IsView(v, names) => AreViews(<<u, v>>, names)
<1>1. IsSeq(<<>>) /\ Len(<<>>) = 0 /\ \A j : j \notin 1 .. Len(<<>>) BY EmptySequence
<1>2. AreViews(<<>>, names) BY <1>1 DEF AreViews
<1>3. AreViews(<<u>>, names)
  <2>1. IsSeq(<<u>>) /\ Len(<<u>>) = 1 /\ <<u>>[1] = u BY SmallSeqs
  <2>2. \A j \in 1 .. 1 : j = 1 OBVIOUS
  <2> QED BY <2>1, <2>2 DEF AreViews
<1>4. ASSUME NEW v, IsView(v, names) PROVE AreViews(<<u, v>>, names)
  <2>1. IsSeq(<<u, v>>) /\ Len(<<u, v>>) = 2 /\ <<u, v>>[1] = u /\ <<u, v>>[2] = v BY SmallSeqs
  <2>2. \A j \in 1 .. 2 : j = 1 \/ j = 2 OBVIOUS
  <2> QED BY <1>4, <2>1, <2>2 DEF AreViews
<1> QED BY <1>2, <1>3, <1>4

LEMMA NoViews == ASSUME NEW names PROVE AreViews(<<>>, names)
BY EmptySequence DEF AreViews

LEMMA ViewsConcat ==
    ASSUME NEW names, NEW s, AreViews(s, names), NEW t, AreViews(t, names)
    PROVE  AreViews(s \o t, names)
<1> DEFINE u == s \o t
           a == Len(s)
           b == Len(t)
<1>1. /\ IsSeq(u) /\ Len(u) = a + b /\ \A i \in 1 .. a : u[i] = s[i]
      /\ \A i \in 1 .. b : u[a + i] = t[i]
  BY ConcatSeq DEF AreViews
<1>2. a \in Nat /\ b \in Nat BY IsSeqProperties DEF AreViews
<1>3. /\ \A i \in 1 .. a : IsView(s[i], names)
      /\ \A i \in 1 .. b : IsView(t[i], names)
  BY DEF AreViews
<1> HIDE DEF u, a, b
<1>4. ASSUME NEW i \in 1 .. Len(u) PROVE IsView(u[i], names)
  <2>1. i \in 1 .. a \/ (i - a \in 1 .. b /\ i = a + (i - a)) BY <1>1, <1>2
  <2> QED BY <1>1, <1>3, <2>1
<1> QED BY <1>1, <1>4 DEF AreViews, u

LEMMA CodeStaysTyped ==
    ASSUME TypedCode, prog' = prog, code' = code PROVE TypedCode'
BY DEF TypedCode, AreViews, IsView, IsInstruction, Variables

LEMMA TypedEmit ==
    ASSUME TypedCode, prog' = prog, NEW s, AreViews(s, Variables), Emit(s) PROVE TypedCode'
<1>1. PICK names, c : names = Variables /\ c = code \o s OBVIOUS
<1>2. AreViews(c, names) BY <1>1, ViewsConcat DEF TypedCode
<1>3. code' = c /\ Variables' = names BY <1>1 DEF Emit, Variables
<1> QED BY <1>2, <1>3 DEF TypedCode

LEMMA TypedStops ==
    ASSUME TypedCode, NEW how, Stop(how) \/ Reject \/ Crash PROVE TypedCode'
<1>1. prog' = prog /\ code' = code BY DEF Stop, Reject, Crash
<1> QED BY <1>1, CodeStaysTyped

LEMMA ViewHere ==
    ASSUME CompilerShape, work # <<>>, NEW ts \in Seq(Kinds), NEW names, NEW ins, IsInstruction(ins, names)
    PROVE  IsView(At(ins, ts), names)
<1>1. Activations BY ShapeFacts
<1>2. Current.under \in Seq(Kinds) /\ Current.marks \in Seq(Nat) BY <1>1, BlocksAre DEF IsActivation
<1>3. Current.under \o ts \in Seq(Kinds) BY <1>2, ConcatProperties
<1> QED BY <1>2, <1>3 DEF IsView, At, View

LEMMA TypedContinues ==
    ASSUME TypedCode, NEW s, AreViews(s, Variables), NEW ts, Continue(s, ts) PROVE TypedCode'
<1>1. Stop(Overflow(Types, ts)) \/ (Emit(s) /\ prog' = prog) BY DEF Continue
<1> QED BY <1>1, TypedStops, TypedEmit

LEMMA TypedOne ==
    ASSUME CompilerShape, TypedCode, NEW kinds, Compiling(kinds), NEW ins, IsInstruction(ins, Variables),
           NEW ts, Continue(<<At(ins, Types)>>, ts)
    PROVE  TypedCode'
<1>1. work # <<>> /\ Types \in Seq(Kinds) BY Statement
<1>2. PICK v : v = At(ins, Types) OBVIOUS
<1>3. IsView(v, Variables) BY <1>1, <1>2, ViewHere
<1>4. AreViews(<<v>>, Variables) BY <1>3, FewViews
<1>5. Continue(<<v>>, ts) BY <1>2
<1> QED BY <1>4, <1>5, TypedContinues

LEMMA TypedRequires ==
    ASSUME CompilerShape, TypedCode, NEW kinds, Compiling(kinds), NEW checked,
           NEW ins, checked => IsInstruction(ins, Variables), NEW ts, Require(checked, ins, ts)
    PROVE  TypedCode'
BY TypedOne, TypedStops DEF Require

-----------------------------------------------------------------------------
(* The statements.                                                            *)
LEMMA TypedArgument ==
    ASSUME CompilerShape, TypedCode, NEW kinds, Compiling(kinds), NEW name, compile_argument_push(name)
    PROVE  TypedCode'
<1>1. CASE Arguments(name) = {} BY <1>1, TypedStops DEF compile_argument_push
<1>2. CASE Arguments(name) # {}
  <2> DEFINE i == CHOOSE j \in Arguments(name) : \A k \in Arguments(name) : j <= k
             load == [op |-> "loadarg", slot |-> stack_idx(i), arg |-> i, kind |-> Stmt.args[i].kind,
                      nargs |-> Len(Stmt.args)]
  <2>1. PICK read \in ArgReads :
           IF read = "fault" THEN Crash
           ELSE Continue(<<At(load, Types)>>,
                         Append(Types, IF read = "declared" THEN Stmt.args[i].kind ELSE "poisoned"))
    BY <1>2 DEF compile_argument_push
  <2>2. i \in 1 .. Len(Stmt.args) /\ Stmt.args[i].kind \in Declarable BY <1>2, FirstArgument
  <2>3. Len(Stmt.args) \in Nat
    <3>1. Activations /\ Contexts /\ IsProgram(prog) /\ work # <<>> BY ShapeFacts, Statement
    <3>2. DeclaredAs(Ctx.stmt, {"FUNC", "PROC", "EXTERN"}) BY <3>1, StmtIsDeclared DEF DeclaredAs
    <3> QED BY <3>1, <3>2, SignatureOf DEF Stmt
  <2>4. Len(Types) \in Nat BY Statement
  <2> HIDE DEF i
  <2>5. stack_idx(i) \in Nat BY <2>2, <2>3, <2>4 DEF stack_idx
  <2>6. IsInstruction(load, Variables) BY <2>2, <2>3, <2>5 DEF IsInstruction, Declarable
  <2> HIDE DEF load
  <2> QED BY <2>1, <2>6, TypedOne, TypedStops
<1> QED BY <1>1, <1>2

LEMMA DataValues ==
    ASSUME CompilerShape
    PROVE  /\ \A x \in DOMAIN prog.consts : Wrap(prog.consts[x].value) \in Nat
           /\ \A x \in DOMAIN prog.vars : Wrap(prog.vars[x].value) \in Nat
<1>1. /\ \A x \in DOMAIN prog.consts : prog.consts[x].value \in Int
      /\ \A x \in DOMAIN prog.vars : prog.vars[x].value \in Int
  BY ShapeFacts DEF IsProgram
<1> QED BY <1>1, WrappedIs

LEMMA TypedPush == ASSUME CompilerShape, TypedCode, CompilePush PROVE TypedCode'
<1> DEFINE ins == PushOf(Node.of, Operand(Node))
<1>1. Compiling({"PUSH"}) /\ Continue(<<At(ins, Types)>>, Append(Types, Node.of)) BY DEF CompilePush
<1>2. Node.of \in Declarable /\ Operand(Node) \in Nat
  <2>1. Node.of \in Declarable /\ Node.value \in Nat BY <1>1, Statement DEF IsAst
  <2>2. Wrap(DATA + Node.value) \in Nat BY <2>1, DataAssumption, WrappedIs
  <2> QED BY <2>1, <2>2 DEF Operand
<1>3. IsInstruction(ins, Variables) BY <1>2 DEF IsInstruction, PushOf, Declarable
<1> HIDE DEF ins
<1> QED BY <1>1, <1>3, TypedOne

LEMMA TypedVariable ==
    ASSUME CompilerShape, TypedCode, NEW kinds, Compiling(kinds), NEW name \in DOMAIN prog.vars,
           NEW ts, Continue(<<At(LoadVar(name), Types)>>, ts)
    PROVE  TypedCode'
<1>1. prog.vars[name].kind \in Kinds \ {"poisoned"} BY DataKinds
<1>2. IsInstruction(LoadVar(name), Variables) BY <1>1 DEF IsInstruction, LoadVar, Variables
<1> QED BY <1>2, TypedOne

LEMMA TypedLiteral == ASSUME CompilerShape, TypedCode, CompileLiteral PROVE TypedCode'
<1> DEFINE name == Node.name
           value == Find(values_map, name)
           c == prog.consts[name]
<1>1. Compiling({"LITERAL"}) BY DEF CompileLiteral
<1>2. CASE name \in DOMAIN prog.consts
  <2> DEFINE ins == PushOf(c.kind, Wrap(c.value))
  <2>1. Continue(<<At(ins, Types)>>, Append(Types, c.kind)) BY <1>2 DEF CompileLiteral
  <2>2. c.kind \in Kinds \ {"poisoned"} /\ Wrap(c.value) \in Nat BY <1>2, DataKinds, DataValues
  <2>3. IsInstruction(ins, Variables) BY <2>2 DEF IsInstruction, PushOf
  <2> HIDE DEF ins
  <2> QED BY <1>1, <2>1, <2>3, TypedOne
<1>3. CASE name \notin DOMAIN prog.consts /\ name \in DOMAIN prog.vars
  <2>1. Continue(<<At(LoadVar(name), Types)>>, Append(Types, "poisoned")) BY <1>3 DEF CompileLiteral
  <2> QED BY <1>1, <1>3, <2>1, TypedVariable
<1>4. CASE name \notin DOMAIN prog.consts /\ name \notin DOMAIN prog.vars /\ value # NULL
  <2> DEFINE ins == PushOf("funcptr", value)
  <2>1. Crash \/ Continue(<<At(ins, Types)>>, Append(Types, "funcptr")) BY <1>4 DEF CompileLiteral
  <2>2. value \in Nat
    <3>1. IsMap(values_map, {"FUNC", "PROC", "EXTERN"}) BY ShapeFacts DEF Maps
    <3>2. DeclaredAs(value, {"FUNC", "PROC", "EXTERN"}) BY <1>4, <3>1, FindIsDeclared
    <3> QED BY <3>2 DEF DeclaredAs
  <2>3. IsInstruction(ins, Variables) BY <2>2 DEF IsInstruction, PushOf, Kinds
  <2> HIDE DEF ins
  <2> QED BY <1>1, <2>1, <2>3, TypedOne, TypedStops
<1>5. CASE name \notin DOMAIN prog.consts /\ name \notin DOMAIN prog.vars /\ value = NULL
  <2>1. compile_argument_push(name) BY <1>5 DEF CompileLiteral
  <2> QED BY <1>1, <2>1, TypedArgument
<1> QED BY <1>2, <1>3, <1>4, <1>5

LEMMA TypedArith == ASSUME CompilerShape, TypedCode, CompileArith \/ CompileEqual PROVE TypedCode'
<1>1. PICK kinds, f, checked, ts :
         /\ Compiling(kinds) /\ Require(checked, [op |-> "binary", f |-> f], ts)
         /\ f \in BinaryOps
  <2>1. CASE CompileArith
    <3>1. PICK k : k = {"BOR", "MINUS", "DIV", "MOD", "MUL"} \union OrderOps OBVIOUS
    <3>2. Compiling(k) /\ Require(TwoIntegers, [op |-> "binary", f |-> Node.kind], Append(Drop(Types, 2), "int"))
      BY <2>1, <3>1 DEF CompileArith
    <3>3. Node.kind \in BinaryOps BY <3>1, <3>2, Statement DEF BinaryOps, ArithOps
    <3> QED BY <3>2, <3>3
  <2>2. CASE CompileEqual
    <3>1. "EQUAL" \in BinaryOps BY DEF BinaryOps
    <3> QED BY <2>2, <3>1 DEF CompileEqual
  <2> QED BY <2>1, <2>2
<1> DEFINE ins == [op |-> "binary", f |-> f]
<1>2. IsInstruction(ins, Variables) BY <1>1 DEF IsInstruction
<1>3. Require(checked, ins, ts) BY <1>1
<1> HIDE DEF ins
<1> QED BY <1>1, <1>2, <1>3, TypedRequires

LEMMA TypedPlus == ASSUME CompilerShape, TypedCode, CompilePlus PROVE TypedCode'
<1>1. Compiling({"PLUS"}) BY DEF CompilePlus
<1>2. \/ Reject \/ Crash
      \/ Continue(<<At([op |-> "binary", f |-> "PLUS"], Types)>>, Popped)
      \/ Continue(<<At([op |-> "index"], Types)>>, Append(Drop(Types, 2), "byte"))
  BY DEF CompilePlus
<1>3. /\ IsInstruction([op |-> "binary", f |-> "PLUS"], Variables)
      /\ IsInstruction([op |-> "index"], Variables)
  BY DEF IsInstruction, BinaryOps, ArithOps
<1> QED BY <1>1, <1>2, <1>3, TypedOne, TypedStops

LEMMA TypedUnary ==
    ASSUME CompilerShape, TypedCode, CompileBnot \/ CompileDrop \/ CompileDup \/ CompileDot
    PROVE  TypedCode'
<1>1. PICK kinds, ins, ts :
         /\ Compiling(kinds) /\ ins.op \in {"not", "drop", "dup", "dot"}
         /\ Reject \/ Crash \/ Continue(<<At(ins, Types)>>, ts)
  <2>1. CASE CompileBnot
    <3>1. Reject \/ Continue(<<At([op |-> "not"], Types)>>, Types) BY <2>1 DEF CompileBnot, Require
    <3>2. PICK i : i = [op |-> "not"] OBVIOUS
    <3>3. i.op = "not" BY <3>2
    <3>4. Reject \/ Continue(<<At(i, Types)>>, Types) BY <3>1, <3>2
    <3> QED BY <2>1, <3>3, <3>4 DEF CompileBnot
  <2>2. CASE CompileDrop
    <3>1. Reject \/ Continue(<<At([op |-> "drop"], Types)>>, Popped) BY <2>2 DEF CompileDrop, Require
    <3>2. PICK i : i = [op |-> "drop"] OBVIOUS
    <3>3. i.op = "drop" BY <3>2
    <3>4. Reject \/ Continue(<<At(i, Types)>>, Popped) BY <3>1, <3>2
    <3> QED BY <2>2, <3>3, <3>4 DEF CompileDrop
  <2>3. CASE CompileDup
    <3>1. Reject \/ Continue(<<At([op |-> "dup"], Types)>>, Append(Types, Top(Types))) BY <2>3 DEF CompileDup
    <3>2. PICK i : i = [op |-> "dup"] OBVIOUS
    <3>3. i.op = "dup" BY <3>2
    <3>4. Reject \/ Continue(<<At(i, Types)>>, Append(Types, Top(Types))) BY <3>1, <3>2
    <3> QED BY <2>3, <3>3, <3>4 DEF CompileDup
  <2>4. CASE CompileDot
    <3>1. Reject \/ Crash \/ Continue(<<At([op |-> "dot", kind |-> Top(Types)], Types)>>, Types)
      BY <2>4 DEF CompileDot
    <3>2. PICK i : i = [op |-> "dot", kind |-> Top(Types)] OBVIOUS
    <3>3. i.op = "dot" BY <3>2
    <3>4. Reject \/ Crash \/ Continue(<<At(i, Types)>>, Types) BY <3>1, <3>2
    <3> QED BY <2>4, <3>3, <3>4 DEF CompileDot
  <2> QED BY <2>1, <2>2, <2>3, <2>4
<1>2. IsInstruction(ins, Variables) BY <1>1 DEF IsInstruction
<1> QED BY <1>1, <1>2, TypedOne, TypedStops

LEMMA TypedWrite == ASSUME CompilerShape, TypedCode, CompileWrite PROVE TypedCode'
<1> DEFINE ins == [op |-> "store", name |-> Node.name]
<1>1. Compiling({"WRITE"}) BY DEF CompileWrite
<1>2. Reject \/ (Node.name \in DOMAIN prog.vars /\ Continue(<<At(ins, Types)>>, Popped)) BY DEF CompileWrite
<1>3. Node.name \in DOMAIN prog.vars => IsInstruction(ins, Variables) BY DEF IsInstruction, Variables
<1> HIDE DEF ins
<1> QED BY <1>1, <1>2, <1>3, TypedOne, TypedStops

LEMMA TypedNothing == ASSUME CompilerShape, TypedCode, CompileNothing PROVE TypedCode'
<1>1. Crash \/ Continue(<<>>, Types) BY DEF CompileNothing
<1> QED BY <1>1, NoViews, TypedContinues, TypedStops

LEMMA TypedWritten ==
    ASSUME CompilerShape, TypedCode, work # <<>>, prog' = prog, NEW ts \in Seq(Kinds),
           NEW ins, IsInstruction(ins, Variables), Emit(<<At(ins, ts)>>)
    PROVE  TypedCode'
<1>1. PICK v : v = At(ins, ts) OBVIOUS
<1>2. IsView(v, Variables) BY <1>1, ViewHere
<1>3. AreViews(<<v>>, Variables) BY <1>2, FewViews
<1>4. Emit(<<v>>) BY <1>1
<1> QED BY <1>3, <1>4, TypedEmit

LEMMA TypedSyscall == ASSUME CompilerShape, TypedCode, CompileSyscall PROVE TypedCode'
<1> DEFINE ins == [op |-> "syscall", pops |-> Node.args + 1]
<1>1. Compiling({"SYSCALL"}) BY DEF CompileSyscall
<1>2. Reject \/ (prog' = prog /\ Emit(<<At(ins, Types)>>)) BY DEF CompileSyscall
<1>3. work # <<>> /\ Types \in Seq(Kinds) /\ Node.args \in Nat BY <1>1, Statement DEF IsAst
<1>4. IsInstruction(ins, Variables) BY <1>3 DEF IsInstruction
<1> HIDE DEF ins
<1> QED BY <1>2, <1>3, <1>4, TypedWritten, TypedStops

-----------------------------------------------------------------------------
(* Calls and routines.                                                        *)
LEMMA RetsOf ==
    ASSUME CompilerShape, NEW id, DeclaredAs(id, {"FUNC", "PROC", "EXTERN"})
    PROVE  /\ Len(astid(id).args) \in Nat /\ ArgKinds(astid(id).args) \in Seq(Kinds)
           /\ Reversed(astid(id).rets) \in Seq(Kinds) /\ astid(id).rets \in Seq(Kinds)
           /\ (astid(id).kind = "EXTERN" /\ astid(id).proto = "EXTERN_FUNC") =>
                  <<astid(id).rets[1]>> \in Seq(Kinds) /\ Len(<<astid(id).rets[1]>>) = 1
<1>1. IsProgram(prog) BY ShapeFacts
<1>2. /\ Len(astid(id).args) \in Nat /\ ArgKinds(astid(id).args) \in Seq(Kinds)
      /\ Reversed(astid(id).rets) \in Seq(Kinds) /\ astid(id).rets \in Seq(Kinds)
  BY <1>1, SignatureOf
<1>3. ASSUME astid(id).kind = "EXTERN", astid(id).proto = "EXTERN_FUNC"
      PROVE  <<astid(id).rets[1]>> \in Seq(Kinds) /\ Len(<<astid(id).rets[1]>>) = 1
  <2>1. asts_len \in Nat /\ \A i \in 0 .. asts_len : IsAst(astid(i), -1 .. asts_len) BY <1>1, AstOf
  <2>2. id \in 0 .. asts_len BY <2>1 DEF DeclaredAs
  <2>3. astid(id).rets # <<>> BY <1>3, <2>1, <2>2 DEF IsAst
  <2>4. PICK r : r = astid(id).rets OBVIOUS
  <2>5. r \in Seq(Kinds) /\ r # <<>> BY <1>2, <2>3, <2>4
  <2>6. r[1] \in Kinds BY <2>5
  <2>7. <<r[1]>> \in Seq(Kinds) /\ Len(<<r[1]>>) = 1 BY <2>6
  <2> QED BY <2>4, <2>7
<1> QED BY <1>2, <1>3

LEMMA TypedInline ==
    ASSUME CompilerShape, TypedCode, work # <<>>, NEW id, DeclaredAs(id, {"FUNC", "PROC"}),
           NEW ts \in Seq(Kinds), compile_inline(id, ts)
    PROVE  TypedCode'
<1>1. Crash \/ (prog' = prog /\ Emit(<<View([op |-> "enter"], Current.of, UnderBody(id, ts), Current.marks)>>))
  BY DEF compile_inline, UnderBody
<1>2. PICK v : v = View([op |-> "enter"], Current.of, UnderBody(id, ts), Current.marks) OBVIOUS
<1>3. Activations /\ IsProgram(prog) BY ShapeFacts
<1>4. UnderBody(id, ts) \in Seq(Kinds) BY <1>3, InlinedUnder
<1>5. Current.marks \in Seq(Nat) BY <1>3, BlocksAre DEF IsActivation
<1>6. IsInstruction([op |-> "enter"], Variables) BY DEF IsInstruction
<1>7. IsView(v, Variables) BY <1>2, <1>4, <1>5, <1>6 DEF IsView, View
<1>8. AreViews(<<v>>, Variables) BY <1>7, FewViews
<1>9. Crash \/ (prog' = prog /\ Emit(<<v>>)) BY <1>1, <1>2
<1> QED BY <1>8, <1>9, TypedEmit, TypedStops

LEMMA CallIsTyped ==
    ASSUME CompilerShape, NEW id, DeclaredAs(id, {"FUNC", "PROC", "EXTERN"}), NEW names
    PROVE  /\ IsInstruction(CallOf(astid(id)), names)
           /\ astid(id).kind = "EXTERN" =>
                  IsInstruction([op |-> "ffi", args |-> ArgKinds(astid(id).args),
                                 rets |-> IF astid(id).proto = "EXTERN_FUNC" THEN <<astid(id).rets[1]>> ELSE <<>>],
                                names)
<1>1. IsInstruction(CallOf(astid(id)), names) BY RetsOf DEF IsInstruction, CallOf
<1>2. ASSUME astid(id).kind = "EXTERN"
      PROVE  IsInstruction([op |-> "ffi", args |-> ArgKinds(astid(id).args),
                            rets |-> IF astid(id).proto = "EXTERN_FUNC" THEN <<astid(id).rets[1]>> ELSE <<>>],
                           names)
  <2>1. PICK args, rets :
           /\ args = ArgKinds(astid(id).args)
           /\ rets = (IF astid(id).proto = "EXTERN_FUNC" THEN <<astid(id).rets[1]>> ELSE <<>>)
    OBVIOUS
  <2>2. args \in Seq(Kinds) BY <2>1, RetsOf
  <2>3. rets \in Seq(Kinds) /\ Len(rets) <= 1
    <3>1. CASE astid(id).proto = "EXTERN_FUNC" BY <1>2, <2>1, <3>1, RetsOf
    <3>2. CASE astid(id).proto # "EXTERN_FUNC"
      <4>1. rets = <<>> BY <2>1, <3>2
      <4> QED BY <4>1
    <3> QED BY <3>1, <3>2
  <2>4. IsInstruction([op |-> "ffi", args |-> args, rets |-> rets], names) BY <2>2, <2>3 DEF IsInstruction
  <2> QED BY <2>1, <2>4
<1> QED BY <1>1, <1>2

LEMMA TypedFunctionCall ==
    ASSUME CompilerShape, TypedCode, Compiling({"CALL"}), NEW id,
           DeclaredAs(id, {"FUNC", "PROC", "EXTERN"}), compile_function_call(id)
    PROVE  TypedCode'
<1> DEFINE d == astid(id)
           nargs == Len(d.args)
           ts == Drop(Types, nargs)
           ffi == [op |-> "ffi", args |-> ArgKinds(d.args),
                   rets |-> IF d.proto = "EXTERN_FUNC" THEN <<d.rets[1]>> ELSE <<>>]
           call == IF d.kind = "EXTERN" THEN ffi ELSE CallOf(d)
<1>1. \/ Reject \/ Stop("corrupt") \/ \E how : Stop(how)
      \/ nargs <= Len(Types) /\ d.kind # "EXTERN" /\ compile_inline(id, ts)
      \/ prog' = prog /\ Emit(<<At(call, Types)>>)
  <2>1. CASE Len(Types) < nargs \/ \E i \in 1 .. nargs : TopN(Types, nargs)[i] # d.args[i].kind
    BY <2>1 DEF compile_function_call
  <2>2. CASE ~(Len(Types) < nargs \/ \E i \in 1 .. nargs : TopN(Types, nargs)[i] # d.args[i].kind)
    <3>1. nargs <= Len(Types)
      <4>1. Len(Types) \in Nat /\ nargs \in Nat BY Statement, RetsOf
      <4> HIDE DEF nargs
      <4> QED BY <2>2, <4>1
    <3> QED BY <2>2, <3>1 DEF compile_function_call
  <2> QED BY <2>1, <2>2
<1>2. work # <<>> /\ Types \in Seq(Kinds) /\ Len(Types) \in Nat BY Statement
<1>3. CASE nargs <= Len(Types) /\ d.kind # "EXTERN" /\ compile_inline(id, ts)
  <2>1. DeclaredAs(id, {"FUNC", "PROC"}) BY <1>3 DEF DeclaredAs
  <2>2. nargs \in Nat BY RetsOf
  <2> HIDE DEF nargs
  <2>3. ts \in Seq(Kinds) BY <1>2, <1>3, <2>2, DropProperties
  <2> HIDE DEF ts
  <2> QED BY <1>2, <1>3, <2>1, <2>3, TypedInline
<1>4. CASE prog' = prog /\ Emit(<<At(call, Types)>>)
  <2>1. IsInstruction(call, Variables) BY CallIsTyped
  <2> HIDE DEF call
  <2> QED BY <1>2, <1>4, <2>1, TypedWritten
<1> QED BY <1>1, <1>3, <1>4, TypedStops

LEMMA TypedCall == ASSUME CompilerShape, TypedCode, CompileCall PROVE TypedCode'
<1> DEFINE name == Node.name
<1>1. Compiling({"CALL"}) BY DEF CompileCall
<1>2. IsMap(values_map, {"FUNC", "PROC", "EXTERN"}) /\ IsMap(externs_map, {"EXTERN"})
  BY ShapeFacts DEF Maps
<1>3. CASE Find(values_map, name) # NULL
  <2>1. compile_function_call(Find(values_map, name)) BY <1>3 DEF CompileCall
  <2>2. DeclaredAs(Find(values_map, name), {"FUNC", "PROC", "EXTERN"}) BY <1>2, <1>3, FindIsDeclared
  <2> QED BY <1>1, <2>1, <2>2, TypedFunctionCall
<1>4. CASE Find(values_map, name) = NULL /\ Find(externs_map, name) # NULL
  <2>1. compile_function_call(Find(externs_map, name)) BY <1>4 DEF CompileCall
  <2>2. DeclaredAs(Find(externs_map, name), {"EXTERN"}) BY <1>2, <1>4, FindIsDeclared
  <2>3. DeclaredAs(Find(externs_map, name), {"FUNC", "PROC", "EXTERN"}) BY <2>2 DEF DeclaredAs
  <2> QED BY <1>1, <2>1, <2>3, TypedFunctionCall
<1>5. CASE Find(values_map, name) = NULL /\ Find(externs_map, name) = NULL /\ name \in DOMAIN prog.vars
  <2>1. Continue(<<At(LoadVar(name), Types)>>, Append(Types, prog.vars[name].kind)) BY <1>5 DEF CompileCall
  <2> QED BY <1>1, <1>5, <2>1, TypedVariable
<1>6. CASE Find(values_map, name) = NULL /\ Find(externs_map, name) = NULL /\ name \notin DOMAIN prog.vars
  <2>1. compile_argument_push(name) BY <1>6 DEF CompileCall
  <2> QED BY <1>1, <2>1, TypedArgument
<1> QED BY <1>3, <1>4, <1>5, <1>6

LEMMA BlockIsDeclared ==
    ASSUME CompilerShape, work # <<>>
    PROVE  DeclaredAs(Current.node, {"FUNC", "PROC"}) /\ DeclaredAs(Current.node, {"FUNC", "PROC", "EXTERN"})
<1>1. DeclaredAs(Current.node, {"FUNC", "PROC"}) BY ShapeFacts, BlocksAre DEF IsActivation
<1> QED BY <1>1 DEF DeclaredAs

LEMMA TypedEndInline == ASSUME CompilerShape, TypedCode, EndInline PROVE TypedCode'
<1>1. Returning("inline") BY SMTT(30) DEF EndInline
<1> DEFINE d == astid(Current.node)
           isProc == d.kind = "PROC"
           proc == IF isProc THEN Current.saved ELSE proc_ctx
           func == IF isProc THEN func_ctx ELSE Current.saved
           before == IF proc.stmt # NULL THEN proc.types ELSE func.types
           new == before \o Reversed(d.rets)
           ins == [op |-> "leave", nargs |-> Len(d.args), rets |-> Reversed(d.rets)]
<1>2. IF Overflow(before, new) # "none" THEN Stop(Overflow(before, new))
      ELSE /\ Emit(<<At(ins, Types)>>)
           /\ proc_ctx' = (IF proc.stmt # NULL THEN WithTypes(proc, new) ELSE proc)
           /\ func_ctx' = (IF proc.stmt # NULL THEN func ELSE WithTypes(func, new))
           /\ values_map' = Put(values_map, d.name, Current.node)
           /\ work' = Advanced(Drop(work, 1))
           /\ quirks' = quirks \union {q \in {"inline_rets"} : ~Returns(Types, d.rets)}
           /\ UNCHANGED <<prog, phase, cursor, externs_map, labels>>
  BY DEF EndInline, WithTypes
<1>3. work # <<>> /\ Types \in Seq(Kinds) BY <1>1, Return
<1>4. DeclaredAs(Current.node, {"FUNC", "PROC", "EXTERN"}) BY <1>3, BlockIsDeclared
<1>5. Len(d.args) \in Nat /\ Reversed(d.rets) \in Seq(Kinds) BY <1>4, RetsOf
<1> HIDE DEF d
<1>6. IsInstruction(ins, Variables) BY <1>5 DEF IsInstruction
<1> HIDE DEF ins, isProc, proc, func, before, new
<1>7. (\E how : Stop(how)) \/ (prog' = prog /\ Emit(<<At(ins, Types)>>)) BY <1>2
<1> QED BY <1>3, <1>6, <1>7, TypedWritten, TypedStops

LEMMA TypedPrologue ==
    ASSUME CompilerShape, TypedCode, prog' = prog, NEW id, Emit(Prologue(id)) PROVE TypedCode'
<1> DEFINE name == astid(id).name
           u == View([op |-> "entry", name |-> name], name, <<>>, <<>>)
           v == View([op |-> "enter"], name, <<>>, <<>>)
<1>1. <<>> \in Seq(Kinds) /\ <<>> \in Seq(Nat) OBVIOUS
<1>2. IsView(u, Variables) /\ IsView(v, Variables) BY <1>1 DEF IsView, IsInstruction, View
<1>3. Prologue(id) = <<u, v>> BY DEF Prologue
<1> HIDE DEF u, v
<1>4. AreViews(Prologue(id), Variables) BY <1>2, <1>3, FewViews
<1> QED BY <1>4, TypedEmit

LEMMA TypedOpening == ASSUME CompilerShape, TypedCode, CompileMain \/ CompileRoutine PROVE TypedCode'
<1>1. prog' = prog /\ (code' = code \/ \E id : Emit(Prologue(id)))
  BY DEF CompileMain, CompileRoutine, compile_routine
<1> QED BY <1>1, CodeStaysTyped, TypedPrologue

LEMMA TypedFilling == ASSUME CompilerShape, TypedCode, FillMaps \/ CompileDone PROVE TypedCode'
<1>1. prog' = prog /\ code' = code BY DEF FillMaps, CompileDone, Reject, Stop
<1> QED BY <1>1, CodeStaysTyped

(* Once the maps are filled, main is the function that was looked for.        *)
MainFound == phase \in {"main", "routines", "done"} => Find(values_map, MAIN_FUNCTION) = prog.main

LEMMA MainReturns ==
    ASSUME CompilerShape, MainFound, Returning("routine"), astid(Current.node).name = MAIN_FUNCTION
    PROVE  Current.node = prog.main /\ Reversed(astid(Current.node).rets) # <<>>
<1>1. /\ phase \in {"main", "routines"} /\ work # <<>> /\ Len(work) = 1 /\ Current = work[1]
      /\ Activations /\ IsProgram(prog) /\ Maps
  BY Return, ShapeFacts
<1>2. Find(values_map, Current.of) = Current.node BY <1>1, BlocksAre DEF IsActivation
<1>3. Current.node # NULL BY <1>1, OutermostIs
<1>4. astid(Current.node).name = Current.of BY <1>1, <1>2, <1>3, FindIsDeclared DEF Maps
<1>5. Current.node = prog.main BY <1>1, <1>2, <1>4 DEF MainFound
<1>6. astid(prog.main).rets # <<>> /\ DeclaredAs(prog.main, {"FUNC", "PROC", "EXTERN"})
  <2>1. astid(prog.main).rets # <<>> BY DEF CompilerShape, Progress, check_for_main_function, astid
  <2> QED BY <1>1, <1>5, <2>1, BlockIsDeclared
<1>7. PICK r : r = astid(prog.main).rets OBVIOUS
<1>8. r \in Seq(Kinds) /\ r # <<>> BY <1>6, <1>7, RetsOf
<1>9. Len(Reversed(r)) = Len(r) /\ Len(r) # 0 BY <1>8, ReversedKinds
<1>10. Reversed(r) # <<>> BY <1>9
<1> QED BY <1>5, <1>7, <1>10

LEMMA TypedStart ==
    ASSUME CompilerShape, NEW id, DeclaredAs(id, {"FUNC", "PROC", "EXTERN"}), NEW names
    PROVE  AreViews(Start(astid(id)), names)
<1> DEFINE d == astid(id)
           u == View([op |-> "start"], START, <<>>, <<>>)
           v == View(CallOf(d), START, <<>>, <<>>)
           w == View([op |-> "exit"], START, Reversed(d.rets), <<>>)
<1>1. <<>> \in Seq(Kinds) /\ <<>> \in Seq(Nat) OBVIOUS
<1>2. IsInstruction(CallOf(d), names) /\ Reversed(d.rets) \in Seq(Kinds) BY CallIsTyped, RetsOf
<1>3. Start(d) = <<u, v, w>> BY DEF Start
<1>4. IsView(u, names) BY <1>1 DEF IsView, IsInstruction, View
<1>5. IsView(v, names) BY <1>1, <1>2 DEF IsView, View
<1>6. IsView(w, names) BY <1>1, <1>2 DEF IsView, IsInstruction, View
<1> HIDE DEF u, v, w
<1>7. AreViews(<<u, v>>, names) /\ AreViews(<<w>>, names) BY <1>4, <1>5, <1>6, FewViews
<1>8. <<u, v, w>> = <<u, v>> \o <<w>> OBVIOUS
<1> QED BY <1>3, <1>7, <1>8, ViewsConcat

LEMMA TypedEndRoutine == ASSUME CompilerShape, MainFound, TypedCode, EndRoutine PROVE TypedCode'
<1> DEFINE d == astid(Current.node)
           ins == [op |-> "ret", nargs |-> Len(d.args), rets |-> Reversed(d.rets),
                   main |-> d.kind = "FUNC" /\ d.name = MAIN_FUNCTION]
           rest == IF phase = "main" THEN Start(d) ELSE <<>>
<1>1. Returning("routine") /\ (Reject \/ (prog' = prog /\ Emit(<<At(ins, Types)>> \o rest)))
  BY DEF EndRoutine
<1>2. work # <<>> /\ Types \in Seq(Kinds) BY <1>1, Return
<1>3. DeclaredAs(Current.node, {"FUNC", "PROC", "EXTERN"}) BY <1>2, BlockIsDeclared
<1>4. Len(d.args) \in Nat /\ Reversed(d.rets) \in Seq(Kinds) BY <1>3, RetsOf
<1>5. d.name = MAIN_FUNCTION => Reversed(d.rets) # <<>> BY <1>1, MainReturns
<1>6. AreViews(rest, Variables) BY <1>3, TypedStart, NoViews
<1> HIDE DEF d, rest
<1>7. IsInstruction(ins, Variables) BY <1>4, <1>5 DEF IsInstruction
<1> HIDE DEF ins
<1>8. PICK v : v = At(ins, Types) OBVIOUS
<1>9. IsView(v, Variables) BY <1>2, <1>7, <1>8, ViewHere
<1>10. AreViews(<<v>>, Variables) BY <1>9, FewViews
<1>11. AreViews(<<v>> \o rest, Variables) BY <1>6, <1>10, ViewsConcat
<1>12. Reject \/ (prog' = prog /\ Emit(<<v>> \o rest)) BY <1>1, <1>8
<1> QED BY <1>11, <1>12, TypedEmit, TypedStops

-----------------------------------------------------------------------------
(* Branches: labels and jumps are instructions, whatever they name.           *)
LEMMA FlowIsTyped ==
    ASSUME NEW names, NEW l, NEW n
    PROVE  /\ IsInstruction(Label(l, n), names)
           /\ IsInstruction(Jump("jmp", l, n), names) /\ IsInstruction(Jump("jz", l, n), names)
           /\ IsInstruction([op |-> "drop"], names)
BY DEF IsInstruction, Label, Jump

LEMMA TypedPair ==
    ASSUME CompilerShape, TypedCode, work # <<>>, prog' = prog, NEW ts \in Seq(Kinds), NEW us \in Seq(Kinds),
           NEW a, IsInstruction(a, Variables), NEW b, IsInstruction(b, Variables),
           Emit(<<At(a, ts), At(b, us)>>)
    PROVE  TypedCode'
<1>1. PICK u, v : u = At(a, ts) /\ v = At(b, us) OBVIOUS
<1>2. IsView(u, Variables) /\ IsView(v, Variables) BY <1>1, ViewHere
<1>3. AreViews(<<u, v>>, Variables) BY <1>2, FewViews
<1>4. Emit(<<u, v>>) BY <1>1
<1> QED BY <1>3, <1>4, TypedEmit

LEMMA TypedIf == ASSUME CompilerShape, TypedCode, CompileIf PROVE TypedCode'
<1>1. Compiling({"IF"}) BY DEF CompileIf
<1>2. PICK a, b, c, n :
         /\ n = label_counter /\ a = Jump("jz", "else", n) /\ b = Label("else", n) /\ c = [op |-> "drop"]
  OBVIOUS
<1>3. \/ Reject \/ Crash
      \/ Continue(<<At(c, Types)>>, Popped)
      \/ /\ prog' = prog /\ Types # <<>>
         /\ Emit(<<At(a, Types)>>) \/ Emit(<<At(a, Types), At(b, Popped)>>)
  BY <1>2 DEF CompileIf
<1>4. IsInstruction(a, Variables) /\ IsInstruction(b, Variables) /\ IsInstruction(c, Variables)
  BY <1>2, FlowIsTyped
<1>5. work # <<>> /\ Types \in Seq(Kinds) /\ (Types # <<>> => Popped \in Seq(Kinds)) BY <1>1, Statement
<1> QED BY <1>1, <1>3, <1>4, <1>5, TypedOne, TypedWritten, TypedPair, TypedStops

LEMMA TypedWhile == ASSUME CompilerShape, TypedCode, CompileWhile PROVE TypedCode'
<1>1. PICK a : a = Label("while", while_label_counter) OBVIOUS
<1>2. Crash \/ (prog' = prog /\ Emit(<<At(a, Types)>>)) BY <1>1 DEF CompileWhile
<1>3. work # <<>> /\ Types \in Seq(Kinds) BY Statement DEF CompileWhile
<1>4. IsInstruction(a, Variables) BY <1>1, FlowIsTyped
<1> QED BY <1>2, <1>3, <1>4, TypedWritten, TypedStops

LEMMA TypedEndThen == ASSUME CompilerShape, TypedCode, EndThen PROVE TypedCode'
<1>1. PICK n, a, b, c :
         /\ n = Current.label /\ a = Jump("jmp", "edon", n) /\ b = Label("else", n) /\ c = Label("edon", n)
  OBVIOUS
<1>2. PICK u, v, w : u = At(a, Types) /\ v = At(b, Types) /\ w = At(c, Types) OBVIOUS
<1>3. prog' = prog /\ (Emit(<<u, v>>) \/ Emit(Append(<<u, v>>, w)))
  BY <1>1, <1>2 DEF EndThen
<1>4. work # <<>> /\ Types \in Seq(Kinds) BY Return DEF EndThen
<1>5. IsInstruction(a, Variables) /\ IsInstruction(b, Variables) /\ IsInstruction(c, Variables)
  BY <1>1, FlowIsTyped
<1>6. IsView(u, Variables) /\ IsView(v, Variables) /\ IsView(w, Variables)
  BY <1>2, <1>4, <1>5, ViewHere
<1>7. AreViews(<<u, v>>, Variables) /\ AreViews(<<w>>, Variables) BY <1>6, FewViews
<1>8. Append(<<u, v>>, w) = <<u, v>> \o <<w>> OBVIOUS
<1>9. AreViews(Append(<<u, v>>, w), Variables) BY <1>7, <1>8, ViewsConcat
<1> QED BY <1>3, <1>7, <1>9, TypedEmit

LEMMA TypedEndElse == ASSUME CompilerShape, TypedCode, EndElse PROVE TypedCode'
<1>1. PICK a : a = Label("edon", Current.label) OBVIOUS
<1>2. prog' = prog /\ Emit(<<At(a, Types)>>) BY <1>1 DEF EndElse
<1>3. work # <<>> /\ Types \in Seq(Kinds) BY Return DEF EndElse
<1>4. IsInstruction(a, Variables) BY <1>1, FlowIsTyped
<1> QED BY <1>2, <1>3, <1>4, TypedWritten

LEMMA TypedEndCond == ASSUME CompilerShape, TypedCode, EndCond PROVE TypedCode'
<1>1. PICK a : a = Jump("jz", "wdon", Current.label) OBVIOUS
<1>2. Reject \/ (prog' = prog /\ Emit(<<At(a, Types)>>)) BY <1>1 DEF EndCond
<1>3. work # <<>> /\ Types \in Seq(Kinds) BY Return DEF EndCond
<1>4. IsInstruction(a, Variables) BY <1>1, FlowIsTyped
<1> QED BY <1>2, <1>3, <1>4, TypedWritten, TypedStops

LEMMA TypedEndBody == ASSUME CompilerShape, TypedCode, EndBody PROVE TypedCode'
<1>1. PICK a, b : a = Jump("jmp", "while", Current.label) /\ b = Label("wdon", Current.label) OBVIOUS
<1>2. Reject \/ (prog' = prog /\ Emit(<<At(a, Types), At(b, Types)>>)) BY <1>1 DEF EndBody
<1>3. work # <<>> /\ Types \in Seq(Kinds) BY Return DEF EndBody
<1>4. IsInstruction(a, Variables) /\ IsInstruction(b, Variables) BY <1>1, FlowIsTyped
<1> QED BY <1>2, <1>3, <1>4, TypedPair, TypedStops

-----------------------------------------------------------------------------
(* The compiler, step by step.                                                *)
LEMMA CompileKeepsTypes == ASSUME CompilerShape, MainFound, TypedCode, Compile PROVE TypedCode'
<1>1. CASE FillMaps \/ CompileMain \/ CompileRoutine \/ EndRoutine \/ CompileDone
  BY <1>1, TypedFilling, TypedOpening, TypedEndRoutine
<1>2. CASE CompilePush \/ CompileLiteral \/ CompileCall \/ EndInline
  BY <1>2, TypedPush, TypedLiteral, TypedCall, TypedEndInline
<1>3. CASE CompileArith \/ CompileEqual BY <1>3, TypedArith
<1>4. CASE CompileBnot \/ CompileDrop \/ CompileDup \/ CompileDot BY <1>4, TypedUnary
<1>5. CASE CompilePlus \/ CompileWrite \/ CompileSyscall \/ CompileNothing
  BY <1>5, TypedPlus, TypedWrite, TypedSyscall, TypedNothing
<1>6. CASE CompileIf \/ EndThen \/ EndElse \/ CompileWhile \/ EndCond \/ EndBody
  BY <1>6, TypedIf, TypedEndThen, TypedEndElse, TypedWhile, TypedEndCond, TypedEndBody
<1> QED BY <1>1, <1>2, <1>3, <1>4, <1>5, <1>6 DEF Compile

LEMMA SameMainFound ==
    ASSUME MainFound, phase' \in {"main", "routines", "done"} => phase \in {"main", "routines", "done"},
           prog' = prog, values_map' = values_map
    PROVE  MainFound'
BY DEF MainFound, Find, MAIN_FUNCTION

LEMMA ContinueKeepsMaps ==
    ASSUME NEW s, NEW ts, Continue(s, ts) PROVE prog' = prog /\ values_map' = values_map
BY DEF Continue, Stop, maps

(* What a step of a routine puts into values_map.                             *)
LEMMA ValuesGrow ==
    ASSUME CompilerShape, Compile, ~FillMaps
    PROVE  /\ prog' = prog
           /\ \/ values_map' = values_map
              \/ \E id : /\ DeclaredAs(id, {"FUNC", "PROC", "EXTERN"})
                         /\ values_map' = Put(values_map, astid(id).name, id)
<1>1. ASSUME CompileMain \/ CompileRoutine \/ EndRoutine \/ CompileDone
      PROVE prog' = prog /\ values_map' = values_map
  BY <1>1 DEF CompileMain, CompileRoutine, EndRoutine, CompileDone, Reject, Stop, maps
<1>2. ASSUME CompileIf \/ EndThen \/ EndElse \/ CompileWhile \/ EndCond \/ EndBody
      PROVE prog' = prog /\ values_map' = values_map
  BY <1>2, ContinueKeepsMaps DEF CompileIf, EndThen, EndElse, CompileWhile, EndCond, EndBody, Reject, Crash, Stop, maps
<1>3. ASSUME NEW name, compile_argument_push(name) PROVE prog' = prog /\ values_map' = values_map
  BY <1>3, ContinueKeepsMaps DEF compile_argument_push, Reject, Crash, Stop, maps
<1>4. ASSUME CompilePush \/ CompileLiteral PROVE prog' = prog /\ values_map' = values_map
  BY <1>3, <1>4, ContinueKeepsMaps DEF CompilePush, CompileLiteral, Crash, Stop, maps
<1>5. ASSUME CompileArith \/ CompileEqual \/ CompilePlus \/ CompileBnot \/ CompileDrop \/ CompileDup \/ CompileDot
      PROVE prog' = prog /\ values_map' = values_map
  BY <1>5, ContinueKeepsMaps
     DEF CompileArith, CompileEqual, CompilePlus, CompileBnot, CompileDrop, CompileDup, CompileDot, Require,
         Reject, Crash, Stop, maps
<1>6. ASSUME CompileWrite \/ CompileSyscall \/ CompileNothing PROVE prog' = prog /\ values_map' = values_map
  BY <1>6, ContinueKeepsMaps DEF CompileWrite, CompileSyscall, CompileNothing, Reject, Crash, Stop, maps
<1>7. IsMap(values_map, {"FUNC", "PROC", "EXTERN"}) /\ IsMap(externs_map, {"EXTERN"})
  BY ShapeFacts DEF Maps
<1>8. ASSUME NEW id, DeclaredAs(id, {"FUNC", "PROC", "EXTERN"}), astid(id).name = Node.name,
             compile_function_call(id)
      PROVE  prog' = prog /\ (values_map' = values_map \/ values_map' = Put(values_map, astid(id).name, id))
  BY <1>8 DEF compile_function_call, compile_inline, Reject, Crash, Stop, maps
<1>9. CASE CompileCall
  <2> DEFINE name == Node.name
  <2>1. CASE Find(values_map, name) # NULL
    <3>1. PICK id : id = Find(values_map, name) OBVIOUS
    <3>2. DeclaredAs(id, {"FUNC", "PROC", "EXTERN"}) /\ astid(id).name = name
      BY <1>7, <2>1, <3>1, FindIsDeclared
    <3>3. compile_function_call(id) BY <1>9, <2>1, <3>1 DEF CompileCall
    <3> QED BY <1>8, <3>2, <3>3
  <2>2. CASE Find(values_map, name) = NULL /\ Find(externs_map, name) # NULL
    <3>1. PICK id : id = Find(externs_map, name) OBVIOUS
    <3>2. DeclaredAs(id, {"EXTERN"}) /\ astid(id).name = name BY <1>7, <2>2, <3>1, FindIsDeclared
    <3>3. DeclaredAs(id, {"FUNC", "PROC", "EXTERN"}) BY <3>2 DEF DeclaredAs
    <3>4. compile_function_call(id) BY <1>9, <2>2, <3>1 DEF CompileCall
    <3> QED BY <1>8, <3>2, <3>3, <3>4
  <2>3. CASE Find(values_map, name) = NULL /\ Find(externs_map, name) = NULL
    <3>1. compile_argument_push(name) \/ \E s, ts : Continue(s, ts) BY <1>9, <2>3 DEF CompileCall
    <3> QED BY <1>3, <3>1, ContinueKeepsMaps
  <2> QED BY <2>1, <2>2, <2>3
<1>10. CASE EndInline
  <2>1. DeclaredAs(Current.node, {"FUNC", "PROC", "EXTERN"})
    <3>1. Returning("inline") BY <1>10, SMTT(30) DEF EndInline
    <3> QED BY <3>1, Return, BlockIsDeclared
  <2> DEFINE d == astid(Current.node)
             isProc == d.kind = "PROC"
             proc == IF isProc THEN Current.saved ELSE proc_ctx
             func == IF isProc THEN func_ctx ELSE Current.saved
             before == IF proc.stmt # NULL THEN proc.types ELSE func.types
             new == before \o Reversed(d.rets)
             ins == [op |-> "leave", nargs |-> Len(d.args), rets |-> Reversed(d.rets)]
  <2>2. IF Overflow(before, new) # "none" THEN Stop(Overflow(before, new))
        ELSE /\ Emit(<<At(ins, Types)>>)
             /\ proc_ctx' = (IF proc.stmt # NULL THEN WithTypes(proc, new) ELSE proc)
             /\ func_ctx' = (IF proc.stmt # NULL THEN func ELSE WithTypes(func, new))
             /\ values_map' = Put(values_map, d.name, Current.node)
             /\ work' = Advanced(Drop(work, 1))
             /\ quirks' = quirks \union {q \in {"inline_rets"} : ~Returns(Types, d.rets)}
             /\ UNCHANGED <<prog, phase, cursor, externs_map, labels>>
    BY <1>10 DEF EndInline, WithTypes
  <2> HIDE DEF ins, isProc, proc, func, before, new
  <2>3. prog' = prog /\ (values_map' = values_map \/ values_map' = Put(values_map, d.name, Current.node))
    BY <2>2 DEF Stop, maps
  <2> QED BY <2>1, <2>3
<1> QED BY <1>1, <1>2, <1>4, <1>5, <1>6, <1>9, <1>10 DEF Compile

LEMMA CompileGoesOn == ASSUME CompilerShape, Compile, ~FillMaps, ~CompileMain PROVE phase \in {"main", "routines"}
<1>1. CASE CompileRoutine \/ CompileDone BY <1>1 DEF CompileRoutine, CompileDone
<1>2. ASSUME NEW kinds, Compiling(kinds) PROVE phase \in {"main", "routines"} BY <1>2 DEF Compiling
<1>3. ASSUME NEW block, Returning(block) PROVE phase \in {"main", "routines"} BY <1>3 DEF Returning
<1>4. CASE EndRoutine \/ EndThen \/ EndElse \/ EndCond \/ EndBody
  BY <1>3, <1>4 DEF EndRoutine, EndThen, EndElse, EndCond, EndBody
<1>5. CASE EndInline
  <2>1. Returning("inline") BY <1>5, SMTT(30) DEF EndInline
  <2> QED BY <1>3, <2>1
<1>6. CASE CompilePush \/ CompileLiteral \/ CompileCall \/ CompileArith \/ CompileEqual \/ CompilePlus
  BY <1>2, <1>6 DEF CompilePush, CompileLiteral, CompileCall, CompileArith, CompileEqual, CompilePlus
<1>7. CASE CompileBnot \/ CompileDrop \/ CompileDup \/ CompileDot \/ CompileWrite \/ CompileSyscall
  BY <1>2, <1>7 DEF CompileBnot, CompileDrop, CompileDup, CompileDot, CompileWrite, CompileSyscall
<1>8. CASE CompileNothing \/ CompileIf \/ CompileWhile
  BY <1>2, <1>8 DEF CompileNothing, CompileIf, CompileWhile
<1> QED BY <1>1, <1>4, <1>5, <1>6, <1>7, <1>8 DEF Compile

LEMMA MainStaysFound == ASSUME CompilerShape, MainFound, Compile PROVE MainFound'
<1>1. CASE FillMaps
  <2>1. phase' \in {"fill", "rejected"} BY <1>1 DEF FillMaps, Filling, Reject, Stop
  <2> QED BY <2>1 DEF MainFound
<1>2. CASE ~FillMaps
  <2>1. prog' = prog BY <1>2, ValuesGrow
  <2>2. SUFFICES ASSUME phase' \in {"main", "routines", "done"} PROVE Find(values_map', MAIN_FUNCTION) = prog.main
    BY <2>1 DEF MainFound, Find, MAIN_FUNCTION
  <2>3. Find(values_map, MAIN_FUNCTION) = prog.main /\ prog.main # NULL
    <3>1. IsProgram(prog) /\ check_for_main_function(prog) BY DEF CompilerShape, Progress
    <3>2. DeclaredAs(prog.main, {"FUNC"}) /\ astid(prog.main).name = MAIN_FUNCTION
      <4>1. prog.main \in TopLevel(prog) \union {asts_len} BY <3>1 DEF check_for_main_function
      <4> QED BY <3>1, <4>1, ChainOf
    <3>3. prog.main # NULL BY <3>2, IdsAreNotNull
    <3>4. CASE CompileMain BY <3>2, <3>3, <3>4, MainIsMapped
    <3>5. CASE ~CompileMain
      <4>1. phase \in {"main", "routines"} BY <1>2, <3>5, CompileGoesOn
      <4> QED BY <3>3, <4>1 DEF MainFound
    <3> QED BY <3>4, <3>5
  <2>4. IsMap(values_map, {"FUNC", "PROC", "EXTERN"}) BY ShapeFacts DEF Maps
  <2>5. CASE values_map' = values_map BY <2>3, <2>5
  <2>6. ASSUME NEW id, DeclaredAs(id, {"FUNC", "PROC", "EXTERN"}), values_map' = Put(values_map, astid(id).name, id)
        PROVE  Find(values_map', MAIN_FUNCTION) = prog.main
    BY <2>3, <2>4, <2>6, PutKeepsMap
  <2> QED BY <1>2, <2>5, <2>6, ValuesGrow
<1> QED BY <1>1, <1>2

-----------------------------------------------------------------------------
(* The machine: what the stacks and the variables hold.                       *)
Cells == [kind : CellKinds, value : Nat]
Places == Variables \union {"ret_code"}
MachineTyped ==
    /\ machine \in {"off", "running", "exited", "fault"}
    /\ pc \in Nat /\ rsp_stack \in Seq(Nat)
    /\ stack \in Seq(Cells) /\ calls \in Seq([base : Nat, rsp : Nat])
    /\ machine # "off" => DOMAIN mem = Places /\ \A x \in Places : mem[x] \in Nat

LEMMA SameVariables == ASSUME prog' = prog PROVE Places' = Places
BY DEF Places, Variables

LEMMA MachineStays == ASSUME MachineTyped, prog' = prog, UNCHANGED machineVars PROVE MachineTyped'
<1>1. Places' = Places BY SameVariables
<1> QED BY <1>1 DEF MachineTyped, machineVars

LEMMA MachineFaults == ASSUME MachineTyped, machine = "running", prog' = prog, Fault PROVE MachineTyped'
<1>1. Places' = Places BY SameVariables
<1> QED BY <1>1 DEF MachineTyped, Fault

LEMMA MachineGoes ==
    ASSUME MachineTyped, machine = "running", prog' = prog, mem' = mem,
           NEW target \in Nat, NEW s \in Seq(Cells), Goto(target, s)
    PROVE  MachineTyped'
<1>1. Places' = Places BY SameVariables
<1>2. Cells' = Cells BY DEF Cells, CellKinds, Kinds
<1>3. stack' \in Seq(Cells') BY <1>2 DEF Goto
<1> QED BY <1>1, <1>3 DEF MachineTyped, Goto

LEMMA NotLess ==
    ASSUME NEW m \in Nat, NEW n \in Nat
    PROVE  (~(m < n) => m >= n) /\ (~(m > n) => m <= n)
OBVIOUS

LEMMA CellIs ==
    ASSUME NEW kind \in Kinds \union {"return"}, NEW value \in Nat PROVE Cell(kind, value) \in Cells
BY DEF Cell, Cells, CellKinds

LEMMA FewCells ==
    ASSUME NEW c \in Cells, NEW d \in Cells
    PROVE  <<>> \in Seq(Cells) /\ <<c>> \in Seq(Cells) /\ <<c, d>> \in Seq(Cells)
OBVIOUS

LEMMA CellOfStack ==
    ASSUME MachineTyped, NEW i \in DOMAIN stack
    PROVE  stack[i] \in Cells /\ stack[i].kind \in CellKinds /\ stack[i].value \in Nat
<1>1. stack \in Seq(Cells) BY DEF MachineTyped
<1>2. stack[i] \in Cells BY <1>1
<1> QED BY <1>2 DEF Cells

LEMMA TopOfStack ==
    ASSUME MachineTyped, Len(stack) >= 1
    PROVE  /\ Top(stack) \in Cells /\ Top(stack).kind \in CellKinds /\ Top(stack).value \in Nat
           /\ Len(stack) \in Nat /\ Len(stack) \in DOMAIN stack
<1>1. stack \in Seq(Cells) BY DEF MachineTyped
<1>2. Len(stack) \in Nat /\ Len(stack) \in DOMAIN stack BY <1>1
<1> QED BY <1>2, CellOfStack DEF Top

LEMMA MachineSequel ==
    ASSUME MachineTyped, machine = "running", pc \in DOMAIN code, prog' = prog,
           NEW pops \in Nat, NEW cells, Len(stack) >= pops => cells \in Seq(Cells), Sequel(pops, cells)
    PROVE  MachineTyped'
<1>1. stack \in Seq(Cells) /\ pc \in Nat /\ Len(stack) \in Nat BY DEF MachineTyped
<1>2. CASE Fault BY <1>2, MachineFaults
<1>3. CASE Len(stack) >= pops /\ Goto(pc + 1, Drop(stack, pops) \o cells) /\ UNCHANGED mem
  <2>1. Drop(stack, pops) \in Seq(Cells) BY <1>1, <1>3, DropProperties
  <2>2. Drop(stack, pops) \o cells \in Seq(Cells) BY <1>3, <2>1, ConcatProperties
  <2>3. pc + 1 \in Nat BY <1>1
  <2> QED BY <1>3, <2>2, <2>3, MachineGoes
<1> QED BY <1>2, <1>3 DEF Sequel

(* The instruction that runs.                                                 *)
LEMMA InstructionRuns ==
    ASSUME TypedCode, NEW ops, Running(ops)
    PROVE  /\ IsInstruction(Ins, Variables) /\ Ins.op \in ops /\ machine = "running"
           /\ pc \in DOMAIN code /\ DOMAIN code \subseteq Nat
<1>1. pc \in DOMAIN code /\ machine = "running" /\ Ins.op \in ops BY DEF Running
<1>2. IsSeq(code) /\ \A j \in 1 .. Len(code) : IsView(code[j], Variables) BY DEF TypedCode, AreViews
<1>3. DOMAIN code = 1 .. Len(code) /\ Len(code) \in Nat BY <1>2, IsSeqProperties
<1>4. IsView(code[pc], Variables) BY <1>1, <1>2, <1>3
<1> QED BY <1>1, <1>3, <1>4 DEF IsView, Ins

LEMMA KindsAreCellKinds == Kinds \subseteq CellKinds
BY DEF CellKinds

LEMMA TypedPushes ==
    ASSUME TypedCode, MachineTyped, prog' = prog, Push \/ LoadVariable \/ LoadArg \/ Index PROVE MachineTyped'
<1>1. CASE Push
  <2>1. IsInstruction(Ins, Variables) /\ Ins.op = "push" /\ machine = "running" /\ pc \in DOMAIN code
    BY <1>1, InstructionRuns DEF Push
  <2>2. Cell(Ins.kind, Ins.value) \in Cells BY <2>1, CellIs DEF IsInstruction
  <2>3. <<Cell(Ins.kind, Ins.value)>> \in Seq(Cells) BY <2>2, FewCells
  <2> QED BY <1>1, <2>1, <2>3, MachineSequel DEF Push
<1>2. CASE LoadVariable
  <2>1. IsInstruction(Ins, Variables) /\ Ins.op = "loadvar" /\ machine = "running" /\ pc \in DOMAIN code
    BY <1>2, InstructionRuns DEF LoadVariable
  <2>2. mem[Ins.name] \in Nat BY <2>1 DEF IsInstruction, MachineTyped, Places
  <2>3. Cell(Ins.kind, mem[Ins.name]) \in Cells BY <2>1, <2>2, CellIs DEF IsInstruction
  <2>4. <<Cell(Ins.kind, mem[Ins.name])>> \in Seq(Cells) BY <2>3, FewCells
  <2> QED BY <1>2, <2>1, <2>4, MachineSequel DEF LoadVariable
<1>3. CASE LoadArg
  <2>1. machine = "running" /\ pc \in DOMAIN code BY <1>3, InstructionRuns DEF LoadArg
  <2>2. CASE Fault BY <2>1, <2>2, MachineFaults
  <2>3. CASE Slot \in DOMAIN stack /\ Sequel(0, <<stack[Slot]>>)
    <3>1. stack[Slot] \in Cells BY <2>3, CellOfStack
    <3>2. <<stack[Slot]>> \in Seq(Cells) BY <3>1, FewCells
    <3> QED BY <2>1, <2>3, <3>2, MachineSequel
  <2> QED BY <1>3, <2>2, <2>3 DEF LoadArg
<1>4. CASE Index
  <2>1. machine = "running" /\ pc \in DOMAIN code BY <1>4, InstructionRuns DEF Index
  <2>2. CASE Fault BY <2>1, <2>2, MachineFaults
  <2>3. CASE \E byte \in {0, 1} : Sequel(2, <<Cell("byte", byte)>>)
    <3>1. PICK byte \in {0, 1} : Sequel(2, <<Cell("byte", byte)>>) BY <2>3
    <3>2. Cell("byte", byte) \in Cells BY PoisonedIsAKind, CellIs
    <3>3. <<Cell("byte", byte)>> \in Seq(Cells) BY <3>2, FewCells
    <3> QED BY <2>1, <3>1, <3>3, MachineSequel
  <2> QED BY <1>4, <2>2, <2>3 DEF Index
<1> QED BY <1>1, <1>2, <1>3, <1>4

LEMMA TypedOperators ==
    ASSUME TypedCode, MachineTyped, prog' = prog, Binary \/ Not PROVE MachineTyped'
<1>1. CASE Binary
  <2>1. IsInstruction(Ins, Variables) /\ Ins.op = "binary" /\ machine = "running" /\ pc \in DOMAIN code
    BY <1>1, InstructionRuns DEF Binary
  <2>2. CASE Fault BY <2>1, <2>2, MachineFaults
  <2> DEFINE x == stack[Len(stack) - 1].value
             y == Top(stack).value
  <2>3. CASE Len(stack) >= 2 /\ ~Traps(Ins.f, y) /\ Sequel(2, <<Cell("int", Emitted(Ins.f, x, y))>>)
    <3>1. stack \in Seq(Cells) BY DEF MachineTyped
    <3>2. Len(stack) - 1 \in DOMAIN stack BY <2>3, <3>1
    <3>3. x \in Nat BY <3>2, CellOfStack
    <3>4. Len(stack) >= 1 BY <2>3, <3>1
    <3>5. y \in Nat BY <3>4, TopOfStack
    <3>6. Ins.f \in BinaryOps BY <2>1 DEF IsInstruction
    <3>7. ~Traps(Ins.f, y) BY <2>3
    <3> HIDE DEF x, y
    <3>8. Emitted(Ins.f, x, y) \in Nat BY <3>3, <3>5, <3>6, <3>7, EmittedIs
    <3>9. Cell("int", Emitted(Ins.f, x, y)) \in Cells BY <3>8, PoisonedIsAKind, CellIs
    <3>10. <<Cell("int", Emitted(Ins.f, x, y))>> \in Seq(Cells) BY <3>9, FewCells
    <3> QED BY <2>1, <2>3, <3>10, MachineSequel
  <2> QED BY <1>1, <2>2, <2>3 DEF Binary
<1>2. CASE Not
  <2>1. machine = "running" /\ pc \in DOMAIN code BY <1>2, InstructionRuns DEF Not
  <2>2. PICK kind, value :
           /\ kind = (IF Top(stack).kind = "byte" THEN "byte" ELSE "int")
           /\ value = BitNot(Wrap(Top(stack).value))
    OBVIOUS
  <2>3. Sequel(1, <<Cell(kind, value)>>) BY <1>2, <2>2 DEF Not
  <2>4. ASSUME Len(stack) >= 1 PROVE <<Cell(kind, value)>> \in Seq(Cells)
    <3>1. kind \in Kinds BY <2>2, PoisonedIsAKind
    <3>2. Top(stack).value \in Nat BY <2>4, TopOfStack
    <3>3. value \in Nat BY <2>2, <3>2, BitNotIs
    <3>4. Cell(kind, value) \in Cells BY <3>1, <3>3, CellIs
    <3> QED BY <3>4, FewCells
  <2> QED BY <2>1, <2>3, <2>4, MachineSequel
<1> QED BY <1>1, <1>2

LEMMA TypedCopies ==
    ASSUME TypedCode, MachineTyped, prog' = prog, Dup \/ PopOne \/ Dot \/ Syscall \/ Skip PROVE MachineTyped'
<1>1. <<>> \in Seq(Cells) OBVIOUS
<1>2. Len(stack) >= 1 => <<Top(stack)>> \in Seq(Cells) /\ <<Top(stack), Top(stack)>> \in Seq(Cells)
  BY TopOfStack, FewCells
<1>3. CASE Dup
  <2>1. machine = "running" /\ pc \in DOMAIN code BY <1>3, InstructionRuns DEF Dup
  <2> QED BY <1>2, <1>3, <2>1, MachineSequel DEF Dup
<1>4. CASE PopOne
  <2>1. machine = "running" /\ pc \in DOMAIN code BY <1>4, InstructionRuns DEF PopOne
  <2> QED BY <1>1, <1>4, <2>1, MachineSequel DEF PopOne
<1>5. CASE Dot
  <2>1. machine = "running" /\ pc \in DOMAIN code BY <1>5, InstructionRuns DEF Dot
  <2>2. CASE Fault BY <2>1, <2>2, MachineFaults
  <2>3. CASE Sequel(1, <<Top(stack)>>) BY <1>2, <2>1, <2>3, MachineSequel
  <2> QED BY <1>5, <2>2, <2>3 DEF Dot
<1>6. CASE Syscall
  <2>1. IsInstruction(Ins, Variables) /\ Ins.op = "syscall" /\ machine = "running" /\ pc \in DOMAIN code
    BY <1>6, InstructionRuns DEF Syscall
  <2>2. Ins.pops \in Nat BY <2>1 DEF IsInstruction
  <2> QED BY <1>1, <1>6, <2>1, <2>2, MachineSequel DEF Syscall
<1>7. CASE Skip
  <2>1. machine = "running" /\ pc \in DOMAIN code BY <1>7, InstructionRuns DEF Skip
  <2> QED BY <1>1, <1>7, <2>1, MachineSequel DEF Skip
<1> QED BY <1>3, <1>4, <1>5, <1>6, <1>7

LEMMA TypedFfi == ASSUME TypedCode, MachineTyped, prog' = prog, Ffi PROVE MachineTyped'
<1>1. IsInstruction(Ins, Variables) /\ Ins.op = "ffi" /\ machine = "running" /\ pc \in DOMAIN code
  BY InstructionRuns DEF Ffi
<1>2. PICK rax \in Word : Sequel(Len(Ins.args), [i \in DOMAIN Ins.rets |-> Cell(Ins.rets[i], rax)])
  BY DEF Ffi
<1>3. Ins.args \in Seq(Kinds) /\ Ins.rets \in Seq(Kinds) BY <1>1 DEF IsInstruction
<1>4. PICK cells : cells = [i \in DOMAIN Ins.rets |-> Cell(Ins.rets[i], rax)] OBVIOUS
<1>5. rax \in Nat BY DEF Word
<1>6. PICK r : r = Ins.rets OBVIOUS
<1>7. Len(r) \in Nat /\ DOMAIN r = 1 .. Len(r) /\ \A i \in 1 .. Len(r) : r[i] \in Kinds
  BY <1>3, <1>6, LenProperties, ElementOfSeq
<1>8. \A i \in 1 .. Len(r) : Cell(r[i], rax) \in Cells BY <1>5, <1>7, CellIs
<1>9. cells \in [1 .. Len(r) -> Cells] BY <1>4, <1>6, <1>7, <1>8
<1>10. cells \in Seq(Cells) BY <1>7, <1>9
<1>11. Len(Ins.args) \in Nat BY <1>3
<1>12. Sequel(Len(Ins.args), cells) BY <1>2, <1>4
<1> QED BY <1>1, <1>10, <1>11, <1>12, MachineSequel

LEMMA TypedStore == ASSUME TypedCode, MachineTyped, prog' = prog, Store PROVE MachineTyped'
<1>1. IsInstruction(Ins, Variables) /\ Ins.op = "store" /\ machine = "running"
  BY InstructionRuns DEF Store
<1>2. CASE Fault BY <1>1, <1>2, MachineFaults
<1>3. CASE /\ stack # <<>> /\ mem' = [mem EXCEPT ![Ins.name] = Top(stack).value]
           /\ Goto(pc + 1, Drop(stack, 1))
  <2>1. stack \in Seq(Cells) /\ pc \in Nat BY DEF MachineTyped
  <2>2. Len(stack) >= 1 BY <1>3, <2>1
  <2>3. Drop(stack, 1) \in Seq(Cells) BY <2>1, <2>2, DropOne
  <2>4. Places' = Places /\ Cells' = Cells BY SameVariables DEF Cells, CellKinds, Kinds
  <2>5. Top(stack).value \in Nat BY <2>2, TopOfStack
  <2>6. DOMAIN mem' = Places /\ \A x \in Places : mem'[x] \in Nat
    <3>1. DOMAIN mem = Places /\ \A x \in Places : mem[x] \in Nat BY <1>1 DEF MachineTyped
    <3>2. PICK v : v = Top(stack).value OBVIOUS
    <3>3. v \in Nat /\ mem' = [mem EXCEPT ![Ins.name] = v] BY <1>3, <2>5, <3>2
    <3> QED BY <3>1, <3>3
  <2>7. stack' \in Seq(Cells') /\ pc' \in Nat BY <1>3, <2>1, <2>3, <2>4 DEF Goto
  <2>8. UNCHANGED <<rsp_stack, calls, machine>> BY <1>3 DEF Goto
  <2> QED BY <2>4, <2>6, <2>7, <2>8 DEF MachineTyped
<1> QED BY <1>2, <1>3 DEF Store

LEMMA TypedJumps == ASSUME TypedCode, MachineTyped, prog' = prog, Jmp \/ Jz PROVE MachineTyped'
<1>1. machine = "running" /\ DOMAIN code \subseteq Nat BY InstructionRuns DEF Jmp, Jz
<1>2. stack \in Seq(Cells) /\ pc \in Nat /\ Len(stack) \in Nat BY DEF MachineTyped
<1>3. \A l, n : Labels(l, n) \subseteq Nat BY <1>1 DEF Labels
<1>4. CASE Jmp
  <2>1. PICK target \in Labels(Ins.l, Ins.n) : Goto(target, stack) BY <1>4 DEF Jmp
  <2>2. target \in Nat /\ mem' = mem BY <1>3, <1>4, <2>1 DEF Jmp
  <2> QED BY <1>1, <1>2, <2>1, <2>2, MachineGoes
<1>5. CASE Jz
  <2>1. CASE Fault BY <1>1, <2>1, MachineFaults
  <2>2. CASE stack # <<>>
    <3>1. Drop(stack, 1) \in Seq(Cells)
      <4>1. Len(stack) >= 1 BY <1>2, <2>2
      <4> QED BY <1>2, <4>1, DropOne
    <3>2. PICK target : Goto(target, Drop(stack, 1)) /\ (target \in Labels(Ins.l, Ins.n) \/ target = pc + 1)
      BY <1>5, <2>2 DEF Jz
    <3>3. target \in Nat /\ mem' = mem BY <1>2, <1>3, <1>5, <2>2, <3>2 DEF Jz
    <3> QED BY <1>1, <3>1, <3>2, <3>3, MachineGoes
  <2> QED BY <1>5, <2>1, <2>2 DEF Jz
<1> QED BY <1>4, <1>5

LEMMA TypedMachineCall == ASSUME TypedCode, MachineTyped, prog' = prog, Call \/ EnterFrame PROVE MachineTyped'
<1>1. machine = "running" /\ DOMAIN code \subseteq Nat BY InstructionRuns DEF Call, EnterFrame
<1>2. stack \in Seq(Cells) /\ pc \in Nat /\ Len(stack) \in Nat /\ rsp_stack \in Seq(Nat) /\ Len(rsp_stack) \in Nat
      /\ calls \in Seq([base : Nat, rsp : Nat])
  BY DEF MachineTyped
<1>3. Places' = Places /\ Cells' = Cells BY SameVariables DEF Cells, CellKinds, Kinds
<1>4. CASE Fault BY <1>1, <1>4, MachineFaults
<1>5. CASE Call /\ ~(Len(stack) >= STACK_CAP)
  <2>1. /\ pc' \in Entries(Ins.name) /\ stack' = Append(stack, Cell("return", pc + 1))
        /\ calls' = Append(calls, [base |-> Len(stack) + 1, rsp |-> Len(rsp_stack)])
        /\ UNCHANGED <<rsp_stack, mem, machine>>
    BY <1>5 DEF Call
  <2>2. pc' \in Nat BY <1>1, <2>1 DEF Entries
  <2>3. Cell("return", pc + 1) \in Cells
    <3>1. pc + 1 \in Nat /\ "return" \in Kinds \union {"return"} BY <1>2
    <3> QED BY <3>1, CellIs
  <2>4. stack' \in Seq(Cells) BY <1>2, <2>1, <2>3, AppendIs
  <2>5. [base |-> Len(stack) + 1, rsp |-> Len(rsp_stack)] \in [base : Nat, rsp : Nat] BY <1>2
  <2>6. calls' \in Seq([base : Nat, rsp : Nat]) BY <1>2, <2>1, <2>5, AppendIs
  <2> QED BY <1>3, <2>1, <2>2, <2>4, <2>6 DEF MachineTyped
<1>6. CASE EnterFrame /\ ~(Len(rsp_stack) >= RSP_STACK_CAP)
  <2>1. rsp_stack' = Append(rsp_stack, Len(stack)) /\ pc' = pc + 1 /\ UNCHANGED <<stack, mem, calls, machine>>
    BY <1>6 DEF EnterFrame
  <2>2. rsp_stack' \in Seq(Nat) BY <1>2, <2>1, AppendIs
  <2> QED BY <1>2, <1>3, <2>1, <2>2 DEF MachineTyped
<1> QED BY <1>4, <1>5, <1>6 DEF Call, EnterFrame

(* What a return leaves on the stack.                                         *)
LEMMA ResultsAreCells ==
    ASSUME MachineTyped, IsSeq(Ins.rets), Len(stack) >= Len(Ins.rets)
    PROVE  Results \in Seq(Cells) /\ Len(Results) = Len(Ins.rets)
<1>1. stack \in Seq(Cells) /\ Len(stack) \in Nat BY DEF MachineTyped
<1>2. PICK n : n = Len(Ins.rets) OBVIOUS
<1>3. n \in Nat /\ n <= Len(stack) BY <1>1, <1>2, IsSeqProperties
<1>4. PICK s : s = SubSeq(stack, Len(stack) - n + 1, Len(stack)) OBVIOUS
<1>5. s \in Seq(Cells) /\ Len(s) = n
  <2>1. \A i \in Len(stack) - n + 1 .. Len(stack) : i \in 1 .. Len(stack) BY <1>1, <1>3
  <2>2. \A i \in 1 .. Len(stack) : stack[i] \in Cells BY <1>1, ElementOfSeq
  <2>3. IsSeq(stack) BY <1>1, SeqIsSeq
  <2>4. IsSeq(s) /\ Len(s) = n /\ \A i \in 1 .. n : s[i] = stack[Len(stack) - n + i]
    BY <1>3, <1>4, <2>3, TopNProperties DEF TopN
  <2>5. \A i \in 1 .. n : Len(stack) - n + i \in 1 .. Len(stack) BY <1>1, <1>3
  <2>6. DOMAIN s = 1 .. n BY <2>4, IsSeqProperties
  <2>7. s = [i \in 1 .. n |-> s[i]] BY <2>4, <2>6 DEF IsSeq
  <2>8. \A i \in 1 .. n : s[i] \in Cells BY <2>2, <2>4, <2>5
  <2>9. s \in [1 .. n -> Cells] BY <2>7, <2>8
  <2> QED BY <1>3, <2>4, <2>9
<1>6. Results = Reversed(s) BY <1>2, <1>4 DEF Results, TopN
<1> QED BY <1>2, <1>5, <1>6, ReversedKinds

LEMMA UnwoundIsCells ==
    ASSUME MachineTyped, rsp_stack # <<>>, NEW n \in Nat, Top(rsp_stack) >= n, Top(rsp_stack) <= Len(stack)
    PROVE  Unwound(n) \in Seq(Cells)
<1>1. stack \in Seq(Cells) /\ Len(stack) \in Nat /\ rsp_stack \in Seq(Nat) BY DEF MachineTyped
<1>2. PICK saved : saved = Top(rsp_stack) OBVIOUS
<1>3. saved \in Nat BY <1>1, <1>2 DEF Top
<1>4. PICK m : m = Len(stack) - (saved - n) OBVIOUS
<1>5. m \in Nat /\ m <= Len(stack) /\ Len(stack) - m = saved - n BY <1>1, <1>2, <1>3, <1>4
<1>6. Drop(stack, m) \in Seq(Cells) BY <1>1, <1>5, DropProperties
<1> QED BY <1>2, <1>5, <1>6 DEF Unwound, Drop

LEMMA TypedLeave == ASSUME TypedCode, MachineTyped, prog' = prog, LeaveInline PROVE MachineTyped'
<1>1. IsInstruction(Ins, Variables) /\ Ins.op = "leave" /\ machine = "running"
  BY InstructionRuns DEF LeaveInline
<1>2. CASE Fault BY <1>1, <1>2, MachineFaults
<1>3. CASE ~Fault
  <2>1. /\ rsp_stack # <<>> /\ ~(Len(stack) < Len(Ins.rets))
        /\ ~(Top(rsp_stack) < Ins.nargs) /\ ~(Top(rsp_stack) > Len(stack))
        /\ stack' = Unwound(Ins.nargs) \o Results /\ rsp_stack' = Restored /\ pc' = pc + 1
        /\ UNCHANGED <<mem, calls, machine>>
    BY <1>3 DEF LeaveInline
  <2>2. Ins.nargs \in Nat /\ Ins.rets \in Seq(Kinds) BY <1>1 DEF IsInstruction
  <2>3. /\ stack \in Seq(Cells) /\ Len(stack) \in Nat /\ rsp_stack \in Seq(Nat) /\ pc \in Nat
        /\ calls \in Seq([base : Nat, rsp : Nat])
    BY DEF MachineTyped
  <2>4. Top(rsp_stack) \in Nat BY <2>1, <2>3 DEF Top
  <2>5. Len(Ins.rets) \in Nat BY <2>2
  <2>6. Len(stack) >= Len(Ins.rets) /\ Top(rsp_stack) >= Ins.nargs /\ Top(rsp_stack) <= Len(stack)
    BY <2>1, <2>2, <2>3, <2>4, <2>5
  <2>7. Unwound(Ins.nargs) \in Seq(Cells) BY <2>1, <2>2, <2>6, UnwoundIsCells
  <2>8. Results \in Seq(Cells) BY <2>2, <2>6, SeqIsSeq, ResultsAreCells
  <2>9. stack' \in Seq(Cells) BY <2>1, <2>7, <2>8, ConcatProperties
  <2>10. rsp_stack' \in Seq(Nat)
    <3>1. Len(rsp_stack) >= 1 BY <2>1, <2>3
    <3> QED BY <2>1, <2>3, <3>1, DropOne DEF Restored
  <2>11. Places' = Places /\ Cells' = Cells BY SameVariables DEF Cells, CellKinds, Kinds
  <2> QED BY <2>1, <2>3, <2>9, <2>10, <2>11 DEF MachineTyped
<1> QED BY <1>2, <1>3

LEMMA TypedRet == ASSUME TypedCode, MachineTyped, prog' = prog, Ret PROVE MachineTyped'
<1>1. IsInstruction(Ins, Variables) /\ Ins.op = "ret" /\ machine = "running"
  BY InstructionRuns DEF Ret
<1>2. CASE Fault BY <1>1, <1>2, MachineFaults
<1>3. CASE ~Fault
  <2>1. /\ rsp_stack # <<>> /\ ~(Len(stack) < Len(Ins.rets))
        /\ ~(Top(rsp_stack) < Ins.nargs + 1) /\ ~(Top(rsp_stack) > Len(stack)) /\ ~(Len(calls) < 2)
        /\ stack' = Unwound(Ins.nargs + 1) \o Results /\ rsp_stack' = Restored
        /\ pc' = stack[Top(rsp_stack)].value /\ calls' = Drop(calls, 1)
        /\ mem' = (IF Ins.main THEN [mem EXCEPT !.ret_code = Top(Results).value] ELSE mem)
        /\ machine' = machine
    BY <1>3 DEF Ret
  <2>2. Ins.nargs \in Nat /\ Ins.rets \in Seq(Kinds) /\ (Ins.main => Ins.rets # <<>>)
    BY <1>1 DEF IsInstruction
  <2>3. /\ stack \in Seq(Cells) /\ Len(stack) \in Nat /\ rsp_stack \in Seq(Nat)
        /\ calls \in Seq([base : Nat, rsp : Nat]) /\ Len(calls) \in Nat
        /\ DOMAIN mem = Places /\ \A x \in Places : mem[x] \in Nat
    BY <1>1 DEF MachineTyped
  <2>4. Top(rsp_stack) \in Nat BY <2>1, <2>3 DEF Top
  <2>5. Len(Ins.rets) \in Nat BY <2>2
  <2>6. /\ Len(stack) >= Len(Ins.rets) /\ Top(rsp_stack) >= Ins.nargs + 1 /\ Top(rsp_stack) <= Len(stack)
        /\ Ins.nargs + 1 \in Nat
    <3>1. Ins.nargs + 1 \in Nat BY <2>2
    <3>2. Len(stack) >= Len(Ins.rets) BY <2>1, <2>3, <2>5, NotLess
    <3>3. Top(rsp_stack) >= Ins.nargs + 1 BY <2>1, <2>4, <3>1, NotLess
    <3>4. Top(rsp_stack) <= Len(stack) BY <2>1, <2>3, <2>4, NotLess
    <3> QED BY <3>1, <3>2, <3>3, <3>4
  <2>7. Unwound(Ins.nargs + 1) \in Seq(Cells) BY <2>1, <2>6, UnwoundIsCells
  <2>8. Results \in Seq(Cells) /\ Len(Results) = Len(Ins.rets) BY <2>2, <2>6, SeqIsSeq, ResultsAreCells
  <2>9. stack' \in Seq(Cells) BY <2>1, <2>7, <2>8, ConcatProperties
  <2>10. rsp_stack' \in Seq(Nat)
    <3>1. Len(rsp_stack) >= 1 BY <2>1, <2>3
    <3> QED BY <2>1, <2>3, <3>1, DropOne DEF Restored
  <2>11. calls' \in Seq([base : Nat, rsp : Nat])
    <3>1. Len(calls) >= 1 BY <2>1, <2>3
    <3> QED BY <2>1, <2>3, <3>1, DropOne
  <2>12. pc' \in Nat
    <3>1. Top(rsp_stack) \in DOMAIN stack
      <4>1. Top(rsp_stack) \in 1 .. Len(stack) BY <2>2, <2>3, <2>4, <2>6
      <4> QED BY <2>3, <4>1
    <3> QED BY <2>1, <3>1, CellOfStack
  <2>13. DOMAIN mem' = Places /\ \A x \in Places : mem'[x] \in Nat
    <3>1. CASE Ins.main
      <4>1. Top(Results).value \in Nat
        <5>1. Len(Results) >= 1 BY <2>2, <2>5, <2>8, <3>1
        <5>2. Len(Results) \in 1 .. Len(Results) BY <2>5, <2>8, <5>1
        <5>3. Results[Len(Results)] \in Cells BY <2>8, <5>2, ElementOfSeq
        <5> QED BY <5>3 DEF Top, Cells
      <4>2. PICK v : v = Top(Results).value OBVIOUS
      <4>3. v \in Nat /\ mem' = [mem EXCEPT !["ret_code"] = v] BY <2>1, <3>1, <4>1, <4>2
      <4> QED BY <2>3, <4>3
    <3>2. CASE ~Ins.main BY <2>1, <2>3, <3>2
    <3> QED BY <3>1, <3>2
  <2>14. Places' = Places /\ Cells' = Cells BY SameVariables DEF Cells, CellKinds, Kinds
  <2> QED BY <2>1, <2>9, <2>10, <2>11, <2>12, <2>13, <2>14 DEF MachineTyped
<1> QED BY <1>2, <1>3

LEMMA TypedExit == ASSUME MachineTyped, prog' = prog, Exit PROVE MachineTyped'
<1>1. Places' = Places BY SameVariables
<1>2. machine = "running" BY DEF Exit, Running
<1> QED BY <1>1, <1>2 DEF MachineTyped, Exit

LEMMA TypedExecute == ASSUME TypedCode, MachineTyped, prog' = prog, Execute PROVE MachineTyped'
BY TypedPushes, TypedOperators, TypedCopies, TypedFfi, TypedStore, TypedJumps, TypedMachineCall, TypedLeave,
   TypedRet, TypedExit DEF Execute

LEMMA TypedLoad == ASSUME CompilerShape, TypedCode, MachineTyped, Load PROVE MachineTyped'
<1>1. /\ prog' = prog /\ machine' = "running" /\ pc' \in DOMAIN code
      /\ stack' = stack /\ rsp_stack' = rsp_stack /\ calls' = <<[base |-> 0, rsp |-> 0]>>
      /\ mem' = [x \in Places |-> IF x = "ret_code" THEN 0 ELSE Wrap(prog.vars[x].value)]
  BY DEF Load, codegenVars, Places, Variables
<1>2. IsSeq(code) BY ShapeFacts
<1>3. pc' \in Nat
  <2>1. DOMAIN code = 1 .. Len(code) /\ Len(code) \in Nat BY <1>2, IsSeqProperties
  <2> QED BY <1>1, <2>1
<1>4. calls' \in Seq([base : Nat, rsp : Nat])
  <2>1. [base |-> 0, rsp |-> 0] \in [base : Nat, rsp : Nat] OBVIOUS
  <2> QED BY <1>1, <2>1
<1>5. \A x \in Places : (IF x = "ret_code" THEN 0 ELSE Wrap(prog.vars[x].value)) \in Nat
  BY DataValues DEF Places, Variables
<1>6. DOMAIN mem' = Places /\ \A x \in Places : mem'[x] \in Nat BY <1>1, <1>5
<1>7. Places' = Places /\ Cells' = Cells BY <1>1, SameVariables DEF Cells, CellKinds, Kinds
<1>8. stack' \in Seq(Cells) /\ rsp_stack' \in Seq(Nat) BY <1>1 DEF MachineTyped
<1> QED BY <1>1, <1>3, <1>4, <1>6, <1>7, <1>8 DEF MachineTyped

-----------------------------------------------------------------------------
(* The state is made of what the C program and the processor can hold.        *)
TypesInductive == CompilerShape /\ MainFound /\ TypedCode /\ MachineTyped

LEMMA TypesAtFirst == ASSUME Init PROVE TypesInductive
<1>1. CompilerShape BY ShapeAtFirst
<1>2. MainFound BY DEF Init, CodegenInit, MainFound
<1>3. TypedCode
  <2>1. AreViews(<<>>, Variables) BY NoViews
  <2> QED BY <2>1 DEF Init, CodegenInit, TypedCode
<1>4. MachineTyped
  <2>1. <<>> \in Seq(Nat) /\ <<>> \in Seq(Cells) /\ <<>> \in Seq([base : Nat, rsp : Nat]) OBVIOUS
  <2> QED BY <2>1 DEF Init, MachineInit, MachineTyped
<1> QED BY <1>1, <1>2, <1>3, <1>4 DEF TypesInductive

LEMMA TypesStep == ASSUME TypesInductive, [Next]_vars PROVE TypesInductive'
<1>1. CompilerShape /\ MainFound /\ TypedCode /\ MachineTyped BY DEF TypesInductive
<1>2. CompilerShape' BY <1>1, ShapeStep
<1>3. CASE Compiles
  <2>1. Compile /\ UNCHANGED machineVars BY <1>3 DEF Compiles
  <2>2. prog' = prog
    <3>1. FillMaps => prog' = prog BY DEF FillMaps, Reject, Stop
    <3> QED BY <1>1, <2>1, <3>1, ValuesGrow
  <2>3. MainFound' /\ TypedCode' BY <1>1, <2>1, MainStaysFound, CompileKeepsTypes
  <2>4. MachineTyped' BY <1>1, <2>1, <2>2, MachineStays
  <2> QED BY <1>2, <2>3, <2>4 DEF TypesInductive
<1>4. CASE UNCHANGED codegenVars
  <2>1. prog' = prog /\ code' = code /\ phase' = phase /\ values_map' = values_map
    BY <1>4 DEF codegenVars, maps
  <2>2. MainFound' /\ TypedCode' BY <1>1, <2>1, SameMainFound, CodeStaysTyped
  <2>3. MachineTyped'
    <3>1. CASE Load BY <1>1, <3>1, TypedLoad
    <3>2. CASE Executes BY <1>1, <2>1, <3>2, TypedExecute DEF Executes
    <3>3. CASE End \/ UNCHANGED vars
      <4>1. UNCHANGED machineVars BY <3>3 DEF End, vars
      <4> QED BY <1>1, <2>1, <4>1, MachineStays
    <3>4. CASE Compiles
      <4>1. UNCHANGED machineVars BY <3>4 DEF Compiles
      <4> QED BY <1>1, <2>1, <4>1, MachineStays
    <3> QED BY <3>1, <3>2, <3>3, <3>4 DEF Next
  <2> QED BY <1>2, <2>2, <2>3 DEF TypesInductive
<1>5. Load \/ Executes \/ End \/ UNCHANGED vars => UNCHANGED codegenVars
  BY DEF Load, Executes, End, vars
<1> QED BY <1>3, <1>4, <1>5 DEF Next

LEMMA TypesAreOK == ASSUME TypesInductive PROVE TypeOK
<1>1. CompilerShape /\ TypedCode /\ MachineTyped BY DEF TypesInductive
<1>2. phase \in {"fill", "main", "routines"} \union Halted /\ cursor \in Nat
  BY <1>1 DEF CompilerShape, Progress
<1>3. \A c \in {proc_ctx, func_ctx} : c.types \in Seq(Kinds) /\ ~c.called_funcptr
  <2>1. IsContext(proc_ctx) /\ IsContext(func_ctx) BY <1>1, ShapeFacts DEF Contexts
  <2> QED BY <2>1 DEF IsContext
<1>4. IsSeq(code) /\ \A i \in 1 .. Len(code) : IsView(code[i], Variables)
  BY <1>1 DEF TypedCode, AreViews
<1>5. DOMAIN code = 1 .. Len(code) /\ Len(code) \in Nat BY <1>4, IsSeqProperties
<1>6. DOMAIN code \subseteq Nat BY <1>5
<1>7. \A i \in DOMAIN code : WellFormed(i) BY <1>4, <1>5, ViewIsWellFormed
<1>8. machine \in {"off", "running", "exited", "fault"} /\ pc \in Int /\ rsp_stack \in Seq(Nat)
  BY <1>1 DEF MachineTyped
<1>9. \A i \in DOMAIN stack : stack[i].kind \in CellKinds /\ stack[i].value \in Nat BY <1>1, CellOfStack
<1>10. \A i \in DOMAIN calls : calls[i].base \in Nat /\ calls[i].rsp \in Nat
  <2>1. calls \in Seq([base : Nat, rsp : Nat]) BY <1>1 DEF MachineTyped
  <2>2. \A i \in DOMAIN calls : calls[i] \in [base : Nat, rsp : Nat]
    <3>1. TAKE i \in DOMAIN calls
    <3> QED BY <2>1, <3>1, ElementOfSeq, LenProperties
  <2> QED BY <2>2
<1> QED BY <1>2, <1>3, <1>6, <1>7, <1>8, <1>9, <1>10 DEF TypeOK

(* For every program, whatever constructs it uses: each instruction the       *)
(* compiler writes has operands of the processor's sorts, and the machine     *)
(* keeps words on its stack, depths on rsp_stack and positions in pc, for     *)
(* certified code and for code that is not.                                   *)
THEOREM TypeOKHolds == Spec => []TypeOK
<1>1. Init => TypesInductive BY TypesAtFirst
<1>2. TypesInductive /\ [Next]_vars => TypesInductive' BY TypesStep
<1>3. TypesInductive => TypeOK BY TypesAreOK
<1> QED BY <1>1, <1>2, <1>3, PTL DEF Spec
=============================================================================
