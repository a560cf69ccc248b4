----------------------------- MODULE MemoryProof -----------------------------
(* For every size of the arenas, every vector, value and word and any number  *)
(* of calls: what the two arenas hand out lies in them and never overlaps,    *)
(* and the vectors and strings that live there are the sequences of Store.    *)
EXTENDS Memory, SequenceTheorems, TLAPS

-----------------------------------------------------------------------------
(* A memory holds naturals, and what the operations make of one is one.       *)

(* What is read is a natural, written or not.                                 *)
LEMMA ReadNat ==
    ASSUME NEW m, IsMemory(m), NEW p, NEW a
    PROVE  Read(m, p, a) \in Nat
BY DEF IsMemory, Read

LEMMA OverMemory ==
    ASSUME NEW f, IsMemory(f), NEW m, IsMemory(m)
    PROVE  IsMemory(Over(f, m))
BY DEF IsMemory, Over

LEMMA WriteMemory ==
    ASSUME NEW m, IsMemory(m), NEW a, NEW x \in Nat
    PROVE  IsMemory(Write(m, a, x))
<1>1. IsMemory([p \in {<<arena.ptr, a>>} |-> x])
  BY DEF IsMemory
<1>. QED
  BY <1>1, OverMemory DEF Write

LEMMA CopiedMemory ==
    ASSUME NEW m, IsMemory(m), NEW from \in Int, NEW to \in Int, NEW n \in Nat
    PROVE  IsMemory(Copied(m, from, to, n))
<1>. DEFINE places == {<<arena.ptr, to + k>> :
                          k \in {j \in 0 .. n - 1 : <<arena.ptr, from + j>> \in DOMAIN m}}
            moved == [p \in places |-> m[<<arena.ptr, p[2] - to + from>>]]
<1>1. ASSUME NEW p \in places
      PROVE  <<arena.ptr, p[2] - to + from>> \in DOMAIN m
  <2>1. PICK k \in 0 .. n - 1 : p = <<arena.ptr, to + k>> /\ <<arena.ptr, from + k>> \in DOMAIN m
    OBVIOUS
  <2>2. p[2] - to + from = from + k
    BY <2>1
  <2>. QED
    BY <2>1, <2>2
<1>2. IsMemory(moved)
  BY <1>1 DEF IsMemory
<1>. QED
  BY <1>2, OverMemory DEF Copied

(* expand_ leaves a memory, and what it allocates is no negative amount.      *)
LEMMA CapacityBytes ==
    ASSUME NEW v \in Vecs, NEW n \in Nat
    PROVE  ElemSize[v] * n + HEADER \in Nat /\ BytesFor(v, n) \in Nat
<1>1. ElemSize[v] \in {4, 8}
  BY MemoryAssumption
<1>2. ElemSize[v] * n + HEADER \in Nat
  BY <1>1 DEF HEADER
<1>. QED
  BY <1>2 DEF BytesFor, Rounded

LEMMA CountedUpMemory ==
    ASSUME NEW m, IsMemory(m), NEW a \in Nat
    PROVE  IsMemory(CountedUp(m, a)) /\ Size(m, a) \in Nat
<1>1. Size(m, a) \in Nat
  BY ReadNat DEF Size
<1>. QED
  BY <1>1, WriteMemory DEF CountedUp

LEMMA ExpandedProperties ==
    ASSUME TypeOK, NEW v \in Vecs
    PROVE  /\ Expanded(v).need \in Nat /\ Expanded(v).at \in Nat
           /\ IsMemory(Expanded(v).mem)
<1>1. Fresh \in Nat /\ vecs[v] \in Nat /\ IsMemory(mem)
  BY DEF TypeOK, Fresh, HEADER
<1>2. Capacity(mem, vecs[v]) \in Nat /\ INITIAL_CAPACITY \in Nat
  BY <1>1, ReadNat, MemoryAssumption DEF Capacity
<1>3. BytesFor(v, INITIAL_CAPACITY) \in Nat /\ BytesFor(v, 2 * Capacity(mem, vecs[v])) \in Nat
  BY <1>2, CapacityBytes
<1>4. IsMemory(CountedUp(Write(mem, CapacityAt(Fresh), INITIAL_CAPACITY), Fresh))
  BY <1>1, <1>2, WriteMemory, CountedUpMemory
<1>5. IsMemory(CountedUp(DoubleCapacity(Moved(v), Fresh), Fresh))
  <2>1. /\ vecs[v] - HEADER \in Int /\ Fresh - HEADER \in Int
        /\ ElemSize[v] * Capacity(mem, vecs[v]) + HEADER \in Nat
    BY <1>1, <1>2, CapacityBytes DEF HEADER
  <2>2. IsMemory(Moved(v))
    BY <1>1, <2>1, CopiedMemory DEF Moved
  <2>3. 2 * Capacity(Moved(v), Fresh) \in Nat
    BY <2>2, ReadNat DEF Capacity
  <2>4. IsMemory(DoubleCapacity(Moved(v), Fresh))
    BY <2>2, <2>3, WriteMemory DEF DoubleCapacity
  <2>. QED
    BY <1>1, <2>4, CountedUpMemory
<1>6. IsMemory(CountedUp(mem, vecs[v]))
  BY <1>1, CountedUpMemory
<1>. QED
  BY <1>1, <1>3, <1>4, <1>5, <1>6 DEF Expanded

LEMMA MovedUpMemory ==
    ASSUME NEW m, IsMemory(m), NEW v, NEW a, NEW at, NEW x \in Nat
    PROVE  IsMemory(MovedUp(m, v, a, at, x))
<1>. DEFINE places == {<<arena.ptr, ElemAt(v, a, i)>> : i \in at .. Size(m, a) - 1}
            moved == [p \in places |-> IF p[2] = ElemAt(v, a, at) THEN x
                                       ELSE Read(m, arena.ptr, p[2] - ElemSize[v])]
<1>1. IsMemory(moved)
  BY ReadNat DEF IsMemory
<1>. QED
  BY <1>1, OverMemory DEF MovedUp

LEMMA ShrunkMemory ==
    ASSUME TypeOK, NEW v \in Vecs, Size(mem, vecs[v]) > 0
    PROVE  IsMemory(Shrunk(mem, v))
<1>1. IsMemory(mem) /\ Size(mem, vecs[v]) \in Nat
  BY ReadNat DEF TypeOK, Size
<1>. QED
  BY <1>1, WriteMemory DEF Shrunk

LEMMA CharactersMemory ==
    ASSUME NEW s \in Seq(Nat), NEW at \in Nat
    PROVE  IsMemory(Characters(at, s))
<1>. DEFINE places == {<<char_arena.ptr, at + k>> : k \in 0 .. Len(s) - 1}
<1>1. ASSUME NEW p \in places
      PROVE  s[p[2] - at + 1] \in Nat
  <2>1. PICK k \in 0 .. Len(s) - 1 : p = <<char_arena.ptr, at + k>>
    OBVIOUS
  <2>2. p[2] - at + 1 \in 1 .. Len(s)
    BY <2>1
  <2>. QED
    BY <2>2
<1>. QED
  BY <1>1 DEF IsMemory, Characters

-----------------------------------------------------------------------------
(* The arenas.                                                                *)

(* A block that is cut off above what an arena has allocated lies in it, and  *)
(* apart from all that were cut off before.                                   *)
LEMMA NewBlock ==
    ASSUME Arenas, NEW vmem \in {arena, char_arena}, vmem.ptr # NULL,
           NEW n \in Nat \ {0}, Room(vmem, n),
           arena' = IF vmem = arena THEN Bumped(arena, n) ELSE arena,
           char_arena' = IF vmem = arena THEN char_arena ELSE Bumped(char_arena, n),
           blocks' = blocks \union {Block(vmem, n)}
    PROVE  /\ arena' \in [ptr : {NULL, 1}, allocated : Nat, size : Nat]
           /\ char_arena' \in [ptr : {NULL, 2}, allocated : Nat, size : Nat]
           /\ arena'.ptr = arena.ptr /\ char_arena'.ptr = char_arena.ptr
           /\ blocks' \subseteq [ptr : {1, 2}, from : Nat, len : Nat \ {0}, nth : Nat]
           /\ \A b \in blocks' : LiesBelow(b)' /\ \A c \in blocks' : b = c \/ Apart(b, c)
<1>. DEFINE new == Block(vmem, n)
<1>1. TypeOK
  BY DEF Arenas
<1>2. /\ arena \in [ptr : {NULL, 1}, allocated : Nat, size : Nat]
      /\ char_arena \in [ptr : {NULL, 2}, allocated : Nat, size : Nat]
      /\ blocks \subseteq [ptr : {1, 2}, from : Nat, len : Nat \ {0}, nth : Nat]
      /\ allocations_done \in Nat
  BY <1>1 DEF TypeOK
<1>3. /\ new \in [ptr : {1, 2}, from : Nat, len : Nat \ {0}, nth : Nat]
      /\ new.ptr = vmem.ptr /\ new.from = vmem.allocated /\ new.len = n
  BY <1>2 DEF Block, NULL
<1>4. /\ arena' \in [ptr : {NULL, 1}, allocated : Nat, size : Nat]
      /\ char_arena' \in [ptr : {NULL, 2}, allocated : Nat, size : Nat]
      /\ arena'.ptr = arena.ptr /\ char_arena'.ptr = char_arena.ptr
      /\ arena'.size = arena.size /\ char_arena'.size = char_arena.size
      /\ vmem = arena => arena'.allocated = arena.allocated + n /\ char_arena' = char_arena
      /\ vmem # arena => char_arena'.allocated = char_arena.allocated + n /\ arena' = arena
  BY <1>2 DEF Bumped
<1>5. ASSUME NEW b \in blocks
      PROVE  LiesBelow(b)' /\ Apart(b, new) /\ Apart(new, b)
  <2>1. LiesBelow(b) /\ b \in [ptr : {1, 2}, from : Nat, len : Nat \ {0}, nth : Nat]
    BY <1>2 DEF Arenas
  <2>2. CASE vmem = arena
    <3>1. vmem.size > vmem.allocated + n
      BY DEF Room
    <3>. QED
      BY <1>2, <1>3, <1>4, <2>1, <2>2, <3>1 DEF LiesBelow, VmemOf, Apart, NULL
  <2>3. CASE vmem # arena
    <3>1. vmem.size > vmem.allocated + n
      BY DEF Room
    <3>. QED
      BY <1>2, <1>3, <1>4, <2>1, <2>3, <3>1 DEF LiesBelow, VmemOf, Apart, NULL
  <2>. QED
    BY <2>2, <2>3
<1>6. ASSUME NEW b, b = new
      PROVE  LiesBelow(b)'
  <2>1. vmem.size > vmem.allocated + n
    BY DEF Room
  <2>. QED
    BY <1>2, <1>3, <1>4, <1>6, <2>1 DEF LiesBelow, VmemOf, NULL
<1>7. \A b, c \in blocks : b = c \/ Apart(b, c)
  BY DEF Arenas
<1>8. blocks' = blocks \union {new}
  OBVIOUS
<1>. HIDE DEF new
<1>. QED
  BY <1>2, <1>3, <1>4, <1>5, <1>6, <1>7, <1>8

(* What touches neither arena keeps all that is said of the blocks.           *)
LEMMA ArenasAlone ==
    ASSUME Arenas, UNCHANGED <<arena, char_arena, blocks, allocations_done>>,
           stage' = stage \/ stage' = "crashed",
           IsMemory(mem'), vecs' \in [Vecs -> Nat], scratch' \in Seq(Nat)
    PROVE  Arenas'
BY DEF Arenas, TypeOK, LiesBelow, VmemOf

LEMMA StopKeeps ==
    ASSUME Arenas, Stop("crashed")
    PROVE  Arenas'
BY ArenasAlone DEF Stop, Arenas, TypeOK

LEMMA ArenasStart == Init => Arenas
<1>. SUFFICES ASSUME Init
              PROVE  Arenas
  OBVIOUS
<1>1. IsMemory(mem) /\ vecs \in [Vecs -> Nat] /\ scratch \in Seq(Nat)
  BY DEF Init, IsMemory, NULL
<1>2. Released \in [ptr : {NULL, 1}, allocated : Nat, size : Nat]
  BY DEF Released, NULL
<1>3. Released \in [ptr : {NULL, 2}, allocated : Nat, size : Nat]
  BY DEF Released, NULL
<1>. QED
  BY <1>1, <1>2, <1>3 DEF Init, Arenas, TypeOK

LEMMA MappedSizes ==
    ASSUME NEW ptr, NEW mb \in Nat, NEW a \in Mapped(ptr, MB * Clamped(mb))
    PROVE  a.ptr = ptr /\ a.allocated = 0 /\ a.size \in Nat /\ a = [ptr |-> ptr, allocated |-> 0, size |-> a.size]
<1>1. MB \in Nat /\ Clamped(mb) \in Nat
  BY MemoryAssumption DEF Clamped
<1>. DEFINE size == MB * Clamped(mb)
<1>2. size \in Nat
  BY <1>1
<1>. HIDE DEF size
<1>3. PICK n \in {size, size \div 2, size \div 4, size \div 8, size \div 16} :
         a = [ptr |-> ptr, allocated |-> 0, size |-> n]
  BY DEF Mapped, size
<1>4. n \in Nat
  BY <1>2
<1>. QED
  BY <1>3, <1>4

LEMMA InitKeeps ==
    ASSUME Arenas, memory_init
    PROVE  Arenas'
<1>1. CASE Stop("crashed")
  BY <1>1, StopKeeps
<1>2. ASSUME NEW a \in Mapped(1, MB * Clamped(ARENA_MB)),
             NEW c \in Mapped(2, MB * Clamped(CHAR_ARENA_MB)),
             arena' = Bumped(a, 16), char_arena' = c, stage' = "running",
             allocations_done' = 0, UNCHANGED <<mem, vecs, scratch, copies, blocks>>
      PROVE  Arenas'
  <2>1. a.ptr = 1 /\ a.allocated = 0 /\ a.size \in Nat /\ a = [ptr |-> 1, allocated |-> 0, size |-> a.size]
    BY MappedSizes, MemoryAssumption
  <2>2. c.ptr = 2 /\ c.allocated = 0 /\ c.size \in Nat /\ c = [ptr |-> 2, allocated |-> 0, size |-> c.size]
    BY MappedSizes, MemoryAssumption
  <2>3. arena' \in [ptr : {NULL, 1}, allocated : Nat, size : Nat] /\ arena'.ptr = 1
    BY <1>2, <2>1 DEF Bumped
  <2>4. char_arena' \in [ptr : {NULL, 2}, allocated : Nat, size : Nat] /\ char_arena'.ptr = 2
    BY <1>2, <2>2
  <2>5. blocks' = {}
    BY <1>2 DEF memory_init, Arenas
  <2>. QED
    BY <1>2, <2>3, <2>4, <2>5 DEF Arenas, TypeOK
<1>. QED
  BY <1>1, <1>2 DEF memory_init

LEMMA ReleaseKeeps ==
    ASSUME Arenas, memory_release
    PROVE  Arenas'
<1>1. IsMemory(mem')
  BY DEF memory_release, IsMemory
<1>2. Released \in [ptr : {NULL, 1}, allocated : Nat, size : Nat]
  BY DEF Released, NULL
<1>3. Released \in [ptr : {NULL, 2}, allocated : Nat, size : Nat]
  BY DEF Released, NULL
<1>. QED
  BY <1>1, <1>2, <1>3 DEF memory_release, Arenas, TypeOK

LEMMA InsertKeeps ==
    ASSUME Arenas, NEW v \in Vecs, vec_insert_at(v)
    PROVE  Arenas'
<1>1. PICK x \in Values, at \in 0 .. Size(mem, vecs[v]) : InsertAt(v, at, x)
  BY DEF vec_insert_at
<1>. DEFINE e == Expanded(v)
<1>2. e.need \in Nat /\ e.at \in Nat /\ IsMemory(e.mem)
  BY ExpandedProperties DEF Arenas
<1>3. CASE Stop("crashed")
  BY <1>3, StopKeeps
<1>4. CASE ~Stop("crashed")
  <2>1. /\ mem' = MovedUp(e.mem, v, e.at, at, x)
        /\ vecs' = [vecs EXCEPT ![v] = e.at]
        /\ e.need = 0 => UNCHANGED <<arena, blocks, allocations_done>>
        /\ e.need # 0 => /\ Room(arena, e.need)
                         /\ arena' = Bumped(arena, e.need)
                         /\ blocks' = blocks \union {Block(arena, e.need)}
                         /\ allocations_done' = allocations_done + 1
        /\ UNCHANGED <<char_arena, scratch, copies, stage>>
        /\ stage = "running"
    <3>. HIDE DEF e
    <3>1. IF e.need > 0 /\ ~Room(arena, e.need) THEN Stop("crashed")
          ELSE /\ mem' = MovedUp(e.mem, v, e.at, at, x)
               /\ vecs' = [vecs EXCEPT ![v] = e.at]
               /\ IF e.need = 0 THEN UNCHANGED <<arena, blocks, allocations_done>>
                  ELSE /\ arena' = Bumped(arena, e.need)
                       /\ blocks' = blocks \union {Block(arena, e.need)}
                       /\ allocations_done' = allocations_done + 1
               /\ UNCHANGED <<char_arena, scratch, copies, stage>>
      BY <1>1 DEF InsertAt, e
    <3>. QED
      BY <1>1, <1>2, <1>4, <3>1 DEF InsertAt, Running
  <2>. HIDE DEF e
  <2>2. x \in Nat
    BY MemoryAssumption
  <2>3. IsMemory(mem')
    BY <1>2, <2>1, <2>2, MovedUpMemory
  <2>4. vecs' \in [Vecs -> Nat] /\ scratch' \in Seq(Nat)
    BY <1>2, <2>1 DEF Arenas, TypeOK
  <2>5. CASE e.need = 0
    BY <2>1, <2>3, <2>4, <2>5, ArenasAlone
  <2>6. CASE e.need # 0
    <3>1. arena.ptr # NULL /\ e.need \in Nat \ {0}
      BY <1>2, <2>1, <2>6 DEF Arenas, NULL
    <3>2. /\ arena' \in [ptr : {NULL, 1}, allocated : Nat, size : Nat]
          /\ char_arena' \in [ptr : {NULL, 2}, allocated : Nat, size : Nat]
          /\ arena'.ptr = arena.ptr /\ char_arena'.ptr = char_arena.ptr
          /\ blocks' \subseteq [ptr : {1, 2}, from : Nat, len : Nat \ {0}, nth : Nat]
          /\ \A b \in blocks' : LiesBelow(b)' /\ \A c \in blocks' : b = c \/ Apart(b, c)
      BY <2>1, <2>6, <3>1, NewBlock
    <3>. QED
      BY <2>1, <2>3, <2>4, <2>6, <3>2 DEF Arenas, TypeOK, Apart
  <2>. QED
    BY <2>5, <2>6
<1>. QED
  BY <1>3, <1>4

LEMMA PopKeeps ==
    ASSUME Arenas, NEW v \in Vecs, vec_pop(v)
    PROVE  Arenas'
<1>1. IsMemory(mem')
  BY ShrunkMemory DEF vec_pop, Arenas
<1>. QED
  BY <1>1, ArenasAlone DEF vec_pop, Arenas, TypeOK

LEMMA AppendKeeps ==
    ASSUME Arenas, NEW w \in Words, scratch_buffer_append(w)
    PROVE  Arenas'
<1>1. CASE Stop("crashed")
  BY <1>1, StopKeeps
<1>2. CASE /\ scratch' = scratch \o w
           /\ UNCHANGED <<arena, char_arena, mem, vecs, copies, blocks, allocations_done, stage>>
  <2>1. w \in Seq(Nat) /\ scratch \in Seq(Nat)
    BY MemoryAssumption DEF Arenas, TypeOK
  <2>2. scratch' \in Seq(Nat)
    BY <1>2, <2>1
  <2>. QED
    BY <1>2, <2>2, ArenasAlone DEF Arenas, TypeOK
<1>. QED
  BY <1>1, <1>2 DEF scratch_buffer_append

LEMMA TruncateKeeps ==
    ASSUME Arenas, NEW s \in Seq(Nat), Truncates(s)
    PROVE  Arenas'
BY ArenasAlone DEF Truncates, Arenas, TypeOK

LEMMA DropLastKeeps ==
    ASSUME Arenas, DropLast
    PROVE  Arenas'
<1>1. CASE scratch = <<>>
  BY <1>1, StopKeeps DEF DropLast
<1>2. CASE scratch # <<>>
  <2>1. Front(scratch) \in Seq(Nat)
    BY <1>2 DEF Arenas, TypeOK, Front
  <2>. QED
    BY <1>2, <2>1, TruncateKeeps DEF DropLast
<1>. QED
  BY <1>1, <1>2

LEMMA CopyKeeps ==
    ASSUME Arenas, scratch_buffer_copy
    PROVE  Arenas'
<1>. DEFINE n == StringBytes(Len(scratch))
<1>1. CASE Stop("crashed")
  BY <1>1, StopKeeps
<1>2. CASE ~Stop("crashed")
  <2>1. n \in Nat \ {0}
    BY DEF Arenas, TypeOK, StringBytes
  <2>. HIDE DEF n
  <2>2. IF n = 0 \/ ~Room(char_arena, n) THEN Stop("crashed")
        ELSE /\ mem' = Over(Characters(char_arena.allocated, scratch), mem)
             /\ copies' = Append(copies, <<char_arena.ptr, char_arena.allocated>>)
             /\ char_arena' = Bumped(char_arena, n)
             /\ blocks' = blocks \union {Block(char_arena, n)}
             /\ allocations_done' = allocations_done + 1
             /\ UNCHANGED <<arena, vecs, scratch, stage>>
    BY DEF scratch_buffer_copy, n
  <2>3. /\ Room(char_arena, n) /\ stage = "running"
        /\ mem' = Over(Characters(char_arena.allocated, scratch), mem)
        /\ char_arena' = Bumped(char_arena, n)
        /\ blocks' = blocks \union {Block(char_arena, n)}
        /\ allocations_done' = allocations_done + 1
        /\ UNCHANGED <<arena, vecs, scratch, stage>>
    BY <1>2, <2>1, <2>2 DEF scratch_buffer_copy, Running
  <2>4. char_arena.ptr = 2 /\ arena.ptr = 1 /\ char_arena # arena
    BY <2>3 DEF Arenas
  <2>5. /\ arena' \in [ptr : {NULL, 1}, allocated : Nat, size : Nat]
        /\ char_arena' \in [ptr : {NULL, 2}, allocated : Nat, size : Nat]
        /\ arena'.ptr = arena.ptr /\ char_arena'.ptr = char_arena.ptr
        /\ blocks' \subseteq [ptr : {1, 2}, from : Nat, len : Nat \ {0}, nth : Nat]
        /\ \A b \in blocks' : LiesBelow(b)' /\ \A c \in blocks' : b = c \/ Apart(b, c)
    BY <2>1, <2>3, <2>4, NewBlock DEF NULL
  <2>6. IsMemory(Characters(char_arena.allocated, scratch)) /\ IsMemory(mem)
    BY CharactersMemory DEF Arenas, TypeOK
  <2>7. IsMemory(mem')
    BY <2>3, <2>6, OverMemory
  <2>. QED
    BY <2>3, <2>5, <2>7 DEF Arenas, TypeOK, Apart
<1>. QED
  BY <1>1, <1>2

-----------------------------------------------------------------------------
(* What is read from what was written.                                        *)

LEMMA ReadOver ==
    ASSUME NEW f, NEW m
    PROVE  /\ \A p, a : Read(Over(f, m), p, a) =
                            IF <<p, a>> \in DOMAIN f THEN f[<<p, a>>] ELSE Read(m, p, a)
           /\ DOMAIN Over(f, m) = DOMAIN f \union DOMAIN m
BY DEF Read, Over

Wrote(n, m, b, x) ==
    /\ Read(n, arena.ptr, b) = x
    /\ \A p, a : (p # arena.ptr \/ a # b) => Read(n, p, a) = Read(m, p, a)
    /\ DOMAIN n = DOMAIN m \union {<<arena.ptr, b>>}

LEMMA ReadWrite ==
    ASSUME NEW m, NEW b, NEW x, NEW n, n = Write(m, b, x)
    PROVE  Wrote(n, m, b, x)
<1>1. PICK f : f = [p \in {<<arena.ptr, b>>} |-> x]
  OBVIOUS
<1>2. /\ \A p, a : Read(Over(f, m), p, a) =
                       IF <<p, a>> \in DOMAIN f THEN f[<<p, a>>] ELSE Read(m, p, a)
      /\ DOMAIN Over(f, m) = DOMAIN f \union DOMAIN m
  BY ReadOver
<1>3. DOMAIN f = {<<arena.ptr, b>>} /\ f[<<arena.ptr, b>>] = x
  BY <1>1
<1>4. n = Over(f, m)
  BY <1>1 DEF Write
<1>. QED
  BY <1>2, <1>3, <1>4 DEF Wrote

(* memcpy to bytes nobody has written: they read as what was copied.          *)
HasCopied(c, m, from, to, n) ==
    /\ \A k \in 0 .. n - 1 : Read(c, arena.ptr, to + k) = Read(m, arena.ptr, from + k)
    /\ \A p, a : (p # arena.ptr \/ a \notin to .. to + n - 1) => Read(c, p, a) = Read(m, p, a)
    /\ DOMAIN c \subseteq DOMAIN m \union ({arena.ptr} \X (to .. to + n - 1))

LEMMA ReadCopied ==
    ASSUME NEW m, NEW from \in Int, NEW to \in Int, NEW n \in Nat,
           \A k \in 0 .. n - 1 : <<arena.ptr, to + k>> \notin DOMAIN m,
           NEW c, c = Copied(m, from, to, n)
    PROVE  HasCopied(c, m, from, to, n)
<1>. DEFINE written == {j \in 0 .. n - 1 : <<arena.ptr, from + j>> \in DOMAIN m}
            places == {<<arena.ptr, to + k>> : k \in written}
<1>1. PICK f : f = [p \in places |-> m[<<arena.ptr, p[2] - to + from>>]]
  OBVIOUS
<1>2. DOMAIN f = places /\ c = Over(f, m)
  BY <1>1 DEF Copied
<1>3. ASSUME NEW k \in written
      PROVE  <<arena.ptr, to + k>> \in DOMAIN f /\ f[<<arena.ptr, to + k>>] = m[<<arena.ptr, from + k>>]
  <2>1. <<arena.ptr, to + k>> \in places /\ k \in Int
    OBVIOUS
  <2>2. <<arena.ptr, to + k>>[2] - to + from = from + k
    BY <2>1
  <2>. QED
    BY <1>1, <1>2, <2>1, <2>2
<1>4. ASSUME NEW p, NEW a, <<p, a>> \in places
      PROVE  p = arena.ptr /\ a \in to .. to + n - 1 /\ a - to \in written
  <2>1. PICK k \in written : <<p, a>> = <<arena.ptr, to + k>>
    BY <1>4
  <2>2. k \in 0 .. n - 1 /\ p = arena.ptr /\ a = to + k
    BY <2>1
  <2>3. a - to = k /\ a \in to .. to + n - 1
    BY <2>2
  <2>. QED
    BY <2>1, <2>2, <2>3
<1>5. /\ \A p, a : Read(c, p, a) = IF <<p, a>> \in places THEN f[<<p, a>>] ELSE Read(m, p, a)
      /\ DOMAIN c = places \union DOMAIN m
  <2>. HIDE DEF places
  <2>1. /\ \A p, a : Read(Over(f, m), p, a) =
                         IF <<p, a>> \in DOMAIN f THEN f[<<p, a>>] ELSE Read(m, p, a)
        /\ DOMAIN Over(f, m) = DOMAIN f \union DOMAIN m
    BY ReadOver
  <2>. QED
    BY ONLY <1>2, <2>1
<1>6. ASSUME NEW k \in 0 .. n - 1
      PROVE  Read(c, arena.ptr, to + k) = Read(m, arena.ptr, from + k)
  <2>1. CASE k \in written
    <3>1. Read(c, arena.ptr, to + k) = m[<<arena.ptr, from + k>>]
      BY <1>2, <1>3, <1>5, <2>1
    <3>. QED
      BY <2>1, <3>1 DEF Read
  <2>2. CASE k \notin written
    <3>1. ASSUME NEW j \in written, <<arena.ptr, to + k>> = <<arena.ptr, to + j>>
          PROVE  FALSE
      <4>1. to + k = to + j /\ j \in 0 .. n - 1
        BY <3>1
      <4>2. k = j
        BY <4>1
      <4>. QED
        BY <2>2, <4>2
    <3>2. <<arena.ptr, to + k>> \notin places
      BY <3>1
    <3>. QED
      BY <1>5, <2>2, <3>2 DEF Read
  <2>. QED
    BY <2>1, <2>2
<1>7. DOMAIN c \subseteq DOMAIN m \union ({arena.ptr} \X (to .. to + n - 1))
  <2>1. ASSUME NEW q \in places
        PROVE  q \in {arena.ptr} \X (to .. to + n - 1)
    <3>1. PICK k \in written : q = <<arena.ptr, to + k>>
      OBVIOUS
    <3>2. to + k \in to .. to + n - 1
      OBVIOUS
    <3>. QED
      BY <3>1, <3>2
  <2>. QED
    BY <1>5, <2>1
<1>8. ASSUME NEW p, NEW a, p # arena.ptr \/ a \notin to .. to + n - 1
      PROVE  Read(c, p, a) = Read(m, p, a)
  BY <1>4, <1>5, <1>8
<1>. HIDE DEF written, places
<1>. QED
  BY <1>6, <1>7, <1>8 DEF HasCopied

-----------------------------------------------------------------------------
(* A vector in memory: its header, its elements, and the bytes it may use.    *)

Elem(m, v, a, i) == Read(m, arena.ptr, ElemAt(v, a, i))
BytesOf(v, a, c) == a - HEADER .. a + ElemSize[v] * c - 1
IsVector(m, a, s, c) == /\ a \in Nat /\ HEADER <= a /\ s \in Nat /\ c \in Nat \ {0} /\ s <= c
                        /\ Size(m, a) = s /\ Capacity(m, a) = c
OnlyIn(n, m, v, a, c) ==
    /\ \A p, b : (p # arena.ptr \/ b \notin BytesOf(v, a, c)) => Read(n, p, b) = Read(m, p, b)
    /\ DOMAIN n \subseteq DOMAIN m \union ({arena.ptr} \X BytesOf(v, a, c))

LEMMA OnlyInAgain ==
    ASSUME NEW m, NEW n, NEW o, NEW v, NEW a, NEW c, OnlyIn(n, m, v, a, c), OnlyIn(o, n, v, a, c)
    PROVE  OnlyIn(o, m, v, a, c)
BY DEF OnlyIn

(* The header and the elements are different bytes of the vector.             *)
LEMMA Addresses ==
    ASSUME NEW v \in Vecs, NEW a \in Nat, HEADER <= a, NEW c \in Nat \ {0}
    PROVE  /\ SizeAt(a) \in BytesOf(v, a, c) /\ CapacityAt(a) \in BytesOf(v, a, c)
           /\ SizeAt(a) # CapacityAt(a) /\ a # NULL
           /\ \A i \in 0 .. c - 1 :
                 /\ ElemAt(v, a, i) \in BytesOf(v, a, c) /\ ElemAt(v, a, i) \in Nat
                 /\ ElemAt(v, a, i) # SizeAt(a) /\ ElemAt(v, a, i) # CapacityAt(a)
                 /\ ElemAt(v, a, i) - ElemSize[v] = ElemAt(v, a, i - 1)
                 /\ \A j \in 0 .. c - 1 : ElemAt(v, a, i) = ElemAt(v, a, j) => i = j
<1>1. ElemSize[v] \in {4, 8}
  BY MemoryAssumption
<1>2. CASE ElemSize[v] = 4
  BY <1>2 DEF HEADER, NULL, SizeAt, CapacityAt, ElemAt, BytesOf
<1>3. CASE ElemSize[v] = 8
  BY <1>3 DEF HEADER, NULL, SizeAt, CapacityAt, ElemAt, BytesOf
<1>. QED
  BY <1>1, <1>2, <1>3

(* A vector that is there, and what has not been handed out.                  *)
LEMMA VectorThere ==
    ASSUME Inductive, stage = "running", NEW v \in Vecs
    PROVE  /\ arena.ptr = 1 /\ arena.allocated \in Nat /\ vecs[v] \in Nat /\ ElemSize[v] \in {4, 8}
           /\ Size(mem, vecs[v]) \in Nat
           /\ vecs[v] = NULL => Size(mem, vecs[v]) = 0
           /\ vecs[v] # NULL => /\ IsVector(mem, vecs[v], Size(mem, vecs[v]), Capacity(mem, vecs[v]))
                                /\ EndOf(v) <= arena.allocated
           /\ \A b : b >= arena.allocated => <<arena.ptr, b>> \notin DOMAIN mem
<1>1. /\ arena.ptr = 1 /\ arena.allocated \in Nat /\ vecs[v] \in Nat /\ IsMemory(mem)
      /\ VectorsPlaced /\ BelowIsWritten /\ ElemSize[v] \in {4, 8}
  BY MemoryAssumption DEF Inductive, Arenas, TypeOK, Layout
<1>2. Size(mem, vecs[v]) \in Nat /\ Capacity(mem, vecs[v]) \in Nat
  BY <1>1, ReadNat DEF Size, Capacity
<1>3. ASSUME NEW b, b >= arena.allocated, <<arena.ptr, b>> \in DOMAIN mem
      PROVE  FALSE
  <2>1. b \in 0 .. arena.allocated - 1
    BY <1>1, <1>3 DEF BelowIsWritten
  <2>. QED
    BY <1>1, <1>3, <2>1
<1>4. vecs[v] # NULL => Placed(v)
  BY <1>1 DEF VectorsPlaced
<1>. QED
  BY <1>1, <1>2, <1>3, <1>4 DEF Placed, IsVector, Size

(* expand_: the size goes up by one, and what was there is there, in the same *)
(* bytes or in bytes nobody has had before.                                   *)
LEMMA CountsUp ==
    ASSUME NEW v \in Vecs, NEW m, NEW a \in Nat, HEADER <= a, NEW c \in Nat \ {0}, NEW s \in Nat, s < c,
           Size(m, a) = s, Capacity(m, a) = c, NEW n, n = CountedUp(m, a)
    PROVE  /\ IsVector(n, a, s + 1, c) /\ OnlyIn(n, m, v, a, c)
           /\ \A i \in 0 .. c - 1 : Elem(n, v, a, i) = Elem(m, v, a, i)
<1>1. /\ SizeAt(a) \in BytesOf(v, a, c) /\ SizeAt(a) # CapacityAt(a) /\ a # NULL
      /\ \A i \in 0 .. c - 1 : ElemAt(v, a, i) # SizeAt(a)
  BY Addresses
<1>2. /\ Read(n, arena.ptr, SizeAt(a)) = s + 1
      /\ \A p, b : (p # arena.ptr \/ b # SizeAt(a)) => Read(n, p, b) = Read(m, p, b)
      /\ DOMAIN n = DOMAIN m \union {<<arena.ptr, SizeAt(a)>>}
  <2>1. n = Write(m, SizeAt(a), s + 1)
    BY DEF CountedUp
  <2>2. Wrote(n, m, SizeAt(a), s + 1)
    BY <2>1, ReadWrite
  <2>. QED
    BY <2>2 DEF Wrote
<1>3. IsVector(n, a, s + 1, c)
  BY <1>1, <1>2 DEF IsVector, Size, Capacity
<1>4. OnlyIn(n, m, v, a, c)
  BY <1>1, <1>2 DEF OnlyIn
<1>. QED
  BY <1>1, <1>2, <1>3, <1>4 DEF Elem

LEMMA RoundedUp == ASSUME NEW n \in Nat PROVE Rounded(n) \in Nat /\ n <= Rounded(n)
BY DEF Rounded

Expansion(v, e, s, c) ==
    /\ IsVector(e.mem, e.at, s + 1, c) /\ OnlyIn(e.mem, mem, v, e.at, c)
    /\ \A i \in 0 .. s - 1 : Elem(e.mem, v, e.at, i) = Elem(mem, v, vecs[v], i)
    /\ \/ e.need = 0 /\ vecs[v] # NULL /\ e.at = vecs[v] /\ c = Capacity(mem, vecs[v])
       \/ /\ e.need \in Nat \ {0} /\ e.at = arena.allocated + HEADER
          /\ e.at + ElemSize[v] * c <= arena.allocated + e.need

(* A block that is as large as BytesFor says has room for that capacity.      *)
LEMMA RoomFor ==
    ASSUME NEW v \in Vecs, NEW c \in Nat \ {0}, NEW allocated \in Nat
    PROVE  /\ BytesFor(v, c) \in Nat \ {0}
           /\ allocated + HEADER + ElemSize[v] * c <= allocated + BytesFor(v, c)
<1>1. PICK n : n = ElemSize[v] * c + HEADER
  OBVIOUS
<1>2. n \in Nat /\ n > 0
  <2>1. ElemSize[v] \in {4, 8}
    BY MemoryAssumption
  <2>. QED
    BY <1>1, <2>1 DEF HEADER
<1>3. Rounded(n) \in Nat /\ n <= Rounded(n)
  BY <1>2, RoundedUp
<1>4. ElemSize[v] * c = n - HEADER
  <2>1. ElemSize[v] \in {4, 8}
    BY MemoryAssumption
  <2>. QED
    BY <1>1, <2>1 DEF HEADER
<1>5. BytesFor(v, c) = Rounded(n)
  BY <1>1 DEF BytesFor
<1>. QED
  BY <1>2, <1>3, <1>4, <1>5 DEF HEADER

LEMMA ExpandsFirst ==
    ASSUME Inductive, stage = "running", NEW v \in Vecs, vecs[v] = NULL
    PROVE  Expansion(v, Expanded(v), 0, INITIAL_CAPACITY)
<1>1. PICK a, m, n, c : /\ a = Fresh /\ c = INITIAL_CAPACITY
                        /\ m = Write(mem, CapacityAt(a), c) /\ n = CountedUp(m, a)
  OBVIOUS
<1>2. /\ arena.ptr = 1 /\ arena.allocated \in Nat
      /\ \A b : b >= arena.allocated => <<arena.ptr, b>> \notin DOMAIN mem
  BY VectorThere
<1>3. c \in Nat \ {0} /\ a = arena.allocated + HEADER /\ a \in Nat /\ HEADER <= a
  BY <1>1, <1>2, MemoryAssumption DEF Fresh, HEADER
<1>4. SizeAt(a) # CapacityAt(a) /\ a # NULL /\ CapacityAt(a) \in BytesOf(v, a, c)
  BY <1>3, Addresses
<1>5. /\ Read(m, arena.ptr, CapacityAt(a)) = c
      /\ \A p, b : (p # arena.ptr \/ b # CapacityAt(a)) => Read(m, p, b) = Read(mem, p, b)
      /\ DOMAIN m = DOMAIN mem \union {<<arena.ptr, CapacityAt(a)>>}
  <2>1. Wrote(m, mem, CapacityAt(a), c)
    BY <1>1, ReadWrite
  <2>. QED
    BY <2>1 DEF Wrote
<1>6. Size(m, a) = 0 /\ Capacity(m, a) = c
  <2>1. SizeAt(a) = arena.allocated
    BY <1>2, <1>3 DEF SizeAt, HEADER
  <2>2. <<arena.ptr, SizeAt(a)>> \notin DOMAIN mem
    BY <1>2, <2>1
  <2>. QED
    BY <1>4, <1>5, <2>2 DEF Size, Capacity, Read
<1>7. OnlyIn(m, mem, v, a, c)
  BY <1>4, <1>5 DEF OnlyIn
<1>8. IsVector(n, a, 0 + 1, c) /\ OnlyIn(n, m, v, a, c)
  <2>1. 0 \in Nat /\ 0 < c
    BY <1>3
  <2>. QED
    BY <1>1, <1>3, <1>6, <2>1, CountsUp
<1>9. OnlyIn(n, mem, v, a, c)
  BY <1>7, <1>8, OnlyInAgain
<1>10. BytesFor(v, c) \in Nat \ {0} /\ a + ElemSize[v] * c <= arena.allocated + BytesFor(v, c)
  BY <1>2, <1>3, RoomFor
<1>11. Expanded(v) = [need |-> BytesFor(v, c), at |-> a, mem |-> n]
  BY <1>1 DEF Expanded
<1>12. PICK e : e = Expanded(v)
  OBVIOUS
<1>13. e.need = BytesFor(v, c) /\ e.at = a /\ e.mem = n
  BY <1>11, <1>12
<1>14. IsVector(e.mem, e.at, 0 + 1, c) /\ OnlyIn(e.mem, mem, v, e.at, c)
  BY <1>8, <1>9, <1>13
<1>15. /\ e.need \in Nat \ {0} /\ e.at = arena.allocated + HEADER
       /\ e.at + ElemSize[v] * c <= arena.allocated + e.need
  BY <1>3, <1>10, <1>13
<1>16. Expansion(v, e, 0, c)
  BY <1>14, <1>15 DEF Expansion
<1>. QED
  BY <1>1, <1>12, <1>16

LEMMA ExpandsInPlace ==
    ASSUME Inductive, stage = "running", NEW v \in Vecs, vecs[v] # NULL, ~Full(v)
    PROVE  Expansion(v, Expanded(v), Size(mem, vecs[v]), Capacity(mem, vecs[v]))
<1>1. PICK a, n, s, c : /\ a = vecs[v] /\ s = Size(mem, a) /\ c = Capacity(mem, a)
                        /\ n = CountedUp(mem, a)
  OBVIOUS
<1>2. IsVector(mem, a, s, c) /\ s # c
  BY <1>1, VectorThere DEF Full
<1>3. a \in Nat /\ HEADER <= a /\ c \in Nat \ {0} /\ s \in Nat /\ s < c
  BY <1>2 DEF IsVector
<1>4. /\ IsVector(n, a, s + 1, c) /\ OnlyIn(n, mem, v, a, c)
      /\ \A i \in 0 .. c - 1 : Elem(n, v, a, i) = Elem(mem, v, a, i)
  BY <1>1, <1>3, CountsUp
<1>5. Expanded(v) = [need |-> 0, at |-> a, mem |-> n]
  BY <1>1 DEF Expanded
<1>6. PICK e : e = Expanded(v)
  OBVIOUS
<1>7. e.need = 0 /\ e.at = a /\ e.mem = n
  BY <1>5, <1>6
<1>8. \A i \in 0 .. s - 1 : i \in 0 .. c - 1
  BY <1>3
<1>. QED
  BY <1>1, <1>4, <1>6, <1>7, <1>8 DEF Expansion

LEMMA ExpandsElsewhere ==
    ASSUME Inductive, stage = "running", NEW v \in Vecs, vecs[v] # NULL, Full(v)
    PROVE  Expansion(v, Expanded(v), Size(mem, vecs[v]), 2 * Capacity(mem, vecs[v]))
<1>1. PICK old, s, a, c, size : /\ old = vecs[v] /\ s = Size(mem, old) /\ a = Fresh /\ c = 2 * s
                                /\ size = ElemSize[v]
  OBVIOUS
<1>2. IsVector(mem, old, s, s) /\ Capacity(mem, old) = s
  BY <1>1, VectorThere DEF Full, IsVector
<1>3. /\ arena.ptr = 1 /\ arena.allocated \in Nat /\ size \in {4, 8}
      /\ \A b : b >= arena.allocated => <<arena.ptr, b>> \notin DOMAIN mem
  BY <1>1, VectorThere
<1>4. /\ old \in Nat /\ HEADER <= old /\ s \in Nat \ {0} /\ old # NULL
      /\ c \in Nat \ {0} /\ s < c /\ a = arena.allocated + HEADER /\ a \in Nat /\ HEADER <= a
  BY <1>1, <1>2, <1>3 DEF Fresh, HEADER, IsVector
<1>5. PICK n : n = size * s + HEADER
  OBVIOUS
<1>6. n \in Nat /\ HEADER <= n /\ old - HEADER \in Int /\ a - HEADER \in Int /\ a - HEADER = arena.allocated
  BY <1>3, <1>4, <1>5 DEF HEADER
<1>7. PICK m : m = Copied(mem, old - HEADER, a - HEADER, n)
  OBVIOUS
<1>8. /\ \A k \in 0 .. n - 1 : Read(m, arena.ptr, a - HEADER + k) = Read(mem, arena.ptr, old - HEADER + k)
      /\ \A p, b : (p # arena.ptr \/ b \notin a - HEADER .. a - HEADER + n - 1) =>
                      Read(m, p, b) = Read(mem, p, b)
      /\ DOMAIN m \subseteq DOMAIN mem \union ({arena.ptr} \X (a - HEADER .. a - HEADER + n - 1))
  <2>1. \A k \in 0 .. n - 1 : <<arena.ptr, a - HEADER + k>> \notin DOMAIN mem
    BY <1>3, <1>6
  <2>2. PICK from \in Int, to \in Int : from = old - HEADER /\ to = a - HEADER
    BY <1>6
  <2>3. /\ \A k \in 0 .. n - 1 : <<arena.ptr, to + k>> \notin DOMAIN mem
        /\ m = Copied(mem, from, to, n)
    BY <1>7, <2>1, <2>2
  <2>4. HasCopied(m, mem, from, to, n)
    BY <1>6, <2>3, ReadCopied
  <2>. QED
    BY <2>2, <2>4 DEF HasCopied
<1>9. OnlyIn(m, mem, v, a, c)
  <2>1. a - HEADER .. a - HEADER + n - 1 \subseteq BytesOf(v, a, c)
    <3>1. CASE size = 4
      BY <1>1, <1>4, <1>5, <3>1 DEF BytesOf, HEADER
    <3>2. CASE size = 8
      BY <1>1, <1>4, <1>5, <3>2 DEF BytesOf, HEADER
    <3>. QED
      BY <1>3, <3>1, <3>2
  <2>. QED
    BY <1>8, <2>1 DEF OnlyIn
<1>10. Size(m, a) = s /\ Capacity(m, a) = s
  <2>1. 0 \in 0 .. n - 1 /\ 4 \in 0 .. n - 1
    BY <1>6 DEF HEADER
  <2>2. /\ a - HEADER + 0 = SizeAt(a) /\ old - HEADER + 0 = SizeAt(old)
        /\ a - HEADER + 4 = CapacityAt(a) /\ old - HEADER + 4 = CapacityAt(old)
    BY <1>4 DEF SizeAt, CapacityAt, HEADER
  <2>3. /\ Read(m, arena.ptr, SizeAt(a)) = Read(mem, arena.ptr, SizeAt(old))
        /\ Read(m, arena.ptr, CapacityAt(a)) = Read(mem, arena.ptr, CapacityAt(old))
    BY <1>8, <2>1, <2>2
  <2>4. a # NULL
    BY <1>4 DEF HEADER, NULL
  <2>. QED
    BY <1>2, <1>4, <2>3, <2>4 DEF Size, Capacity, IsVector
<1>11. \A i \in 0 .. s - 1 : Elem(m, v, a, i) = Elem(mem, v, old, i)
  <2>. SUFFICES ASSUME NEW i \in 0 .. s - 1
                PROVE  Elem(m, v, a, i) = Elem(mem, v, old, i)
    OBVIOUS
  <2>1. PICK k : k = HEADER + size * i
    OBVIOUS
  <2>2. k \in 0 .. n - 1 /\ a - HEADER + k = a + size * i /\ old - HEADER + k = old + size * i
    <3>1. CASE size = 4
      BY <1>4, <1>5, <2>1, <3>1 DEF HEADER
    <3>2. CASE size = 8
      BY <1>4, <1>5, <2>1, <3>2 DEF HEADER
    <3>. QED
      BY <1>3, <3>1, <3>2
  <2>. QED
    BY <1>1, <1>8, <2>2 DEF Elem, ElemAt
<1>12. PICK o : o = Write(m, CapacityAt(a), c)
  OBVIOUS
<1>13. Wrote(o, m, CapacityAt(a), c)
  BY <1>12, ReadWrite
<1>14. /\ SizeAt(a) # CapacityAt(a) /\ a # NULL /\ CapacityAt(a) \in BytesOf(v, a, c)
       /\ \A i \in 0 .. c - 1 : ElemAt(v, a, i) # CapacityAt(a)
  BY <1>4, Addresses
<1>15. OnlyIn(o, m, v, a, c)
  BY <1>13, <1>14 DEF OnlyIn, Wrote
<1>16. Size(o, a) = s /\ Capacity(o, a) = c
  BY <1>10, <1>13, <1>14 DEF Wrote, Size, Capacity
<1>17. \A i \in 0 .. s - 1 : Elem(o, v, a, i) = Elem(m, v, a, i) /\ i \in 0 .. c - 1
  <2>1. \A i \in 0 .. s - 1 : i \in 0 .. c - 1
    BY <1>4
  <2>. QED
    BY <1>13, <1>14, <2>1 DEF Wrote, Elem
<1>18. PICK r : r = CountedUp(o, a)
  OBVIOUS
<1>19. /\ IsVector(r, a, s + 1, c) /\ OnlyIn(r, o, v, a, c)
       /\ \A i \in 0 .. c - 1 : Elem(r, v, a, i) = Elem(o, v, a, i)
  <2>1. s \in Nat
    BY <1>4
  <2>. QED
    BY <1>4, <1>16, <1>18, <2>1, CountsUp
<1>20. OnlyIn(r, mem, v, a, c)
  BY <1>9, <1>15, <1>19, OnlyInAgain
<1>21. BytesFor(v, c) \in Nat \ {0} /\ a + ElemSize[v] * c <= arena.allocated + BytesFor(v, c)
  BY <1>3, <1>4, RoomFor
<1>22. Expanded(v) = [need |-> BytesFor(v, c), at |-> a, mem |-> r]
  <2>1. m = Moved(v)
    BY <1>1, <1>2, <1>5, <1>7 DEF Moved
  <2>2. o = DoubleCapacity(m, a)
    BY <1>1, <1>10, <1>12 DEF DoubleCapacity
  <2>3. Full(v) /\ vecs[v] # NULL
    OBVIOUS
  <2>. QED
    BY <1>1, <1>2, <1>18, <2>1, <2>2, <2>3 DEF Expanded
<1>23. PICK e : e = Expanded(v)
  OBVIOUS
<1>24. e.need = BytesFor(v, c) /\ e.at = a /\ e.mem = r
  BY <1>22, <1>23
<1>25. IsVector(e.mem, e.at, s + 1, c) /\ OnlyIn(e.mem, mem, v, e.at, c)
  BY <1>19, <1>20, <1>24
<1>26. \A i \in 0 .. s - 1 : Elem(e.mem, v, e.at, i) = Elem(mem, v, vecs[v], i)
  BY <1>1, <1>11, <1>17, <1>19, <1>24
<1>27. /\ e.need \in Nat \ {0} /\ e.at = arena.allocated + HEADER
       /\ e.at + ElemSize[v] * c <= arena.allocated + e.need
  BY <1>4, <1>21, <1>24
<1>28. Expansion(v, e, s, c)
  BY <1>25, <1>26, <1>27 DEF Expansion
<1>. QED
  BY <1>1, <1>2, <1>23, <1>28

LEMMA Expands ==
    ASSUME Inductive, stage = "running", NEW v \in Vecs
    PROVE  \E c : Expansion(v, Expanded(v), Size(mem, vecs[v]), c)
<1>1. vecs[v] = NULL => Size(mem, vecs[v]) = 0
  BY VectorThere
<1>. QED
  BY <1>1, ExpandsFirst, ExpandsInPlace, ExpandsElsewhere

(* vec_insert_at: what is behind the place moves up by one.                   *)
MadeRoom(n, m, v, a, s, at, x) ==
    \A i \in 0 .. s : Elem(n, v, a, i) = IF i < at THEN Elem(m, v, a, i)
                                         ELSE IF i = at THEN x ELSE Elem(m, v, a, i - 1)

LEMMA MovesUp ==
    ASSUME NEW v \in Vecs, NEW m, NEW a, NEW s \in Nat, NEW c, IsVector(m, a, s + 1, c),
           NEW at \in 0 .. s, NEW x, NEW n, n = MovedUp(m, v, a, at, x)
    PROVE  IsVector(n, a, s + 1, c) /\ OnlyIn(n, m, v, a, c) /\ MadeRoom(n, m, v, a, s, at, x)
<1>1. /\ a \in Nat /\ HEADER <= a /\ c \in Nat \ {0} /\ s + 1 <= c
      /\ Size(m, a) = s + 1 /\ Capacity(m, a) = c
  BY DEF IsVector
<1>2. /\ SizeAt(a) \in BytesOf(v, a, c) /\ CapacityAt(a) \in BytesOf(v, a, c) /\ a # NULL
      /\ \A i \in 0 .. c - 1 :
            /\ ElemAt(v, a, i) \in BytesOf(v, a, c)
            /\ ElemAt(v, a, i) # SizeAt(a) /\ ElemAt(v, a, i) # CapacityAt(a)
            /\ ElemAt(v, a, i) - ElemSize[v] = ElemAt(v, a, i - 1)
            /\ \A j \in 0 .. c - 1 : ElemAt(v, a, i) = ElemAt(v, a, j) => i = j
  BY <1>1, Addresses
<1>. DEFINE places == {<<arena.ptr, ElemAt(v, a, i)>> : i \in at .. s}
<1>3. PICK f : f = [p \in places |-> IF p[2] = ElemAt(v, a, at) THEN x
                                     ELSE Read(m, arena.ptr, p[2] - ElemSize[v])]
  OBVIOUS
<1>4. n = Over(f, m) /\ DOMAIN f = places
  <2>1. Size(m, a) - 1 = s
    BY <1>1
  <2>. QED
    BY <1>3, <2>1 DEF MovedUp
<1>5. ASSUME NEW i \in at .. s
      PROVE  /\ <<arena.ptr, ElemAt(v, a, i)>> \in places
             /\ f[<<arena.ptr, ElemAt(v, a, i)>>] = IF i = at THEN x ELSE Elem(m, v, a, i - 1)
  <2>1. i \in 0 .. c - 1 /\ at \in 0 .. c - 1
    BY <1>1
  <2>2. PICK q : q = <<arena.ptr, ElemAt(v, a, i)>>
    OBVIOUS
  <2>3. q \in places /\ q[2] = ElemAt(v, a, i)
    BY <2>2
  <2>4. f[q] = IF q[2] = ElemAt(v, a, at) THEN x ELSE Read(m, arena.ptr, q[2] - ElemSize[v])
    BY <1>3, <2>3
  <2>5. q[2] = ElemAt(v, a, at) <=> i = at
    BY <1>2, <2>1, <2>3
  <2>6. q[2] - ElemSize[v] = ElemAt(v, a, i - 1)
    BY <1>2, <2>1, <2>3
  <2>. QED
    BY <2>2, <2>3, <2>4, <2>5, <2>6 DEF Elem
<1>6. ASSUME NEW p, NEW b, <<p, b>> \in places
      PROVE  /\ p = arena.ptr /\ b \in BytesOf(v, a, c) /\ b # SizeAt(a) /\ b # CapacityAt(a)
             /\ \A i \in 0 .. c - 1 : b = ElemAt(v, a, i) => i >= at
  <2>1. PICK j \in at .. s : <<p, b>> = <<arena.ptr, ElemAt(v, a, j)>>
    BY <1>6
  <2>2. j \in 0 .. c - 1 /\ p = arena.ptr /\ b = ElemAt(v, a, j) /\ j >= at
    BY <1>1, <2>1
  <2>. QED
    BY <1>2, <2>2
<1>7. /\ \A p, b : Read(n, p, b) = IF <<p, b>> \in places THEN f[<<p, b>>] ELSE Read(m, p, b)
      /\ DOMAIN n = places \union DOMAIN m
  <2>. HIDE DEF places
  <2>1. /\ \A p, b : Read(Over(f, m), p, b) =
                         IF <<p, b>> \in DOMAIN f THEN f[<<p, b>>] ELSE Read(m, p, b)
        /\ DOMAIN Over(f, m) = DOMAIN f \union DOMAIN m
    BY ReadOver
  <2>. QED
    BY ONLY <1>4, <2>1
<1>8. OnlyIn(n, m, v, a, c)
  <2>1. ASSUME NEW q \in places
        PROVE  q \in {arena.ptr} \X BytesOf(v, a, c)
    <3>1. PICK j \in at .. s : q = <<arena.ptr, ElemAt(v, a, j)>>
      OBVIOUS
    <3>2. j \in 0 .. c - 1
      BY <1>1
    <3>. QED
      BY <1>2, <3>1, <3>2
  <2>. HIDE DEF places
  <2>. QED
    BY <1>6, <1>7, <2>1 DEF OnlyIn
<1>9. IsVector(n, a, s + 1, c)
  <2>. HIDE DEF places
  <2>1. /\ Read(n, arena.ptr, SizeAt(a)) = Read(m, arena.ptr, SizeAt(a))
        /\ Read(n, arena.ptr, CapacityAt(a)) = Read(m, arena.ptr, CapacityAt(a))
    BY <1>6, <1>7
  <2>. QED
    BY <1>1, <1>2, <2>1 DEF IsVector, Size, Capacity
<1>10. ASSUME NEW i \in 0 .. s
       PROVE  Elem(n, v, a, i) = IF i < at THEN Elem(m, v, a, i)
                                 ELSE IF i = at THEN x ELSE Elem(m, v, a, i - 1)
  <2>1. PICK b : b = ElemAt(v, a, i)
    OBVIOUS
  <2>2. Elem(n, v, a, i) = IF <<arena.ptr, b>> \in places THEN f[<<arena.ptr, b>>]
                           ELSE Read(m, arena.ptr, b)
    BY <1>7, <2>1 DEF Elem
  <2>3. CASE i < at
    <3>1. i \in 0 .. c - 1 /\ ~(i >= at)
      BY <1>1, <2>3
    <3>2. <<arena.ptr, b>> \notin places
      BY <1>6, <2>1, <3>1
    <3>. QED
      BY <2>1, <2>2, <2>3, <3>2 DEF Elem
  <2>4. CASE ~(i < at)
    <3>1. i \in at .. s
      BY <2>4
    <3>2. <<arena.ptr, b>> \in places /\ f[<<arena.ptr, b>>] = IF i = at THEN x ELSE Elem(m, v, a, i - 1)
      BY <1>5, <2>1, <3>1
    <3>. QED
      BY <2>2, <2>4, <3>2
  <2>. QED
    BY <2>3, <2>4
<1>. HIDE DEF places
<1>. QED
  BY <1>8, <1>9, <1>10 DEF MadeRoom

-----------------------------------------------------------------------------
(* Copied strings.                                                            *)

(* A text is what stands before the first zero.                               *)
LEMMA TextIs ==
    ASSUME NEW m, NEW p, NEW n, IsText(m, p, n)
    PROVE  TextAt(m, p) = [i \in 1 .. n |-> Read(m, p[1], p[2] + i - 1)]
<1>. DEFINE c == CHOOSE k \in 0 .. MAX_STRING_BUFFER : IsText(m, p, k)
<1>1. n \in 0 .. MAX_STRING_BUFFER
  BY DEF IsText
<1>2. c \in 0 .. MAX_STRING_BUFFER /\ IsText(m, p, c)
  BY <1>1
<1>3. ASSUME NEW j \in 0 .. MAX_STRING_BUFFER, NEW k \in 0 .. MAX_STRING_BUFFER,
             IsText(m, p, j), IsText(m, p, k)
      PROVE  ~(j < k)
  <2>. SUFFICES ASSUME j < k
                PROVE  FALSE
    OBVIOUS
  <2>1. j \in 0 .. k - 1
    BY MemoryAssumption
  <2>. QED
    BY <1>3, <2>1 DEF IsText
<1>4. c = n
  <2>. HIDE DEF c
  <2>1. ~(c < n) /\ ~(n < c)
    BY <1>1, <1>2, <1>3
  <2>. QED
    BY <1>1, <1>2, <2>1, MemoryAssumption
<1>. QED
  BY <1>4 DEF TextAt

LEMMA TextStays ==
    ASSUME NEW m, NEW n, NEW p \in {2} \X Nat, NEW k, IsText(m, p, k),
           \A j \in 0 .. k : Read(n, 2, p[2] + j) = Read(m, 2, p[2] + j)
    PROVE  IsText(n, p, k) /\ TextAt(n, p) = TextAt(m, p)
<1>1. p[1] = 2 /\ p[2] \in Nat /\ k \in Nat /\ k \in 0 .. k
  BY MemoryAssumption DEF IsText
<1>2. \A j \in 0 .. k - 1 : j \in 0 .. k
  BY <1>1
<1>3. IsText(n, p, k)
  BY <1>1, <1>2 DEF IsText
<1>4. ASSUME NEW i \in 1 .. k
      PROVE  Read(n, p[1], p[2] + i - 1) = Read(m, p[1], p[2] + i - 1)
  <2>1. i - 1 \in 0 .. k /\ p[2] + i - 1 = p[2] + (i - 1)
    BY <1>1
  <2>. QED
    BY <1>1, <2>1
<1>5. [i \in 1 .. k |-> Read(n, p[1], p[2] + i - 1)] = [i \in 1 .. k |-> Read(m, p[1], p[2] + i - 1)]
  BY <1>4
<1>6. TextAt(n, p) = [i \in 1 .. k |-> Read(n, p[1], p[2] + i - 1)]
  BY ONLY <1>3, TextIs, Zenon
<1>7. TextAt(m, p) = [i \in 1 .. k |-> Read(m, p[1], p[2] + i - 1)]
  BY ONLY IsText(m, p, k), TextIs, Zenon
<1>. QED
  BY ONLY <1>3, <1>5, <1>6, <1>7

(* Texts below what was allocated stay where nobody writes.                   *)
CharactersStay ==
    /\ char_arena.allocated \in Nat /\ char_arena'.allocated \in Nat
    /\ char_arena.allocated <= char_arena'.allocated
    /\ \A b : b < char_arena.allocated => Read(mem', 2, b) = Read(mem, 2, b)

Texts == [k \in DOMAIN copies |-> TextAt(mem, copies[k])]

LEMMA CopyStays ==
    ASSUME CharactersStay, NEW p \in {2} \X Nat, HasText(mem, p, char_arena.allocated)
    PROVE  HasText(mem', p, char_arena'.allocated) /\ TextAt(mem', p) = TextAt(mem, p)
<1>1. PICK n \in 0 .. MAX_STRING_BUFFER : IsText(mem, p, n) /\ p[2] + n < char_arena.allocated
  BY DEF HasText
<1>2. \A j \in 0 .. n : Read(mem', 2, p[2] + j) = Read(mem, 2, p[2] + j)
  <2>. SUFFICES ASSUME NEW j \in 0 .. n
                PROVE  Read(mem', 2, p[2] + j) = Read(mem, 2, p[2] + j)
    OBVIOUS
  <2>1. p[2] \in Nat /\ n \in Nat
    BY MemoryAssumption
  <2>2. p[2] + j < char_arena.allocated
    BY <1>1, <2>1 DEF CharactersStay
  <2>. QED
    BY <2>2 DEF CharactersStay
<1>3. IsText(mem', p, n) /\ TextAt(mem', p) = TextAt(mem, p)
  BY ONLY p \in {2} \X Nat, <1>1, <1>2, TextStays
<1>4. p[2] + n < char_arena'.allocated
  BY <1>1, MemoryAssumption DEF CharactersStay
<1>. QED
  BY <1>3, <1>4 DEF HasText

LEMMA CopiesStay ==
    ASSUME CharactersStay, CopiesPlaced, UNCHANGED copies
    PROVE  CopiesPlaced' /\ UNCHANGED Texts
<1>1. \A k \in DOMAIN copies : copies[k] \in {2} \X Nat /\ HasText(mem, copies[k], char_arena.allocated)
  BY DEF CopiesPlaced
<1>2. ASSUME NEW k \in DOMAIN copies
      PROVE  /\ HasText(mem', copies[k], char_arena'.allocated)
             /\ TextAt(mem', copies[k]) = TextAt(mem, copies[k])
  BY <1>1, CopyStays
<1>3. copies' = copies /\ copies' \in Seq({2} \X Nat)
  BY DEF CopiesPlaced
<1>. QED
  BY <1>2, <1>3 DEF CopiesPlaced, Texts

-----------------------------------------------------------------------------
(* A call on one vector writes its bytes alone, and leaves all others alone.  *)

InPlaceOrBehind(v, a, c) == \/ vecs[v] # NULL /\ a = vecs[v] /\ c = Capacity(mem, vecs[v])
                            \/ a = arena.allocated + HEADER
ChangesVector(v, a, s, c) ==
    /\ IsVector(mem', a, s, c) /\ OnlyIn(mem', mem, v, a, c) /\ InPlaceOrBehind(v, a, c)
    /\ vecs' = [vecs EXCEPT ![v] = a] /\ arena'.ptr = arena.ptr
    /\ arena'.allocated \in Nat /\ arena.allocated <= arena'.allocated
    /\ a + ElemSize[v] * c <= arena'.allocated
    /\ UNCHANGED <<char_arena, copies, scratch, stage>>

LEMMA BytesApart ==
    ASSUME Inductive, stage = "running", NEW v \in Vecs, NEW w \in Vecs, w # v, vecs[w] # NULL,
           NEW a, NEW c, InPlaceOrBehind(v, a, c)
    PROVE  \A b \in BytesOf(w, vecs[w], Capacity(mem, vecs[w])) : b \notin BytesOf(v, a, c)
<1>1. /\ IsVector(mem, vecs[w], Size(mem, vecs[w]), Capacity(mem, vecs[w]))
      /\ EndOf(w) <= arena.allocated /\ arena.allocated \in Nat /\ ElemSize[w] \in {4, 8}
  BY VectorThere
<1>2. EndOf(w) \in Int
  BY <1>1 DEF EndOf, IsVector
<1>3. /\ vecs[w] \in Nat
      /\ BytesOf(w, vecs[w], Capacity(mem, vecs[w])) = vecs[w] - HEADER .. EndOf(w) - 1
  BY <1>1 DEF IsVector, BytesOf, EndOf
<1>4. CASE vecs[v] # NULL /\ a = vecs[v] /\ c = Capacity(mem, vecs[v])
  <2>1. NextTo(w, v)
    BY <1>4 DEF Inductive, Layout, VectorsPlaced
  <2>2. /\ IsVector(mem, vecs[v], Size(mem, vecs[v]), Capacity(mem, vecs[v]))
        /\ ElemSize[v] \in {4, 8}
    BY <1>4, VectorThere
  <2>3. EndOf(v) \in Int /\ vecs[v] \in Nat
    BY <2>2 DEF EndOf, IsVector
  <2>4. BytesOf(v, a, c) = vecs[v] - HEADER .. EndOf(v) - 1
    <3>1. PICK n : n = ElemSize[v] * c
      OBVIOUS
    <3>2. n \in Int /\ a \in Int
      BY <1>4, <2>2, <3>1 DEF IsVector
    <3>3. BytesOf(v, a, c) = a - HEADER .. a + n - 1 /\ EndOf(v) = a + n
      BY <1>4, <3>1 DEF BytesOf, EndOf
    <3>. QED
      BY <1>4, <3>2, <3>3
  <2>5. EndOf(w) <= vecs[v] - HEADER \/ EndOf(v) <= vecs[w] - HEADER
    BY <2>1 DEF NextTo
  <2>. QED
    BY <1>2, <1>3, <2>3, <2>4, <2>5 DEF HEADER
<1>5. CASE a = arena.allocated + HEADER
  <2>1. PICK last : last = a + ElemSize[v] * c - 1
    OBVIOUS
  <2>2. BytesOf(v, a, c) = a - HEADER .. last
    BY <2>1 DEF BytesOf
  <2>3. a - HEADER = arena.allocated
    BY <1>1, <1>5 DEF HEADER
  <2>. QED
    BY <1>1, <1>2, <1>3, <2>2, <2>3 DEF HEADER
<1>. QED
  BY <1>4, <1>5 DEF InPlaceOrBehind

LEMMA OtherVector ==
    ASSUME Inductive, stage = "running", NEW v \in Vecs, NEW w \in Vecs, w # v,
           NEW a, NEW s, NEW c, ChangesVector(v, a, s, c)
    PROVE  /\ vecs'[w] = vecs[w] /\ Elements(w)' = Elements(w)
           /\ Size(mem, vecs[w])' = Size(mem, vecs[w])
           /\ vecs[w] # NULL => Capacity(mem, vecs[w])' = Capacity(mem, vecs[w])
<1>1. vecs'[w] = vecs[w] /\ arena'.ptr = arena.ptr
  BY DEF ChangesVector, Inductive, Arenas, TypeOK
<1>2. CASE vecs[w] = NULL
  <2>1. Size(mem, vecs[w])' = 0 /\ Size(mem, vecs[w]) = 0
    BY <1>1, <1>2 DEF Size
  <2>2. Elements(w)' = Elements(w)
    BY <2>1 DEF Elements
  <2>. QED
    BY <1>1, <1>2, <2>1, <2>2
<1>3. CASE vecs[w] # NULL
  <2>1. PICK d, n, cap : d = vecs[w] /\ n = Size(mem, d) /\ cap = Capacity(mem, d)
    OBVIOUS
  <2>2. IsVector(mem, d, n, cap)
    BY <1>3, <2>1, VectorThere
  <2>3. /\ SizeAt(d) \in BytesOf(w, d, cap) /\ CapacityAt(d) \in BytesOf(w, d, cap) /\ d # NULL
        /\ \A i \in 0 .. cap - 1 : ElemAt(w, d, i) \in BytesOf(w, d, cap)
    BY <2>2, Addresses DEF IsVector
  <2>4. \A b \in BytesOf(w, d, cap) : b \notin BytesOf(v, a, c)
    BY <1>3, <2>1, BytesApart DEF ChangesVector
  <2>5. \A b \in BytesOf(w, d, cap) : Read(mem', arena.ptr, b) = Read(mem, arena.ptr, b)
    BY <2>4 DEF ChangesVector, OnlyIn
  <2>6. Size(mem, vecs[w])' = n /\ Capacity(mem, vecs[w])' = cap
    BY <1>1, <2>1, <2>3, <2>5 DEF Size, Capacity
  <2>7. ASSUME NEW i \in 1 .. n
        PROVE  Read(mem', arena.ptr, ElemAt(w, d, i - 1)) = Read(mem, arena.ptr, ElemAt(w, d, i - 1))
    <3>1. i - 1 \in 0 .. cap - 1
      BY <2>2 DEF IsVector
    <3>. QED
      BY <2>3, <2>5, <3>1
  <2>8. Elements(w)' = Elements(w)
    <3>1. Elements(w)' = [i \in 1 .. n |-> Read(mem', arena.ptr, ElemAt(w, d, i - 1))]
      BY <1>1, <2>1, <2>6 DEF Elements
    <3>2. Elements(w) = [i \in 1 .. n |-> Read(mem, arena.ptr, ElemAt(w, d, i - 1))]
      BY <2>1 DEF Elements
    <3>. QED
      BY <2>7, <3>1, <3>2
  <2>. QED
    BY <1>1, <2>1, <2>6, <2>8
<1>. QED
  BY <1>2, <1>3

LEMMA VectorsStay ==
    ASSUME Inductive, stage = "running", NEW v \in Vecs,
           NEW a, NEW s, NEW c, ChangesVector(v, a, s, c)
    PROVE  VectorsPlaced'
<1>1. /\ vecs'[v] = a /\ arena'.ptr = arena.ptr
      /\ arena.allocated \in Nat /\ arena'.allocated \in Nat /\ arena.allocated <= arena'.allocated
      /\ a + ElemSize[v] * c <= arena'.allocated
      /\ a \in Nat /\ HEADER <= a /\ s \in Nat /\ c \in Nat \ {0} /\ s <= c
  BY DEF ChangesVector, IsVector, Inductive, Arenas, TypeOK
<1>2. Size(mem, vecs[v])' = s /\ Capacity(mem, vecs[v])' = c
  BY <1>1 DEF ChangesVector, IsVector, Size, Capacity
<1>3. EndOf(v)' = a + ElemSize[v] * c /\ EndOf(v)' \in Nat
  <2>1. EndOf(v)' = a + ElemSize[v] * c
    BY <1>1, <1>2 DEF EndOf
  <2>2. ElemSize[v] \in {4, 8}
    BY MemoryAssumption
  <2>. QED
    BY <1>1, <2>1, <2>2
<1>4. Placed(v)'
  BY <1>1, <1>2, <1>3 DEF Placed
<1>5. ASSUME NEW w \in Vecs, w # v, vecs[w] # NULL
      PROVE  /\ vecs'[w] = vecs[w] /\ EndOf(w)' = EndOf(w) /\ Placed(w)'
             /\ vecs[w] \in Nat /\ EndOf(w) \in Nat /\ EndOf(w) <= arena.allocated
  <2>1. /\ vecs'[w] = vecs[w] /\ Size(mem, vecs[w])' = Size(mem, vecs[w])
        /\ Capacity(mem, vecs[w])' = Capacity(mem, vecs[w])
    BY <1>5, OtherVector
  <2>2. /\ IsVector(mem, vecs[w], Size(mem, vecs[w]), Capacity(mem, vecs[w]))
        /\ EndOf(w) <= arena.allocated /\ ElemSize[w] \in {4, 8}
    BY <1>5, VectorThere
  <2>3. EndOf(w)' = EndOf(w)
    BY <2>1 DEF EndOf
  <2>4. vecs[w] \in Nat /\ EndOf(w) \in Nat
    BY <2>2 DEF EndOf, IsVector
  <2>5. Placed(w)'
    BY <1>1, <2>1, <2>2, <2>3, <2>4 DEF Placed, IsVector
  <2>. QED
    BY <2>1, <2>2, <2>3, <2>4, <2>5
<1>6. ASSUME NEW w \in Vecs, w # v, vecs[w] # NULL
      PROVE  NextTo(v, w)'
  <2>1. /\ vecs'[w] = vecs[w] /\ EndOf(w)' = EndOf(w) /\ vecs[w] \in Nat
        /\ EndOf(w) \in Nat /\ EndOf(w) <= arena.allocated
    BY <1>5, <1>6
  <2>2. CASE vecs[v] # NULL /\ a = vecs[v] /\ c = Capacity(mem, vecs[v])
    <3>1. NextTo(v, w)
      BY <1>6, <2>2 DEF Inductive, Layout, VectorsPlaced
    <3>2. EndOf(v)' = EndOf(v)
      BY <1>3, <2>2 DEF EndOf
    <3>. QED
      BY <1>1, <2>1, <2>2, <3>1, <3>2 DEF NextTo
  <2>3. CASE a = arena.allocated + HEADER
    <3>1. EndOf(w)' <= vecs'[v] - HEADER
      BY <1>1, <2>1, <2>3 DEF HEADER
    <3>. QED
      BY <3>1 DEF NextTo
  <2>. QED
    BY <2>2, <2>3 DEF ChangesVector, InPlaceOrBehind
<1>7. ASSUME NEW w \in Vecs, NEW u \in Vecs, w # u, vecs'[w] # NULL, vecs'[u] # NULL
      PROVE  NextTo(w, u)'
  <2>1. CASE w = v
    <3>1. vecs[u] # NULL
      BY <1>7, <2>1, OtherVector
    <3>. QED
      BY <1>6, <1>7, <2>1, <3>1
  <2>2. CASE u = v
    <3>1. vecs[w] # NULL
      BY <1>7, <2>2, OtherVector
    <3>2. NextTo(u, w)'
      BY <1>6, <1>7, <2>2, <3>1
    <3>. QED
      BY <3>2 DEF NextTo
  <2>3. CASE w # v /\ u # v
    <3>1. vecs[w] # NULL /\ vecs[u] # NULL
      BY <1>7, <2>3, OtherVector
    <3>2. NextTo(w, u)
      BY <1>7, <3>1 DEF Inductive, Layout, VectorsPlaced
    <3>. QED
      BY <1>5, <2>3, <3>1, <3>2 DEF NextTo
  <2>. QED
    BY <2>1, <2>2, <2>3
<1>8. ASSUME NEW w \in Vecs, vecs'[w] # NULL
      PROVE  Placed(w)'
  <2>1. CASE w = v
    BY <1>4, <2>1
  <2>2. CASE w # v
    <3>1. vecs[w] # NULL
      BY <1>8, <2>2, OtherVector
    <3>. QED
      BY <1>5, <2>2, <3>1
  <2>. QED
    BY <2>1, <2>2
<1>. QED
  BY <1>7, <1>8 DEF VectorsPlaced

LEMMA LayoutStays ==
    ASSUME Inductive, stage = "running", NEW v \in Vecs,
           NEW a, NEW s, NEW c, ChangesVector(v, a, s, c)
    PROVE  Layout' /\ UNCHANGED Texts
<1>1. /\ arena.ptr = 1 /\ arena.allocated \in Nat /\ char_arena.allocated \in Nat
      /\ BelowIsWritten /\ CopiesPlaced /\ scratch \in Seq(Nat \ {0}) /\ Len(scratch) <= MAX_STRING_BUFFER
  BY DEF Inductive, Arenas, TypeOK, Layout
<1>2. /\ a \in Nat /\ HEADER <= a /\ c \in Nat \ {0} /\ arena'.ptr = arena.ptr
      /\ arena'.allocated \in Nat /\ arena.allocated <= arena'.allocated
      /\ a + ElemSize[v] * c <= arena'.allocated
      /\ UNCHANGED <<char_arena, copies, scratch, stage>>
  BY DEF ChangesVector, IsVector
<1>3. \A p, b : p # arena.ptr => Read(mem', p, b) = Read(mem, p, b)
  BY DEF ChangesVector, OnlyIn
<1>4. CharactersStay
  BY <1>1, <1>2, <1>3 DEF CharactersStay
<1>5. CopiesPlaced' /\ UNCHANGED Texts
  BY <1>1, <1>2, <1>4, CopiesStay
<1>6. BelowIsWritten'
  <2>1. PICK last : last = a + ElemSize[v] * c - 1
    OBVIOUS
  <2>2. ElemSize[v] \in {4, 8}
    BY MemoryAssumption
  <2>3. last \in Int /\ last <= arena'.allocated - 1
    BY <1>2, <2>1, <2>2
  <2>4. BytesOf(v, a, c) \subseteq 0 .. arena'.allocated - 1
    BY <1>2, <2>1, <2>3 DEF BytesOf, HEADER
  <2>5. DOMAIN mem' \subseteq DOMAIN mem \union ({1} \X BytesOf(v, a, c))
    BY <1>1 DEF ChangesVector, OnlyIn
  <2>6. 0 .. arena.allocated - 1 \subseteq 0 .. arena'.allocated - 1
    BY <1>1, <1>2
  <2>. QED
    BY <1>1, <1>2, <2>4, <2>5, <2>6 DEF BelowIsWritten
<1>7. VectorsPlaced'
  BY VectorsStay
<1>. QED
  BY <1>1, <1>2, <1>5, <1>6, <1>7 DEF Layout

(* So the vector is what the call has made of it, and each other what it was. *)
LEMMA OneChanges ==
    ASSUME Inductive, stage = "running", NEW v \in Vecs,
           NEW a, NEW s, NEW c, ChangesVector(v, a, s, c)
    PROVE  [w \in Vecs |-> Elements(w)]' =
               [[w \in Vecs |-> Elements(w)] EXCEPT ![v] = [i \in 1 .. s |-> Elem(mem', v, a, i - 1)]]
<1>1. \A w \in Vecs : w # v => Elements(w)' = Elements(w)
  BY OtherVector
<1>2. Elements(v)' = [i \in 1 .. s |-> Elem(mem', v, a, i - 1)]
  <2>1. vecs'[v] = a /\ arena'.ptr = arena.ptr
    BY DEF ChangesVector, Inductive, Arenas, TypeOK
  <2>2. Size(mem, vecs[v])' = s
    BY <2>1 DEF ChangesVector, IsVector, Size
  <2>. QED
    BY <2>1, <2>2 DEF Elements, Elem
<1>. QED
  BY <1>1, <1>2

-----------------------------------------------------------------------------
(* The vectors, as the sequences of Store.                                    *)

LEMMA FrontIs ==
    ASSUME NEW S, NEW q \in Seq(S), q # <<>>
    PROVE  /\ Front(q) \in Seq(S) /\ Len(Front(q)) = Len(q) - 1
           /\ \A i \in 1 .. Len(q) - 1 : Front(q)[i] = q[i]
<1>1. Len(q) \in Nat \ {0} /\ \A i \in 1 .. Len(q) : q[i] \in S
  BY EmptySeq, ElementOfSeq
<1>2. PICK last \in Int : last = Len(q) - 1
  BY <1>1
<1>3. 1 \in Int /\ \A i \in 1 .. last : q[i] \in S
  BY <1>1, <1>2
<1>4. /\ SubSeq(q, 1, last) \in Seq(S)
      /\ Len(SubSeq(q, 1, last)) = IF 1 <= last THEN last - 1 + 1 ELSE 0
      /\ \A i \in 1 .. last - 1 + 1 : SubSeq(q, 1, last)[i] = q[1 + i - 1]
  BY <1>2, <1>3, SubSeqProperties
<1>5. /\ last - 1 + 1 = last /\ (IF 1 <= last THEN last ELSE 0) = last
      /\ \A i \in 1 .. last : 1 + i - 1 = i
  BY <1>1, <1>2
<1>. QED
  BY <1>2, <1>4, <1>5 DEF Front

HasInserted(r, q, at, x) ==
    /\ DOMAIN r = 1 .. Len(q) + 1 /\ r = [i \in 1 .. Len(q) + 1 |-> r[i]]
    /\ \A i \in 1 .. Len(q) + 1 : r[i] = IF i <= at THEN q[i] ELSE IF i = at + 1 THEN x ELSE q[i - 1]

LEMMA InsertedIs ==
    ASSUME NEW S, NEW q \in Seq(S), NEW at \in 0 .. Len(q), NEW x \in S
    PROVE  HasInserted(Contents!Inserted(q, at, x), q, at, x)
<1>1. Len(q) \in Nat /\ at \in Nat /\ at <= Len(q) /\ \A i \in 1 .. Len(q) : q[i] \in S
  BY LenProperties, ElementOfSeq
<1>2. PICK d : d = SubSeq(q, 1, at)
  OBVIOUS
<1>3. d \in Seq(S) /\ Len(d) = at /\ \A i \in 1 .. at : d[i] = q[i]
  <2>1. 1 \in Int /\ at \in Int /\ \A i \in 1 .. at : q[i] \in S
    BY <1>1
  <2>2. /\ d \in Seq(S) /\ Len(d) = IF 1 <= at THEN at - 1 + 1 ELSE 0
        /\ \A i \in 1 .. at - 1 + 1 : d[i] = q[1 + i - 1]
    BY <1>2, <2>1, SubSeqProperties
  <2>3. at - 1 + 1 = at /\ (IF 1 <= at THEN at ELSE 0) = at /\ \A i \in 1 .. at : 1 + i - 1 = i
    BY <1>1
  <2>. QED
    BY <2>2, <2>3
<1>4. PICK u : u = SubSeq(q, at + 1, Len(q))
  OBVIOUS
<1>5. u \in Seq(S) /\ Len(u) = Len(q) - at /\ \A i \in 1 .. Len(q) - at : u[i] = q[at + i]
  <2>1. at + 1 \in Int /\ Len(q) \in Int /\ \A i \in at + 1 .. Len(q) : q[i] \in S
    BY <1>1
  <2>2. /\ u \in Seq(S) /\ Len(u) = IF at + 1 <= Len(q) THEN Len(q) - (at + 1) + 1 ELSE 0
        /\ \A i \in 1 .. Len(q) - (at + 1) + 1 : u[i] = q[at + 1 + i - 1]
    BY ONLY <1>4, <2>1, SubSeqProperties
  <2>3. /\ Len(q) - (at + 1) + 1 = Len(q) - at
        /\ (IF at + 1 <= Len(q) THEN Len(q) - at ELSE 0) = Len(q) - at
        /\ \A i \in 1 .. Len(q) - at : at + 1 + i - 1 = at + i
    BY <1>1
  <2>4. Len(u) = Len(q) - at
    BY ONLY <2>2, <2>3, Zenon
  <2>5. ASSUME NEW i \in 1 .. Len(q) - at
        PROVE  u[i] = q[at + i]
    <3>1. u[i] = q[at + 1 + i - 1] /\ at + 1 + i - 1 = at + i
      BY ONLY <2>2, <2>3, i \in 1 .. Len(q) - at, Zenon
    <3>. QED
      BY ONLY <3>1, Zenon
  <2>. QED
    BY ONLY <2>2, <2>4, <2>5, Zenon
<1>6. PICK e : e = <<x>>
  BY Zenon
<1>7. e \in Seq(S) /\ Len(e) = 1 /\ e[1] = x
  BY <1>6
<1>8. PICK b : b = d \o e
  OBVIOUS
<1>9. /\ b \in Seq(S) /\ Len(b) = at + 1
      /\ \A i \in 1 .. at + 1 : b[i] = IF i <= at THEN d[i] ELSE e[i - at]
  <2>0. /\ d \o e \in Seq(S) /\ Len(d \o e) = Len(d) + Len(e)
        /\ \A i \in 1 .. Len(d) + Len(e) :
              (d \o e)[i] = IF i <= Len(d) THEN d[i] ELSE e[i - Len(d)]
    BY <1>3, <1>7, ConcatProperties
  <2>1. /\ b \in Seq(S) /\ Len(b) = Len(d) + Len(e)
        /\ \A i \in 1 .. Len(d) + Len(e) : b[i] = IF i <= Len(d) THEN d[i] ELSE e[i - Len(d)]
    BY ONLY <2>0, <1>8
  <2>2. Len(b) = at + 1
    BY ONLY <1>3, <1>7, <2>1
  <2>3. ASSUME NEW i \in 1 .. at + 1
        PROVE  b[i] = IF i <= at THEN d[i] ELSE e[i - at]
    <3>1. i \in 1 .. Len(d) + Len(e)
      BY ONLY <1>3, <1>7, i \in 1 .. at + 1
    <3>2. b[i] = IF i <= Len(d) THEN d[i] ELSE e[i - Len(d)]
      BY ONLY <2>1, <3>1
    <3>. QED
      BY ONLY <1>3, <3>2, Zenon
  <2>. QED
    BY ONLY <2>1, <2>2, <2>3, Zenon
<1>10. PICK r : r = b \o u
  OBVIOUS
<1>11. /\ r \in Seq(S) /\ Len(r) = at + 1 + (Len(q) - at)
       /\ \A i \in 1 .. at + 1 + (Len(q) - at) :
             r[i] = IF i <= at + 1 THEN b[i] ELSE u[i - (at + 1)]
  <2>0. /\ b \o u \in Seq(S) /\ Len(b \o u) = Len(b) + Len(u)
        /\ \A i \in 1 .. Len(b) + Len(u) :
              (b \o u)[i] = IF i <= Len(b) THEN b[i] ELSE u[i - Len(b)]
    BY <1>5, <1>9, ConcatProperties
  <2>1. /\ r \in Seq(S) /\ Len(r) = Len(b) + Len(u)
        /\ \A i \in 1 .. Len(b) + Len(u) : r[i] = IF i <= Len(b) THEN b[i] ELSE u[i - Len(b)]
    BY ONLY <2>0, <1>10
  <2>2. Len(r) = at + 1 + (Len(q) - at)
    BY ONLY <1>5, <1>9, <2>1
  <2>3. ASSUME NEW i \in 1 .. at + 1 + (Len(q) - at)
        PROVE  r[i] = IF i <= at + 1 THEN b[i] ELSE u[i - (at + 1)]
    <3>1. i \in 1 .. Len(b) + Len(u)
      BY ONLY <1>5, <1>9, i \in 1 .. at + 1 + (Len(q) - at)
    <3>2. r[i] = IF i <= Len(b) THEN b[i] ELSE u[i - Len(b)]
      BY ONLY <2>1, <3>1
    <3>. QED
      BY ONLY <1>9, <3>2, Zenon
  <2>. QED
    BY ONLY <2>1, <2>2, <2>3, Zenon
<1>12. at + 1 + (Len(q) - at) = Len(q) + 1
  BY <1>1
<1>13. ASSUME NEW i \in 1 .. Len(q) + 1
       PROVE  r[i] = IF i <= at THEN q[i] ELSE IF i = at + 1 THEN x ELSE q[i - 1]
  <2>1. CASE i <= at
    <3>1. i \in 1 .. at /\ i \in 1 .. at + 1 /\ i <= at + 1
      BY <1>1, <2>1
    <3>2. r[i] = b[i] /\ b[i] = d[i]
      BY <1>9, <1>11, <1>12, <2>1, <3>1
    <3>. QED
      BY <1>3, <2>1, <3>1, <3>2
  <2>2. CASE i = at + 1
    <3>1. i <= at + 1 /\ ~(i <= at) /\ i \in 1 .. at + 1 /\ i - at = 1
      BY <1>1, <2>2
    <3>. QED
      BY <1>7, <1>9, <1>11, <1>12, <2>2, <3>1
  <2>3. CASE i > at + 1
    <3>1. i - (at + 1) \in 1 .. Len(q) - at /\ at + (i - (at + 1)) = i - 1 /\ ~(i <= at + 1)
      BY <1>1, <2>3
    <3>2. r[i] = u[i - (at + 1)]
      BY <1>11, <1>12, <3>1
    <3>3. u[i - (at + 1)] = q[i - 1]
      BY <1>5, <3>1
    <3>. QED
      BY <1>1, <2>3, <3>2, <3>3
  <2>. QED
    BY <1>1, <2>1, <2>2, <2>3
<1>14. Contents!Inserted(q, at, x) = r
  BY <1>2, <1>4, <1>6, <1>8, <1>10 DEF Contents!Inserted
<1>15. DOMAIN r = 1 .. Len(q) + 1 /\ r = [i \in 1 .. Len(q) + 1 |-> r[i]]
  BY <1>11, <1>12
<1>16. HasInserted(r, q, at, x)
  BY <1>13, <1>15 DEF HasInserted
<1>. QED
  BY <1>14, <1>16

LEMMA ElementsAre ==
    ASSUME Inductive, stage = "running", NEW v \in Vecs
    PROVE  /\ Elements(v) \in Seq(Nat) /\ Len(Elements(v)) = Size(mem, vecs[v])
           /\ \A i \in 1 .. Size(mem, vecs[v]) : Elements(v)[i] = Elem(mem, v, vecs[v], i - 1)
<1>1. Size(mem, vecs[v]) \in Nat /\ IsMemory(mem)
  BY VectorThere DEF Inductive, Arenas, TypeOK
<1>2. \A i \in 1 .. Size(mem, vecs[v]) : Read(mem, arena.ptr, ElemAt(v, vecs[v], i - 1)) \in Nat
  BY <1>1, ReadNat
<1>3. Elements(v) \in [1 .. Size(mem, vecs[v]) -> Nat]
  BY <1>2 DEF Elements
<1>4. \A i \in 1 .. Size(mem, vecs[v]) : Elements(v)[i] = Elem(mem, v, vecs[v], i - 1)
  BY DEF Elements, Elem
<1>. QED
  BY <1>1, <1>3, <1>4

Seqs == [v \in Vecs |-> Elements(v)]

(* vec_insert_at: the vector has the value at its place, and the rest of what *)
(* it had around it; nothing else changes.                                    *)
LEMMA InsertIs ==
    ASSUME Inductive, NEW v \in Vecs, NEW x \in Values, NEW at \in 0 .. Size(mem, vecs[v]),
           InsertAt(v, at, x), ~Stop("crashed")
    PROVE  /\ Layout' /\ UNCHANGED <<scratch, Texts>>
           /\ Seqs' = [Seqs EXCEPT ![v] = Contents!Inserted(Seqs[v], at, x)]
<1>1. PICK e : e = Expanded(v)
  OBVIOUS
<1>2. /\ IF e.need > 0 /\ ~Room(arena, e.need) THEN Stop("crashed")
         ELSE /\ mem' = MovedUp(e.mem, v, e.at, at, x)
              /\ vecs' = [vecs EXCEPT ![v] = e.at]
              /\ IF e.need = 0 THEN UNCHANGED <<arena, blocks, allocations_done>>
                 ELSE /\ arena' = Bumped(arena, e.need)
                      /\ blocks' = blocks \union {Block(arena, e.need)}
                      /\ allocations_done' = allocations_done + 1
              /\ UNCHANGED <<char_arena, scratch, copies, stage>>
      /\ stage = "running"
  BY <1>1 DEF InsertAt, Running
<1>3. /\ mem' = MovedUp(e.mem, v, e.at, at, x) /\ vecs' = [vecs EXCEPT ![v] = e.at]
      /\ IF e.need = 0 THEN arena' = arena ELSE arena' = Bumped(arena, e.need)
      /\ UNCHANGED <<char_arena, scratch, copies, stage>> /\ stage = "running"
  BY <1>2
<1>4. PICK s : s = Size(mem, vecs[v])
  OBVIOUS
<1>5. s \in Nat /\ at \in 0 .. s /\ at \in Nat
  BY <1>3, <1>4, VectorThere
<1>6. PICK c : Expansion(v, e, s, c)
  BY <1>1, <1>3, <1>4, Expands
<1>7. PICK a, m : a = e.at /\ m = e.mem
  OBVIOUS
<1>8. /\ IsVector(m, a, s + 1, c) /\ OnlyIn(m, mem, v, a, c)
      /\ \A i \in 0 .. s - 1 : Elem(m, v, a, i) = Elem(mem, v, vecs[v], i)
      /\ \/ e.need = 0 /\ vecs[v] # NULL /\ a = vecs[v] /\ c = Capacity(mem, vecs[v])
         \/ /\ e.need \in Nat \ {0} /\ a = arena.allocated + HEADER
            /\ a + ElemSize[v] * c <= arena.allocated + e.need
  BY <1>6, <1>7 DEF Expansion
<1>9. /\ IsVector(mem', a, s + 1, c) /\ OnlyIn(mem', m, v, a, c)
      /\ MadeRoom(mem', m, v, a, s, at, x)
  <2>1. mem' = MovedUp(m, v, a, at, x) /\ IsVector(m, a, s + 1, c)
    BY <1>3, <1>7, <1>8
  <2>. QED
    BY ONLY v \in Vecs, <1>5, <2>1, MovesUp
<1>10. ChangesVector(v, a, s + 1, c)
  <2>1. arena \in [ptr : {NULL, 1}, allocated : Nat, size : Nat]
    BY DEF Inductive, Arenas, TypeOK
  <2>2. OnlyIn(mem', mem, v, a, c)
    BY <1>8, <1>9, OnlyInAgain
  <2>3. vecs' = [vecs EXCEPT ![v] = a] /\ UNCHANGED <<char_arena, copies, scratch, stage>>
    BY <1>3, <1>7
  <2>4. CASE e.need = 0 /\ vecs[v] # NULL /\ a = vecs[v] /\ c = Capacity(mem, vecs[v])
    <3>1. EndOf(v) <= arena.allocated
      BY <1>3, <2>4, VectorThere
    <3>2. a + ElemSize[v] * c <= arena'.allocated
      BY <1>3, <2>4, <3>1 DEF EndOf
    <3>3. arena' = arena
      BY <1>3, <2>4
    <3>4. InPlaceOrBehind(v, a, c)
      BY <2>4 DEF InPlaceOrBehind
    <3>. QED
      BY <1>9, <2>1, <2>2, <2>3, <3>2, <3>3, <3>4 DEF ChangesVector
  <2>5. CASE /\ e.need \in Nat \ {0} /\ a = arena.allocated + HEADER
             /\ a + ElemSize[v] * c <= arena.allocated + e.need
    <3>1. arena'.ptr = arena.ptr /\ arena'.allocated = arena.allocated + e.need
      BY <1>3, <2>1, <2>5 DEF Bumped
    <3>2. arena'.allocated \in Nat /\ arena.allocated <= arena'.allocated
      BY <2>1, <2>5, <3>1
    <3>3. InPlaceOrBehind(v, a, c) /\ a + ElemSize[v] * c <= arena'.allocated
      BY <2>5, <3>1 DEF InPlaceOrBehind
    <3>. QED
      BY <1>9, <2>2, <2>3, <3>1, <3>2, <3>3 DEF ChangesVector
  <2>. QED
    BY <1>8, <2>4, <2>5
<1>11. Layout' /\ UNCHANGED <<scratch, Texts>>
  BY <1>3, <1>10, LayoutStays
<1>12. PICK q : q = Elements(v)
  OBVIOUS
<1>13. q \in Seq(Nat) /\ Len(q) = s /\ \A i \in 1 .. s : q[i] = Elem(mem, v, vecs[v], i - 1)
  BY <1>3, <1>4, <1>12, ElementsAre
<1>14. PICK r : r = [i \in 1 .. s + 1 |-> Elem(mem', v, a, i - 1)]
  OBVIOUS
<1>15. ASSUME NEW i \in 1 .. s + 1
       PROVE  r[i] = IF i <= at THEN q[i] ELSE IF i = at + 1 THEN x ELSE q[i - 1]
  <2>1. i - 1 \in 0 .. s /\ r[i] = Elem(mem', v, a, i - 1)
    BY <1>5, <1>14
  <2>2. CASE i <= at
    <3>1. i - 1 < at /\ i - 1 \in 0 .. s - 1 /\ i \in 1 .. s
      BY <1>5, <2>2
    <3>2. r[i] = Elem(m, v, a, i - 1) /\ Elem(m, v, a, i - 1) = Elem(mem, v, vecs[v], i - 1)
      BY <1>8, <1>9, <2>1, <3>1 DEF MadeRoom
    <3>. QED
      BY <1>13, <2>2, <3>1, <3>2
  <2>3. CASE i = at + 1
    <3>1. i - 1 = at /\ ~(i - 1 < at) /\ ~(i <= at)
      BY <1>5, <2>3
    <3>. QED
      BY <1>9, <2>1, <2>3, <3>1 DEF MadeRoom
  <2>4. CASE i > at + 1
    <3>1. /\ ~(i - 1 < at) /\ i - 1 # at /\ i - 1 - 1 \in 0 .. s - 1 /\ i - 1 \in 1 .. s
          /\ ~(i <= at) /\ i # at + 1
      BY <1>5, <2>4
    <3>2. /\ r[i] = Elem(m, v, a, i - 1 - 1)
          /\ Elem(m, v, a, i - 1 - 1) = Elem(mem, v, vecs[v], i - 1 - 1)
      BY <1>8, <1>9, <2>1, <3>1 DEF MadeRoom
    <3>3. q[i - 1] = Elem(mem, v, vecs[v], i - 1 - 1)
      BY <1>13, <3>1
    <3>. QED
      BY <3>1, <3>2, <3>3
  <2>. QED
    BY <1>5, <2>2, <2>3, <2>4
<1>16. r = Contents!Inserted(q, at, x)
  <2>1. PICK t : t = Contents!Inserted(q, at, x)
    OBVIOUS
  <2>2. x \in Nat /\ at \in 0 .. Len(q)
    BY <1>5, <1>13, MemoryAssumption
  <2>3. HasInserted(t, q, at, x)
    BY <1>13, <2>1, <2>2, InsertedIs
  <2>4. DOMAIN t = 1 .. s + 1 /\ t = [i \in 1 .. s + 1 |-> t[i]]
    BY <1>13, <2>3 DEF HasInserted
  <2>5. \A i \in 1 .. s + 1 : t[i] = r[i]
    BY <1>13, <1>15, <2>3 DEF HasInserted
  <2>6. r = [i \in 1 .. s + 1 |-> r[i]]
    BY <1>14
  <2>. QED
    BY <2>1, <2>4, <2>5, <2>6
<1>. QED
  <2>1. Seqs' = [Seqs EXCEPT ![v] = r]
    BY <1>3, <1>10, <1>14, OneChanges DEF Seqs
  <2>2. Seqs[v] = q
    BY <1>12 DEF Seqs
  <2>. QED
    BY <1>11, <1>16, <2>1, <2>2

(* vec_pop: the last element goes, and nothing else does.                     *)
LEMMA PopIs ==
    ASSUME Inductive, NEW v \in Vecs, vec_pop(v)
    PROVE  /\ Layout' /\ UNCHANGED <<scratch, Texts>>
           /\ Seqs[v] # <<>> /\ Seqs' = [Seqs EXCEPT ![v] = Front(Seqs[v])]
<1>1. /\ stage = "running" /\ Size(mem, vecs[v]) > 0 /\ mem' = Shrunk(mem, v)
      /\ UNCHANGED <<arena, char_arena, vecs, scratch, copies, stage>>
  BY DEF vec_pop, Running
<1>2. PICK a, s, c : a = vecs[v] /\ s = Size(mem, vecs[v]) /\ c = Capacity(mem, vecs[v])
  OBVIOUS
<1>3. s \in Nat \ {0} /\ a # NULL /\ IsVector(mem, a, s, c) /\ EndOf(v) <= arena.allocated
  BY <1>1, <1>2, VectorThere
<1>4. a \in Nat /\ HEADER <= a /\ c \in Nat \ {0} /\ s <= c /\ Capacity(mem, a) = c
  BY <1>3 DEF IsVector
<1>5. Wrote(mem', mem, SizeAt(a), s - 1)
  <2>1. mem' = Write(mem, SizeAt(a), s - 1)
    BY <1>1, <1>2 DEF Shrunk
  <2>. QED
    BY <2>1, ReadWrite
<1>6. /\ SizeAt(a) \in BytesOf(v, a, c) /\ SizeAt(a) # CapacityAt(a)
      /\ \A i \in 0 .. c - 1 : ElemAt(v, a, i) # SizeAt(a)
  BY <1>4, Addresses
<1>7. ChangesVector(v, a, s - 1, c)
  <2>1. IsVector(mem', a, s - 1, c)
    BY <1>3, <1>4, <1>5, <1>6 DEF IsVector, Wrote, Size, Capacity
  <2>2. OnlyIn(mem', mem, v, a, c)
    BY <1>5, <1>6 DEF Wrote, OnlyIn
  <2>3. vecs' = [vecs EXCEPT ![v] = a]
    BY <1>1, <1>2 DEF Inductive, Arenas, TypeOK
  <2>4. arena'.allocated \in Nat /\ arena.allocated <= arena'.allocated /\ arena'.ptr = arena.ptr
    BY <1>1 DEF Inductive, Arenas, TypeOK
  <2>5. a + ElemSize[v] * c <= arena'.allocated
    BY <1>1, <1>2, <1>3 DEF EndOf
  <2>6. InPlaceOrBehind(v, a, c)
    BY <1>2, <1>3 DEF InPlaceOrBehind
  <2>. QED
    BY <1>1, <2>1, <2>2, <2>3, <2>4, <2>5, <2>6 DEF ChangesVector
<1>8. Layout' /\ UNCHANGED <<scratch, Texts>>
  BY <1>1, <1>7, LayoutStays
<1>9. PICK q : q = Elements(v)
  OBVIOUS
<1>10. q \in Seq(Nat) /\ Len(q) = s /\ \A i \in 1 .. s : q[i] = Elem(mem, v, a, i - 1)
  BY <1>1, <1>2, <1>9, ElementsAre
<1>11. PICK r : r = [i \in 1 .. s - 1 |-> Elem(mem', v, a, i - 1)]
  OBVIOUS
<1>12. ASSUME NEW i \in 1 .. s - 1
       PROVE  r[i] = q[i]
  <2>1. i \in 1 .. s /\ i - 1 \in 0 .. c - 1 /\ r[i] = Elem(mem', v, a, i - 1)
    BY <1>3, <1>4, <1>11
  <2>. QED
    BY <1>5, <1>6, <1>10, <2>1 DEF Wrote, Elem
<1>13. q # <<>> /\ r = Front(q)
  <2>1. q # <<>>
    BY <1>3, <1>10
  <2>2. PICK t : t = Front(q)
    OBVIOUS
  <2>3. t \in Seq(Nat) /\ Len(t) = s - 1 /\ \A i \in 1 .. s - 1 : t[i] = q[i]
    BY <1>10, <2>1, <2>2, FrontIs
  <2>4. t = [i \in 1 .. s - 1 |-> t[i]] /\ r = [i \in 1 .. s - 1 |-> r[i]]
    BY <1>11, <2>3
  <2>. QED
    BY <1>12, <2>1, <2>2, <2>3, <2>4
<1>. QED
  <2>1. Seqs' = [Seqs EXCEPT ![v] = r]
    BY <1>1, <1>7, <1>11, OneChanges DEF Seqs
  <2>2. Seqs[v] = q
    BY <1>9 DEF Seqs
  <2>. QED
    BY <1>8, <1>13, <2>1, <2>2

-----------------------------------------------------------------------------
(* The scratch buffer, and the strings copied from it.                        *)

LEMMA StoppedSame ==
    ASSUME Inductive, stage' = "crashed", UNCHANGED <<arena, mem, vecs, scratch, copies>>
    PROVE  Layout' /\ UNCHANGED <<Seqs, scratch, Texts>>
BY DEF Inductive, Layout, Seqs, Elements, Texts, Size, ElemAt

(* What is done to the buffer leaves vectors and copies alone.                *)
LEMMA BufferIs ==
    ASSUME Inductive, NEW s \in Seq(Nat \ {0}), Len(s) <= MAX_STRING_BUFFER, scratch' = s,
           UNCHANGED <<arena, char_arena, mem, vecs, copies, stage>>
    PROVE  Layout' /\ UNCHANGED <<Seqs, Texts>>
<1>1. UNCHANGED <<Seqs, Texts>>
  BY DEF Seqs, Elements, Texts, Size, ElemAt
<1>2. UNCHANGED <<VectorsPlaced, CopiesPlaced, BelowIsWritten>>
  BY DEF VectorsPlaced, Placed, NextTo, EndOf, Size, Capacity, CopiesPlaced, BelowIsWritten
<1>. QED
  BY <1>1, <1>2 DEF Inductive, Layout

LEMMA AppendIs ==
    ASSUME Inductive, NEW w \in Words, scratch_buffer_append(w), ~Stop("crashed")
    PROVE  Layout' /\ UNCHANGED <<Seqs, Texts>> /\ scratch' = scratch \o w
<1>1. /\ Len(w) + Len(scratch) <= MAX_STRING_BUFFER - 1 /\ scratch' = scratch \o w
      /\ UNCHANGED <<arena, char_arena, mem, vecs, copies, stage>>
  <2>1. w \in Seq(Nat \ {0}) /\ scratch \in Seq(Nat \ {0}) /\ MAX_STRING_BUFFER \in Nat
    BY MemoryAssumption DEF Inductive, Layout
  <2>2. Len(w) \in Nat /\ Len(scratch) \in Nat
    BY <2>1, LenProperties
  <2>. QED
    BY <2>1, <2>2 DEF scratch_buffer_append
<1>2. w \in Seq(Nat \ {0}) /\ scratch \in Seq(Nat \ {0})
  BY MemoryAssumption DEF Inductive, Layout
<1>3. PICK s : s = scratch \o w
  OBVIOUS
<1>4. s \in Seq(Nat \ {0}) /\ Len(s) = Len(scratch) + Len(w)
  BY <1>2, <1>3
<1>5. Len(s) <= MAX_STRING_BUFFER
  BY <1>1, <1>2, <1>4, LenProperties, MemoryAssumption
<1>. QED
  BY <1>1, <1>3, <1>4, <1>5, BufferIs

LEMMA ClearIs ==
    ASSUME Inductive, scratch_buffer_clear
    PROVE  Layout' /\ UNCHANGED <<Seqs, Texts>> /\ scratch' = <<>>
<1>1. <<>> \in Seq(Nat \ {0}) /\ Len(<<>>) <= MAX_STRING_BUFFER
  BY EmptySeq, MemoryAssumption
<1>2. scratch' = <<>> /\ UNCHANGED <<arena, char_arena, mem, vecs, copies, stage>>
  BY DEF scratch_buffer_clear, Truncates
<1>. QED
  BY <1>1, <1>2, BufferIs

LEMMA DropIs ==
    ASSUME Inductive, DropLast, ~Stop("crashed")
    PROVE  Layout' /\ UNCHANGED <<Seqs, Texts>> /\ scratch # <<>> /\ scratch' = Front(scratch)
<1>1. /\ scratch # <<>> /\ scratch' = Front(scratch)
      /\ UNCHANGED <<arena, char_arena, mem, vecs, copies, stage>>
  BY DEF DropLast, Truncates
<1>2. scratch \in Seq(Nat \ {0}) /\ Len(scratch) <= MAX_STRING_BUFFER
  BY DEF Inductive, Layout
<1>3. PICK s : s = Front(scratch)
  OBVIOUS
<1>4. s \in Seq(Nat \ {0}) /\ Len(s) = Len(scratch) - 1
  BY <1>1, <1>2, <1>3, FrontIs
<1>5. Len(s) <= MAX_STRING_BUFFER
  BY <1>2, <1>4, LenProperties, MemoryAssumption
<1>. QED
  BY <1>1, <1>3, <1>4, <1>5, BufferIs

(* scratch_buffer_copy: the characters lie where nobody has written, and the  *)
(* byte behind them, that nobody writes, ends them.                           *)
LEMMA ReadCharacters ==
    ASSUME NEW at \in Nat, NEW s \in Seq(Nat), char_arena.ptr = 2, NEW m, NEW n,
           n = Over(Characters(at, s), m)
    PROVE  /\ \A k \in 0 .. Len(s) - 1 : Read(n, 2, at + k) = s[k + 1]
           /\ \A p, b : (p # 2 \/ b \notin at .. at + Len(s) - 1) => Read(n, p, b) = Read(m, p, b)
           /\ DOMAIN n \subseteq DOMAIN m \union ({2} \X (at .. at + Len(s) - 1))
<1>. DEFINE places == {<<2, at + k>> : k \in 0 .. Len(s) - 1}
<1>1. PICK f : f = [p \in places |-> s[p[2] - at + 1]]
  OBVIOUS
<1>2. n = Over(f, m) /\ DOMAIN f = places
  BY <1>1 DEF Characters
<1>3. ASSUME NEW k \in 0 .. Len(s) - 1
      PROVE  <<2, at + k>> \in places /\ f[<<2, at + k>>] = s[k + 1]
  <2>1. <<2, at + k>> \in places
    OBVIOUS
  <2>2. <<2, at + k>>[2] - at + 1 = k + 1
    OBVIOUS
  <2>. QED
    BY <1>1, <2>1, <2>2
<1>4. ASSUME NEW p, NEW b, <<p, b>> \in places
      PROVE  p = 2 /\ b \in at .. at + Len(s) - 1
  <2>1. PICK k \in 0 .. Len(s) - 1 : <<p, b>> = <<2, at + k>>
    BY <1>4
  <2>2. p = 2 /\ b = at + k /\ Len(s) \in Nat
    BY <2>1, LenProperties
  <2>. QED
    BY <2>2
<1>5. ASSUME NEW q \in places
      PROVE  q \in {2} \X (at .. at + Len(s) - 1)
  <2>1. PICK k \in 0 .. Len(s) - 1 : q = <<2, at + k>>
    OBVIOUS
  <2>2. at + k \in at .. at + Len(s) - 1
    BY LenProperties
  <2>. QED
    BY <2>1, <2>2
<1>. HIDE DEF places
<1>6. /\ \A p, b : Read(n, p, b) = IF <<p, b>> \in places THEN f[<<p, b>>] ELSE Read(m, p, b)
      /\ DOMAIN n = places \union DOMAIN m
  <2>1. /\ \A p, b : Read(Over(f, m), p, b) =
                         IF <<p, b>> \in DOMAIN f THEN f[<<p, b>>] ELSE Read(m, p, b)
        /\ DOMAIN Over(f, m) = DOMAIN f \union DOMAIN m
    BY ReadOver
  <2>. QED
    BY ONLY <1>2, <2>1
<1>7. \A k \in 0 .. Len(s) - 1 : Read(n, 2, at + k) = s[k + 1]
  BY <1>3, <1>6
<1>8. \A p, b : (p # 2 \/ b \notin at .. at + Len(s) - 1) => Read(n, p, b) = Read(m, p, b)
  BY <1>4, <1>6
<1>. QED
  BY <1>5, <1>6, <1>7, <1>8

(* Vectors do not notice what is written elsewhere.                           *)
LEMMA VectorsSame ==
    ASSUME Inductive, stage = "running", UNCHANGED <<arena, vecs>>,
           \A b : Read(mem', 1, b) = Read(mem, 1, b)
    PROVE  VectorsPlaced' /\ UNCHANGED Seqs
<1>1. arena.ptr = 1 /\ VectorsPlaced
  BY DEF Inductive, Arenas, Layout
<1>2. \A v \in Vecs : /\ Size(mem, vecs[v])' = Size(mem, vecs[v])
                      /\ Capacity(mem, vecs[v])' = Capacity(mem, vecs[v])
  BY <1>1 DEF Size, Capacity
<1>3. \A v \in Vecs : EndOf(v)' = EndOf(v) /\ (Placed(v) => Placed(v)')
  BY <1>2 DEF EndOf, Placed
<1>4. \A v, w \in Vecs : NextTo(v, w) => NextTo(v, w)'
  BY <1>3 DEF NextTo
<1>5. VectorsPlaced'
  BY <1>1, <1>3, <1>4 DEF VectorsPlaced
<1>6. \A v \in Vecs : Elements(v)' = Elements(v)
  BY <1>1, <1>2 DEF Elements, ElemAt
<1>. QED
  BY <1>5, <1>6 DEF Seqs

LEMMA CopyIs ==
    ASSUME Inductive, scratch_buffer_copy, ~Stop("crashed")
    PROVE  Layout' /\ UNCHANGED <<Seqs, scratch>> /\ Texts' = Append(Texts, scratch)
<1>0. PICK at, L : at = char_arena.allocated /\ L = Len(scratch)
  OBVIOUS
<1>1. /\ arena.ptr = 1 /\ char_arena \in [ptr : {NULL, 2}, allocated : Nat, size : Nat]
      /\ char_arena.ptr = 2 /\ at \in Nat /\ arena.allocated \in Nat
      /\ VectorsPlaced /\ CopiesPlaced /\ BelowIsWritten /\ stage = "running"
      /\ scratch \in Seq(Nat \ {0}) /\ scratch \in Seq(Nat) /\ L \in Nat /\ L <= MAX_STRING_BUFFER
  <2>1. stage = "running"
    BY DEF scratch_buffer_copy, Running
  <2>. QED
    BY <1>0, <2>1 DEF Inductive, Arenas, TypeOK, Layout
<1>2. /\ mem' = Over(Characters(at, scratch), mem)
      /\ copies' = Append(copies, <<2, at>>)
      /\ char_arena' = Bumped(char_arena, L + 1)
      /\ UNCHANGED <<arena, vecs, scratch, stage>>
  BY <1>0, <1>1 DEF scratch_buffer_copy, StringBytes
<1>3. char_arena'.allocated = at + L + 1
  BY <1>0, <1>1, <1>2 DEF Bumped
<1>4. /\ \A k \in 0 .. L - 1 : Read(mem', 2, at + k) = scratch[k + 1]
      /\ \A p, b : (p # 2 \/ b \notin at .. at + L - 1) => Read(mem', p, b) = Read(mem, p, b)
      /\ DOMAIN mem' \subseteq DOMAIN mem \union ({2} \X (at .. at + L - 1))
  <2>1. /\ at \in Nat /\ scratch \in Seq(Nat) /\ char_arena.ptr = 2
        /\ mem' = Over(Characters(at, scratch), mem)
    BY <1>1, <1>2
  <2>2. /\ \A k \in 0 .. Len(scratch) - 1 : Read(mem', 2, at + k) = scratch[k + 1]
        /\ \A p, b : (p # 2 \/ b \notin at .. at + Len(scratch) - 1) =>
                         Read(mem', p, b) = Read(mem, p, b)
        /\ DOMAIN mem' \subseteq DOMAIN mem \union ({2} \X (at .. at + Len(scratch) - 1))
    BY <2>1, ReadCharacters
  <2>. QED
    BY <1>0, <2>2
<1>5. VectorsPlaced' /\ UNCHANGED Seqs
  BY <1>1, <1>2, <1>4, VectorsSame
<1>6. CharactersStay
  BY <1>0, <1>1, <1>3, <1>4 DEF CharactersStay
<1>7. PICK new \in {2} \X Nat : new = <<2, at>> /\ new[1] = 2 /\ new[2] = at
  <2>1. <<2, at>> \in {2} \X Nat
    BY <1>1
  <2>. QED
    BY <2>1
<1>8. IsText(mem', new, L)
  <2>1. Read(mem', 2, at + L) = 0
    <3>1. at + L \notin at .. at + L - 1 /\ at + L \notin 0 .. at - 1
      BY <1>1
    <3>2. <<2, at + L>> \notin DOMAIN mem
      BY <1>0, <1>1, <3>1 DEF BelowIsWritten
    <3>. QED
      BY <1>4, <3>1, <3>2 DEF Read
  <2>2. \A k \in 0 .. L - 1 : Read(mem', 2, at + k) # 0
    <3>1. \A k \in 0 .. L - 1 : k + 1 \in 1 .. Len(scratch)
      BY <1>0, <1>1
    <3>2. \A i \in 1 .. Len(scratch) : scratch[i] # 0
      BY <1>1, ElementOfSeq
    <3>. QED
      BY <1>4, <3>1, <3>2
  <2>3. L \in 0 .. MAX_STRING_BUFFER
    BY <1>1, MemoryAssumption
  <2>. QED
    BY <1>7, <2>1, <2>2, <2>3 DEF IsText
<1>9. HasText(mem', new, char_arena'.allocated)
  <2>1. new[2] + L < char_arena'.allocated /\ L \in 0 .. MAX_STRING_BUFFER
    BY <1>1, <1>3, <1>7, MemoryAssumption
  <2>. QED
    BY <1>8, <2>1 DEF HasText
<1>10. TextAt(mem', new) = scratch
  <2>1. TextAt(mem', new) = [i \in 1 .. L |-> Read(mem', new[1], new[2] + i - 1)]
    BY <1>8, TextIs
  <2>2. ASSUME NEW i \in 1 .. L
        PROVE  Read(mem', new[1], new[2] + i - 1) = scratch[i]
    <3>1. i - 1 \in 0 .. L - 1 /\ i - 1 + 1 = i /\ at + i - 1 = at + (i - 1)
      BY <1>1
    <3>. QED
      BY <1>4, <1>7, <3>1
  <2>3. scratch = [i \in 1 .. L |-> scratch[i]]
    BY <1>0, <1>1
  <2>4. [i \in 1 .. L |-> Read(mem', new[1], new[2] + i - 1)] = [i \in 1 .. L |-> scratch[i]]
    BY <2>2
  <2>. QED
    BY ONLY <2>1, <2>3, <2>4, Zenon
<1>11. /\ copies \in Seq({2} \X Nat) /\ DOMAIN copies = 1 .. Len(copies) /\ Len(copies) \in Nat
       /\ \A k \in DOMAIN copies : copies[k] \in {2} \X Nat /\ HasText(mem, copies[k], at)
  BY <1>0, <1>1 DEF CopiesPlaced
<1>12. ASSUME NEW k \in DOMAIN copies
       PROVE  /\ HasText(mem', copies[k], char_arena'.allocated)
              /\ TextAt(mem', copies[k]) = TextAt(mem, copies[k])
  BY <1>0, <1>6, <1>11, CopyStays
<1>13. /\ copies' \in Seq({2} \X Nat) /\ DOMAIN copies' = 1 .. Len(copies) + 1
       /\ copies'[Len(copies) + 1] = new /\ \A k \in DOMAIN copies : copies'[k] = copies[k]
  BY <1>2, <1>7, <1>11
<1>14. CopiesPlaced'
  <2>1. ASSUME NEW k \in DOMAIN copies'
        PROVE  HasText(mem', copies'[k], char_arena'.allocated)
    <3>1. CASE k = Len(copies) + 1
      BY <1>9, <1>13, <3>1
    <3>2. CASE k # Len(copies) + 1
      <4>1. k \in DOMAIN copies
        BY <1>11, <1>13, <3>2
      <4>. QED
        BY <1>12, <1>13, <4>1
    <3>. QED
      BY <3>1, <3>2
  <2>. QED
    BY <1>13, <2>1 DEF CopiesPlaced
<1>15. BelowIsWritten'
  <2>1. /\ at .. at + L - 1 \subseteq 0 .. char_arena'.allocated - 1
        /\ 0 .. at - 1 \subseteq 0 .. char_arena'.allocated - 1
    BY <1>1, <1>3
  <2>. QED
    BY <1>0, <1>1, <1>2, <1>4, <2>1 DEF BelowIsWritten
<1>16. Texts' = Append(Texts, scratch)
  <2>1. PICK t : t = Texts
    OBVIOUS
  <2>2. PICK S : S = {t[k] : k \in DOMAIN copies} \union {scratch}
    OBVIOUS
  <2>3. t \in [1 .. Len(copies) -> S]
    <3>1. t = [k \in 1 .. Len(copies) |-> t[k]]
      BY <1>11, <2>1 DEF Texts
    <3>2. \A k \in 1 .. Len(copies) : t[k] \in S
      BY <1>11, <2>2
    <3>. QED
      BY ONLY <3>1, <3>2
  <2>4. t \in Seq(S) /\ Len(t) = Len(copies) /\ scratch \in S
    <3>1. PICK n \in Nat : n = Len(copies)
      BY <1>11
    <3>2. t \in [1 .. n -> S]
      BY <2>3, <3>1
    <3>3. t \in Seq(S) /\ Len(t) = n
      BY ONLY <3>2, n \in Nat
    <3>4. scratch \in S
      BY <2>2
    <3>. QED
      BY <3>1, <3>3, <3>4
  <2>5. PICK u : u = Append(t, scratch)
    OBVIOUS
  <2>6. /\ u \in Seq(S) /\ Len(u) = Len(copies) + 1 /\ u[Len(copies) + 1] = scratch
        /\ \A k \in 1 .. Len(copies) : u[k] = t[k]
    BY <2>4, <2>5
  <2>7. u = [k \in 1 .. Len(copies) + 1 |-> u[k]]
    BY <1>11, <2>6
  <2>8. Texts' = [k \in 1 .. Len(copies) + 1 |-> TextAt(mem', copies'[k])]
    BY <1>13 DEF Texts
  <2>9. ASSUME NEW k \in 1 .. Len(copies) + 1
        PROVE  TextAt(mem', copies'[k]) = u[k]
    <3>1. CASE k = Len(copies) + 1
      BY <1>10, <1>13, <2>6, <3>1
    <3>2. CASE k # Len(copies) + 1
      <4>1. k \in 1 .. Len(copies) /\ k \in DOMAIN copies
        BY <1>11, <3>2
      <4>2. t[k] = TextAt(mem, copies[k])
        BY <2>1, <4>1 DEF Texts
      <4>. QED
        BY <1>12, <1>13, <2>6, <4>1, <4>2
    <3>. QED
      BY <3>1, <3>2
  <2>. QED
    BY ONLY <2>1, <2>5, <2>7, <2>8, <2>9
<1>. QED
  BY <1>0, <1>1, <1>2, <1>5, <1>14, <1>15, <1>16 DEF Layout

(* memory_init, and its end: nothing is there yet, or any more.               *)
LEMMA InitIs ==
    ASSUME Inductive, memory_init
    PROVE  Layout' /\ UNCHANGED <<Seqs, scratch, Texts>>
<1>1. /\ stage = "start" /\ mem = <<>> /\ copies = <<>> /\ \A v \in Vecs : vecs[v] = NULL
      /\ scratch \in Seq(Nat \ {0}) /\ Len(scratch) <= MAX_STRING_BUFFER
      /\ UNCHANGED <<mem, vecs, scratch, copies>> /\ stage' \in {"crashed", "running"}
  BY DEF memory_init, Stop, Inductive, Layout
<1>2. \A v \in Vecs : Elements(v)' = Elements(v)
  BY <1>1 DEF Elements, Size
<1>3. UNCHANGED <<Seqs, Texts>>
  BY <1>1, <1>2 DEF Seqs, Texts
<1>4. DOMAIN <<>> = {} /\ <<>> \in Seq({2} \X Nat)
  OBVIOUS
<1>5. VectorsPlaced'
  BY <1>1 DEF VectorsPlaced
<1>6. CopiesPlaced'
  BY <1>1, <1>4 DEF CopiesPlaced
<1>7. BelowIsWritten'
  BY <1>1, <1>4 DEF BelowIsWritten
<1>. QED
  BY <1>1, <1>3, <1>5, <1>6, <1>7 DEF Layout

LEMMA ReleaseIs ==
    ASSUME Inductive, memory_release
    PROVE  /\ Layout' /\ UNCHANGED scratch
           /\ Seqs' = [v \in Vecs |-> <<>>] /\ Texts' = [k \in DOMAIN Texts |-> <<>>]
<1>1. /\ scratch \in Seq(Nat \ {0}) /\ Len(scratch) <= MAX_STRING_BUFFER
      /\ mem' = <<>> /\ UNCHANGED <<vecs, scratch, copies>> /\ stage' = "released"
  BY DEF memory_release, Inductive, Layout
<1>2. \A p, a : Read(<<>>, p, a) = 0
  BY DEF Read
<1>3. ASSUME NEW v \in Vecs
      PROVE  Elements(v)' = <<>>
  <2>1. Size(mem, vecs[v])' = 0
    BY <1>1, <1>2 DEF Size
  <2>. QED
    BY <2>1 DEF Elements
<1>4. ASSUME NEW p
      PROVE  TextAt(<<>>, p) = <<>>
  <2>1. 0 \in 0 .. MAX_STRING_BUFFER /\ 0 .. 0 - 1 = {}
    BY MemoryAssumption
  <2>2. IsText(<<>>, p, 0)
    BY <1>2, <2>1 DEF IsText
  <2>3. TextAt(<<>>, p) = [i \in 1 .. 0 |-> Read(<<>>, p[1], p[2] + i - 1)]
    BY <2>2, TextIs
  <2>. QED
    BY <2>3
<1>5. Texts' = [k \in DOMAIN Texts |-> <<>>]
  BY <1>1, <1>4 DEF Texts
<1>. QED
  BY <1>1, <1>3, <1>5 DEF Layout, Seqs

-----------------------------------------------------------------------------
(* Every step keeps the layout, and is one of Store, or none.                 *)

LEMMA LayoutStart == Init => Layout
<1>. SUFFICES ASSUME Init
              PROVE  Layout
  OBVIOUS
<1>1. scratch \in Seq(Nat \ {0}) /\ Len(scratch) <= MAX_STRING_BUFFER
  BY EmptySeq, MemoryAssumption DEF Init
<1>. QED
  BY <1>1 DEF Init, Layout

StoreStep == Contents!Next \/ UNCHANGED <<Seqs, scratch, Texts>>

LEMMA InsertInStore ==
    ASSUME Inductive, NEW v \in Vecs, vec_insert_at(v)
    PROVE  Layout' /\ StoreStep
<1>1. PICK x \in Values, at \in 0 .. Size(mem, vecs[v]) : InsertAt(v, at, x)
  BY DEF vec_insert_at
<1>2. CASE Stop("crashed")
  <2>1. stage' = "crashed" /\ UNCHANGED <<arena, mem, vecs, scratch, copies>>
    BY <1>2 DEF Stop
  <2>. QED
    BY <2>1, StoppedSame DEF StoreStep
<1>3. CASE ~Stop("crashed")
  <2>1. /\ Layout' /\ UNCHANGED <<scratch, Texts>>
        /\ Seqs' = [Seqs EXCEPT ![v] = Contents!Inserted(Seqs[v], at, x)]
    BY <1>1, <1>3, InsertIs
  <2>2. at \in 0 .. Len(Seqs[v])
    <3>1. stage = "running"
      BY <1>1 DEF InsertAt, Running
    <3>2. Len(Elements(v)) = Size(mem, vecs[v])
      BY <3>1, ElementsAre
    <3>. QED
      BY <3>2 DEF Seqs
  <2>3. Contents!Insert(v, at, x)
    BY <2>1, <2>2 DEF Contents!Insert, Contents!Change, Seqs, Texts
  <2>4. Contents!Next
    BY <2>2, <2>3 DEF Contents!Next, Seqs
  <2>. QED
    BY <2>1, <2>4 DEF StoreStep
<1>. QED
  BY <1>2, <1>3

LEMMA PopInStore ==
    ASSUME Inductive, NEW v \in Vecs, vec_pop(v)
    PROVE  Layout' /\ StoreStep
<1>1. /\ Layout' /\ UNCHANGED <<scratch, Texts>>
      /\ Seqs[v] # <<>> /\ Seqs' = [Seqs EXCEPT ![v] = Front(Seqs[v])]
  BY PopIs
<1>2. Contents!Pop(v)
  BY <1>1 DEF Contents!Pop, Contents!Change, Contents!Front, Front, Seqs, Texts
<1>. QED
  BY <1>1, <1>2 DEF Contents!Next, StoreStep

LEMMA BufferInStore ==
    ASSUME Inductive, \/ \E w \in Words : scratch_buffer_append(w)
                      \/ scratch_buffer_clear \/ DropLast
    PROVE  Layout' /\ StoreStep
<1>1. CASE Stop("crashed")
  <2>1. stage' = "crashed" /\ UNCHANGED <<arena, mem, vecs, scratch, copies>>
    BY <1>1 DEF Stop
  <2>. QED
    BY <2>1, StoppedSame DEF StoreStep
<1>2. ASSUME NEW w \in Words, scratch_buffer_append(w), ~Stop("crashed")
      PROVE  Layout' /\ StoreStep
  <2>1. Layout' /\ UNCHANGED <<Seqs, Texts>> /\ scratch' = scratch \o w
    BY <1>2, AppendIs
  <2>2. Contents!Buffer(scratch \o w)
    BY <2>1 DEF Contents!Buffer, Seqs, Texts
  <2>. QED
    BY <2>1, <2>2 DEF Contents!Next, StoreStep
<1>3. CASE scratch_buffer_clear
  <2>1. Layout' /\ UNCHANGED <<Seqs, Texts>> /\ scratch' = <<>>
    BY <1>3, ClearIs
  <2>2. Contents!Buffer(<<>>)
    BY <2>1 DEF Contents!Buffer, Seqs, Texts
  <2>. QED
    BY <2>1, <2>2 DEF Contents!Next, StoreStep
<1>4. ASSUME DropLast, ~Stop("crashed")
      PROVE  Layout' /\ StoreStep
  <2>1. Layout' /\ UNCHANGED <<Seqs, Texts>> /\ scratch # <<>> /\ scratch' = Front(scratch)
    BY <1>4, DropIs
  <2>2. scratch # <<>> /\ Contents!Buffer(Contents!Front(scratch))
    BY <2>1 DEF Contents!Buffer, Contents!Front, Front, Seqs, Texts
  <2>. QED
    BY <2>1, <2>2 DEF Contents!Next, StoreStep
<1>. QED
  BY <1>1, <1>2, <1>3, <1>4

LEMMA CopyInStore ==
    ASSUME Inductive, scratch_buffer_copy
    PROVE  Layout' /\ StoreStep
<1>1. CASE Stop("crashed")
  <2>1. stage' = "crashed" /\ UNCHANGED <<arena, mem, vecs, scratch, copies>>
    BY <1>1 DEF Stop
  <2>. QED
    BY <2>1, StoppedSame DEF StoreStep
<1>2. CASE ~Stop("crashed")
  <2>1. Layout' /\ UNCHANGED <<Seqs, scratch>> /\ Texts' = Append(Texts, scratch)
    BY <1>2, CopyIs
  <2>2. Contents!Copy
    BY <2>1 DEF Contents!Copy, Seqs, Texts
  <2>. QED
    BY <2>1, <2>2 DEF Contents!Next, StoreStep
<1>. QED
  BY <1>1, <1>2

LEMMA ReleaseInStore ==
    ASSUME Inductive, memory_release
    PROVE  Layout' /\ StoreStep
<1>1. /\ Layout' /\ UNCHANGED scratch
      /\ Seqs' = [v \in Vecs |-> <<>>] /\ Texts' = [k \in DOMAIN Texts |-> <<>>]
  BY ReleaseIs
<1>2. Contents!Gone
  BY <1>1 DEF Contents!Gone, Seqs, Texts
<1>. QED
  BY <1>1, <1>2 DEF Contents!Next, StoreStep

LEMMA StutterInStore ==
    ASSUME Inductive, UNCHANGED vars
    PROVE  Layout' /\ StoreStep
<1>1. UNCHANGED <<Seqs, scratch, Texts>>
  BY DEF vars, Seqs, Elements, Texts, Size, ElemAt
<1>2. UNCHANGED <<VectorsPlaced, CopiesPlaced, BelowIsWritten>>
  BY DEF vars, VectorsPlaced, Placed, NextTo, EndOf, Size, Capacity, CopiesPlaced, BelowIsWritten
<1>. QED
  BY <1>1, <1>2 DEF vars, Inductive, Layout, StoreStep

LEMMA StepsInStore ==
    ASSUME Inductive, [Next]_vars
    PROVE  Layout' /\ StoreStep
<1>1. CASE memory_init
  BY <1>1, InitIs DEF StoreStep
<1>2. CASE memory_release
  BY <1>2, ReleaseInStore
<1>3. ASSUME NEW v \in Vecs, vec_insert_at(v) \/ vec_pop(v)
      PROVE  Layout' /\ StoreStep
  BY <1>3, InsertInStore, PopInStore
<1>4. CASE (\E w \in Words : scratch_buffer_append(w)) \/ scratch_buffer_clear \/ DropLast
  BY <1>4, BufferInStore
<1>5. CASE scratch_buffer_copy
  BY <1>5, CopyInStore
<1>6. CASE UNCHANGED vars
  BY <1>6, StutterInStore
<1>. QED
  BY <1>1, <1>2, <1>3, <1>4, <1>5, <1>6 DEF Next, Stopped

-----------------------------------------------------------------------------
LEMMA ArenasStep ==
    ASSUME Arenas, [Next]_vars
    PROVE  Arenas'
<1>1. CASE memory_init
  BY <1>1, InitKeeps
<1>2. CASE memory_release
  BY <1>2, ReleaseKeeps
<1>3. ASSUME NEW v \in Vecs, vec_insert_at(v) \/ vec_pop(v)
      PROVE  Arenas'
  BY <1>3, InsertKeeps, PopKeeps
<1>4. ASSUME NEW w \in Words, scratch_buffer_append(w)
      PROVE  Arenas'
  BY <1>4, AppendKeeps
<1>5. CASE scratch_buffer_clear
  <2>1. <<>> \in Seq(Nat)
    OBVIOUS
  <2>. QED
    BY <1>5, <2>1, TruncateKeeps DEF scratch_buffer_clear
<1>6. CASE DropLast
  BY <1>6, DropLastKeeps
<1>7. CASE scratch_buffer_copy
  BY <1>7, CopyKeeps
<1>8. CASE UNCHANGED vars
  BY <1>8 DEF vars, Arenas, TypeOK, LiesBelow, VmemOf
<1>. QED
  BY <1>1, <1>2, <1>3, <1>4, <1>5, <1>6, <1>7, <1>8 DEF Next, Stopped

(* Every reachable state has its blocks apart, its vectors in bytes of their  *)
(* own and its copied strings ended by a byte nobody writes.                  *)
THEOREM AlwaysInductive == Spec => []Inductive
<1>1. Inductive /\ [Next]_vars => Inductive'
  BY ArenasStep, StepsInStore DEF Inductive
<1>2. Init => Inductive
  BY ArenasStart, LayoutStart DEF Inductive
<1>. QED
  BY <1>1, <1>2, PTL DEF Spec

(* mmap_allocate hands out bytes of its mapping, and none of them twice, for  *)
(* arenas of any size, also where the system has granted less than was asked  *)
(* for, and for any calls of the vectors and strings above it.                *)
THEOREM BlocksStayApart == Spec => []BlocksApart
<1>1. Inductive => BlocksApart
  BY DEF Inductive, Arenas, TypeOK, BlocksApart, LiesBelow, Inside, VmemOf
<1>. QED
  BY <1>1, AlwaysInductive, PTL

(* The vectors of lib.h and the strings of stringutils.c are the sequences    *)
(* that Store describes: whatever is inserted and popped, wherever a vector   *)
(* moves when it grows, and however the calls mix, each has the values put in *)
(* it in their order, and a copied string stays what the buffer held.         *)
THEOREM KeepsContentsHolds == Spec => KeepsContents
<1>1. Init => Contents!Init
  <2>. SUFFICES ASSUME Init
                PROVE  Contents!Init
    OBVIOUS
  <2>1. \A v \in Vecs : Elements(v) = <<>>
    BY DEF Init, Elements, Size
  <2>. QED
    BY <2>1 DEF Init, Contents!Init
<1>2. Inductive /\ [Next]_vars => [Contents!Next]_Contents!vars
  BY StepsInStore DEF StoreStep, Contents!vars, Seqs, Texts
<1>. QED
  BY <1>1, <1>2, AlwaysInductive, PTL DEF Spec, KeepsContents, Contents!Spec
=============================================================================
