-------------------------------- MODULE Memory --------------------------------
(* vmem.c and malloc.c: two arenas, one for objects and one for characters,   *)
(* that hand out what they have in order and take nothing back; and what      *)
(* lives in them: the vectors of lib.h and the strings that are copied from   *)
(* the scratch buffer of stringutils.c.  Addresses count bytes.               *)
EXTENDS Integers, Sequences

CONSTANTS
    ARENA_MB, CHAR_ARENA_MB,          \* what memory_init asks for
    MAX_MB,                           \* its argument: neither arena gets more
    MB,                               \* the bytes of a megabyte
    MAX_STRING_BUFFER,
    INITIAL_CAPACITY,                 \* of a vector, 8 in expand_
    Vecs, ElemSize,                   \* the vectors, and the size of an element of each
    Values, Words,                    \* what is added to vectors and to the scratch buffer
    MaxCalls                          \* bound on the calls of a behaviour

ASSUME MemoryAssumption ==
    /\ {ARENA_MB, CHAR_ARENA_MB, MAX_MB, MB, INITIAL_CAPACITY} \subseteq Nat \ {0}
    /\ MAX_STRING_BUFFER \in Nat /\ MaxCalls \in Nat
    /\ ElemSize \in [Vecs -> {4, 8}]
    /\ Values \subseteq Nat /\ \A w \in Words : w \in Seq(Nat \ {0})

VARIABLES
    arena, char_arena,                \* [ptr, allocated, size]: a Vmem; ptr names a mapping
    mem,                              \* what has been written: from <<ptr, address>> to values
    vecs,                             \* each vector's pointer, NULL or its first element
    scratch,                          \* the first len characters of scratch_buffer
    copies,                           \* the pointers scratch_buffer_copy has returned
    blocks,                           \* history: what has been handed out, and not released
    allocations_done,
    calls, stage

vars == <<arena, char_arena, mem, vecs, scratch, copies, blocks, allocations_done, calls, stage>>

NULL == 0
Front(s) == SubSeq(s, 1, Len(s) - 1)
Released == [ptr |-> NULL, allocated |-> 0, size |-> 0]
Running == stage = "running" /\ calls < MaxCalls /\ calls' = calls + 1
Stop(how) ==
    /\ stage' = how
    /\ UNCHANGED <<arena, char_arena, mem, vecs, scratch, copies, blocks, allocations_done>>

-----------------------------------------------------------------------------
(* vmem.c.  The system may refuse a size, which is then halved down to a      *)
(* sixteenth.                                                                 *)

Clamped(mb) == IF mb > MAX_MB THEN MAX_MB ELSE mb
MinSize(size) == IF size \div 16 < 1 THEN size ELSE size \div 16
Mapped(ptr, size) ==
    {[ptr |-> ptr, allocated |-> 0, size |-> n] :
        n \in {m \in {size, size \div 2, size \div 4, size \div 8, size \div 16} : m >= MinSize(size)}}

(* mmap_allocate bumps, then asserts: the last byte is never handed out.      *)
RoomBefore(vmem, n) == vmem.size > vmem.allocated                       \* (faulty)
Room(vmem, n) == vmem.size > vmem.allocated + n
NotBumped(vmem, n) == vmem                                              \* (faulty)
Bumped(vmem, n) == [vmem EXCEPT !.allocated = @ + n]
Block(vmem, n) == [ptr |-> vmem.ptr, from |-> vmem.allocated, len |-> n, nth |-> allocations_done]

Rounded(n) == ((n + 15) \div 16) * 16

memory_init ==
    /\ stage = "start"
    /\ \/ Stop("crashed")                                  \* FATAL_ERROR: nothing mapped
       \/ \E a \in Mapped(1, MB * Clamped(ARENA_MB)), c \in Mapped(2, MB * Clamped(CHAR_ARENA_MB)) :
             IF ~Room(a, 16) THEN Stop("crashed")
             ELSE /\ arena' = Bumped(a, 16) /\ char_arena' = c
                  /\ stage' = "running" /\ allocations_done' = 0
                  /\ UNCHANGED <<mem, vecs, scratch, copies, blocks>>
    /\ UNCHANGED calls

(* report_error calls main_deinit too: both arenas go.                        *)
memory_release ==
    /\ Running
    /\ stage' = "released"
    /\ arena' = Released /\ char_arena' = Released /\ blocks' = {} /\ mem' = <<>>
    /\ UNCHANGED <<vecs, scratch, copies, allocations_done>>

-----------------------------------------------------------------------------
(* lib.h: a vector is a pointer behind a header of its size and capacity.     *)
(* Memory that has not been written is zero.                                  *)

HEADER == 8
Read(m, ptr, a) == IF <<ptr, a>> \in DOMAIN m THEN m[<<ptr, a>>] ELSE 0
SizeAt(a) == a - 8
CapacityAt(a) == a - 4
Size(m, a) == IF a = NULL THEN 0 ELSE Read(m, arena.ptr, SizeAt(a))
Capacity(m, a) == Read(m, arena.ptr, CapacityAt(a))
ElemAt(v, a, i) == a + ElemSize[v] * i
Over(f, m) == [p \in DOMAIN f \union DOMAIN m |-> IF p \in DOMAIN f THEN f[p] ELSE m[p]]
Write(m, a, x) == Over([p \in {<<arena.ptr, a>>} |-> x], m)
Copied(m, from, to, n) ==                 \* memcpy
    LET places == {<<arena.ptr, to + k>> : k \in {j \in 0 .. n - 1 : <<arena.ptr, from + j>> \in DOMAIN m}}
    IN Over([p \in places |-> m[<<arena.ptr, p[2] - to + from>>]], m)

(* expand_: how much is allocated, where the elements are then, and the       *)
(* memory with the size counted up.                                           *)
Fresh == arena.allocated + HEADER
BytesFor(v, capacity) == Rounded(ElemSize[v] * capacity + HEADER)
SameCapacity(m, a) == m                                                 \* (faulty)
DoubleCapacity(m, a) == Write(m, CapacityAt(a), 2 * Capacity(m, a))
CountedUp(m, a) == Write(m, SizeAt(a), Size(m, a) + 1)
Moved(v) ==
    Copied(mem, vecs[v] - HEADER, Fresh - HEADER, ElemSize[v] * Capacity(mem, vecs[v]) + HEADER)
Full(v) == Size(mem, vecs[v]) = Capacity(mem, vecs[v])
Expanded(v) ==
    IF vecs[v] = NULL
    THEN [need |-> BytesFor(v, INITIAL_CAPACITY), at |-> Fresh,
          mem |-> CountedUp(Write(mem, CapacityAt(Fresh), INITIAL_CAPACITY), Fresh)]
    ELSE IF Full(v)
    THEN [need |-> BytesFor(v, 2 * Capacity(mem, vecs[v])), at |-> Fresh,
          mem |-> CountedUp(DoubleCapacity(Moved(v), Fresh), Fresh)]
    ELSE [need |-> 0, at |-> vecs[v], mem |-> CountedUp(mem, vecs[v])]

(* vec_insert_at moves what is behind the place up, and writes x there.       *)
(* vec_insert_first inserts at 0, and vec_add, where nothing moves, at the    *)
(* end.                                                                       *)
MovedUp(m, v, a, at, x) ==
    LET places == {<<arena.ptr, ElemAt(v, a, i)>> : i \in at .. Size(m, a) - 1}
    IN Over([p \in places |-> IF p[2] = ElemAt(v, a, at) THEN x
                              ELSE Read(m, arena.ptr, p[2] - ElemSize[v])], m)
InsertAt(v, at, x) ==
    /\ Running
    /\ LET e == Expanded(v)
       IN IF e.need > 0 /\ ~Room(arena, e.need) THEN Stop("crashed")
          ELSE /\ mem' = MovedUp(e.mem, v, e.at, at, x)
               /\ vecs' = [vecs EXCEPT ![v] = e.at]
               /\ IF e.need = 0 THEN UNCHANGED <<arena, blocks, allocations_done>>
                  ELSE /\ arena' = Bumped(arena, e.need)
                       /\ blocks' = blocks \union {Block(arena, e.need)}
                       /\ allocations_done' = allocations_done + 1
               /\ UNCHANGED <<char_arena, scratch, copies, stage>>
vec_insert_at(v) == \E x \in Values, at \in 0 .. Size(mem, vecs[v]) : InsertAt(v, at, x)

Shrunk(m, v) == Write(m, SizeAt(vecs[v]), Size(m, vecs[v]) - 1)
vec_pop(v) ==                             \* asserts that there is an element
    /\ Running /\ Size(mem, vecs[v]) > 0
    /\ mem' = Shrunk(mem, v)
    /\ UNCHANGED <<arena, char_arena, vecs, scratch, copies, blocks, allocations_done, stage>>

-----------------------------------------------------------------------------
(* stringutils.c: the scratch buffer, and copies of it.  A copy gets no       *)
(* terminator: it is followed by a byte that was never written.               *)

scratch_buffer_append(w) ==
    /\ Running
    /\ IF Len(w) + Len(scratch) > MAX_STRING_BUFFER - 1 THEN Stop("crashed")      \* error_exit
       ELSE /\ scratch' = scratch \o w
            /\ UNCHANGED <<arena, char_arena, mem, vecs, copies, blocks, allocations_done, stage>>
Truncates(s) ==
    /\ Running /\ scratch' = s
    /\ UNCHANGED <<arena, char_arena, mem, vecs, copies, blocks, allocations_done, stage>>
scratch_buffer_clear == Truncates(<<>>)
DropLast ==                               \* --len, in parser.c and lexer.c
    IF scratch # <<>> THEN Truncates(Front(scratch))
    ELSE Running /\ Stop("crashed")       \* it wraps: the copy made next has no room

StringBytes(n) == n + 1
Characters(at, s) ==
    [p \in {<<char_arena.ptr, at + k>> : k \in 0 .. Len(s) - 1} |-> s[p[2] - at + 1]]
scratch_buffer_copy ==
    /\ Running
    /\ LET n == StringBytes(Len(scratch))
       IN IF n = 0 \/ ~Room(char_arena, n) THEN Stop("crashed")
          ELSE /\ mem' = Over(Characters(char_arena.allocated, scratch), mem)
               /\ copies' = Append(copies, <<char_arena.ptr, char_arena.allocated>>)
               /\ char_arena' = Bumped(char_arena, n)
               /\ blocks' = blocks \union {Block(char_arena, n)}
               /\ allocations_done' = allocations_done + 1
               /\ UNCHANGED <<arena, vecs, scratch, stage>>

-----------------------------------------------------------------------------
Init ==
    /\ arena = Released /\ char_arena = Released /\ mem = <<>>
    /\ vecs = [v \in Vecs |-> NULL] /\ scratch = <<>> /\ copies = <<>>
    /\ blocks = {} /\ allocations_done = 0 /\ calls = 0 /\ stage = "start"
Stopped == (stage \in {"crashed", "released"} \/ calls = MaxCalls) /\ UNCHANGED vars
Next ==
    \/ memory_init \/ memory_release
    \/ \E v \in Vecs : vec_insert_at(v) \/ vec_pop(v)
    \/ \E w \in Words : scratch_buffer_append(w)
    \/ scratch_buffer_clear \/ DropLast \/ scratch_buffer_copy
    \/ Stopped
Spec == Init /\ [][Next]_vars

-----------------------------------------------------------------------------
(* Properties.                                                                *)

(* mmap_allocate: whatever the system maps and whatever is asked for, what is *)
(* handed out lies inside its mapping, and no two blocks share a byte.        *)
VmemOf(b) == IF b.ptr = arena.ptr THEN arena ELSE char_arena
Inside(b) == b.ptr = VmemOf(b).ptr /\ b.len > 0 /\ b.from + b.len < VmemOf(b).size
Apart(b, c) == b.ptr # c.ptr \/ b.from + b.len <= c.from \/ c.from + c.len <= b.from
BlocksApart == \A b \in blocks : Inside(b) /\ \A c \in blocks : b = c \/ Apart(b, c)

(* What every state is made of, and why the blocks stay apart: an arena's     *)
(* bytes below `allocated` are where its blocks lie.                          *)
IsMemory(m) == m \in [DOMAIN m -> Nat]
TypeOK ==
    /\ arena \in [ptr : {NULL, 1}, allocated : Nat, size : Nat]
    /\ char_arena \in [ptr : {NULL, 2}, allocated : Nat, size : Nat]
    /\ IsMemory(mem) /\ vecs \in [Vecs -> Nat] /\ scratch \in Seq(Nat)
    /\ blocks \subseteq [ptr : {1, 2}, from : Nat, len : Nat \ {0}, nth : Nat]
    /\ allocations_done \in Nat
LiesBelow(b) == /\ b.ptr = VmemOf(b).ptr
                /\ b.from + b.len <= VmemOf(b).allocated /\ VmemOf(b).allocated < VmemOf(b).size
Arenas ==
    /\ TypeOK
    /\ stage = "start" => blocks = {}
    /\ stage = "running" => arena.ptr = 1 /\ char_arena.ptr = 2
    /\ \A b \in blocks : LiesBelow(b) /\ \A c \in blocks : b = c \/ Apart(b, c)

(* Why vectors and copies keep what is in them: each vector has bytes of its  *)
(* own for all its capacity, each copy is a text with a zero behind it, and   *)
(* what has not been handed out has not been written.                         *)
EndOf(v) == vecs[v] + ElemSize[v] * Capacity(mem, vecs[v])
Placed(v) == /\ HEADER <= vecs[v] /\ EndOf(v) <= arena.allocated
             /\ 0 < Capacity(mem, vecs[v]) /\ Size(mem, vecs[v]) <= Capacity(mem, vecs[v])
NextTo(v, w) == EndOf(v) <= vecs[w] - HEADER \/ EndOf(w) <= vecs[v] - HEADER
VectorsPlaced ==
    \A v \in Vecs : vecs[v] # NULL =>
        Placed(v) /\ \A w \in Vecs : w = v \/ vecs[w] = NULL \/ NextTo(v, w)
IsText(m, p, n) == /\ n \in 0 .. MAX_STRING_BUFFER /\ Read(m, p[1], p[2] + n) = 0
                   /\ \A k \in 0 .. n - 1 : Read(m, p[1], p[2] + k) # 0
HasText(m, p, allocated) ==
    \E n \in 0 .. MAX_STRING_BUFFER : IsText(m, p, n) /\ p[2] + n < allocated
CopiesPlaced ==
    /\ copies \in Seq({2} \X Nat)
    /\ \A k \in DOMAIN copies : HasText(mem, copies[k], char_arena.allocated)
BelowIsWritten ==
    DOMAIN mem \subseteq ({1} \X (0 .. arena.allocated - 1)) \union ({2} \X (0 .. char_arena.allocated - 1))
Layout ==
    /\ stage = "start" => mem = <<>> /\ copies = <<>> /\ \A v \in Vecs : vecs[v] = NULL
    /\ scratch \in Seq(Nat \ {0}) /\ Len(scratch) <= MAX_STRING_BUFFER
    /\ stage = "running" => VectorsPlaced /\ CopiesPlaced /\ BelowIsWritten

Inductive == Arenas /\ Layout

(* Vectors and strings keep what was put in them, through growth, moves and   *)
(* each other's allocations: seen through their pointers, they are sequences. *)
Elements(v) == [i \in 1 .. Size(mem, vecs[v]) |-> Read(mem, arena.ptr, ElemAt(v, vecs[v], i - 1))]
TextAt(m, p) ==
    LET n == CHOOSE k \in 0 .. MAX_STRING_BUFFER : IsText(m, p, k)
    IN [i \in 1 .. n |-> Read(m, p[1], p[2] + i - 1)]
Contents == INSTANCE Store WITH
    seqs <- [v \in Vecs |-> Elements(v)],
    texts <- [k \in DOMAIN copies |-> TextAt(mem, copies[k])]
KeepsContents == Contents!Spec
=============================================================================
