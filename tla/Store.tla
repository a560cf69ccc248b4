-------------------------------- MODULE Store --------------------------------
(* What vectors, the scratch buffer and copied strings promise: each vector   *)
(* is a sequence, changed by the calls on it alone, and a string that was     *)
(* copied stays what the buffer held then.                                    *)
EXTENDS Integers, Sequences

CONSTANTS Vecs, Values, Words

VARIABLES seqs, scratch, texts

vars == <<seqs, scratch, texts>>

Front(s) == SubSeq(s, 1, Len(s) - 1)

Init == seqs = [v \in Vecs |-> <<>>] /\ scratch = <<>> /\ texts = <<>>

Inserted(s, at, x) == SubSeq(s, 1, at) \o <<x>> \o SubSeq(s, at + 1, Len(s))
Change(v, s) == seqs' = [seqs EXCEPT ![v] = s] /\ UNCHANGED <<scratch, texts>>
Insert(v, at, x) == at \in 0 .. Len(seqs[v]) /\ Change(v, Inserted(seqs[v], at, x))
Pop(v) == seqs[v] # <<>> /\ Change(v, Front(seqs[v]))

Buffer(s) == scratch' = s /\ UNCHANGED <<seqs, texts>>
Copy == texts' = Append(texts, scratch) /\ UNCHANGED <<seqs, scratch>>

(* What was handed out is gone when the memory is released.                   *)
Gone == /\ seqs' = [v \in Vecs |-> <<>>] /\ texts' = [k \in DOMAIN texts |-> <<>>]
        /\ UNCHANGED scratch

Next ==
    \/ Gone
    \/ \E v \in Vecs : \/ \E x \in Values, at \in 0 .. Len(seqs[v]) : Insert(v, at, x)
                       \/ Pop(v)
    \/ \E w \in Words : Buffer(scratch \o w)
    \/ Buffer(<<>>) \/ (scratch # <<>> /\ Buffer(Front(scratch)))
    \/ Copy
Spec == Init /\ [][Next]_vars
=============================================================================
