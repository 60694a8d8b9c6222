------------------------------ MODULE HostTable ------------------------------
(***************************************************************************)
(* What the translator promises of a session that no allocation disturbed: *)
(* the table holds the guest frames of the whole dump, each once, in the   *)
(* order in which the dump first names them.                               *)
(***************************************************************************)
EXTENDS Naturals, Sequences, FiniteSets

CONSTANTS Dumps

VARIABLE frames

\* The places of a dump, row and field, in the order of the file.
Places(d) == UNION {{<<i, k>> : k \in DOMAIN d[i]} : i \in DOMAIN d}
Earlier(c, e) == c[1] < e[1] \/ (c[1] = e[1] /\ c[2] < e[2])
Frame(d, c) == d[c[1]][c[2]]

\* Those where a frame is named for the first time; 0 is no frame.
Firsts(d) ==
  {c \in Places(d) : Frame(d, c) # 0 /\ \A e \in Places(d) : Earlier(e, c) => Frame(d, e) # Frame(d, c)}
Rank(S, c) == Cardinality({e \in S : e = c \/ Earlier(e, c)})
Nth(S, n) == CHOOSE c \in S : Rank(S, c) = n
FirstSeen(d) == [n \in 1..Cardinality(Firsts(d)) |-> Frame(d, Nth(Firsts(d), n))]

Init == frames = <<>>
Clear == frames' = <<>>
Translate(d) == frames = <<>> /\ frames' = FirstSeen(d)
Next == Clear \/ \E d \in Dumps : Translate(d)
Spec == Init /\ [][Next]_frames
=============================================================================
