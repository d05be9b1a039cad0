------------------------------ MODULE ByteFifo ------------------------------
(***************************************************************************)
(* What a buffer queue promises: bytes leave it in the order they came, in *)
(* whole samples of two; what does not fit is cut off; it can be emptied.  *)
(***************************************************************************)
EXTENDS Naturals, Sequences

CONSTANTS Buffers, Capacity

VARIABLE content

Init == content = <<>>

Room == Capacity - Len(content)

Accept(b) ==
    content' = content \o SubSeq(b, 1, IF Len(b) < Room THEN Len(b) ELSE Room)

Play(samples) == content' = SubSeq(content, 2 * samples + 1, Len(content))

Empty == content' = <<>>

Next ==
    \/ \E b \in Buffers : Accept(b)
    \/ \E n \in 1 .. Len(content) \div 2 : Play(n)
    \/ Empty

Spec == Init /\ [][Next]_content
=============================================================================
