---------------------------- MODULE MCLeapSearch ----------------------------
(***************************************************************************)
(* Small searches for TLC.                                                 *)
(***************************************************************************)
EXTENDS LeapSearch

CONSTANTS a, b, c, d, e, w1, w2

Split(p, ks, sp, ct) == [parent |-> p, kids |-> ks, spare |-> sp, cites |-> ct]
Nothing == [x \in Decomposition |-> "absent"]

\* The searches run side by side, or the second after the first has ended.
SideBySide == [w \in Worker |-> {}]
OneByOne == [w \in Worker |-> {w1} \ {w}]

\* Two goals that share a lemma, which has a lemma of its own and a way back to one of
\* them; and another way to prove b.  There is room for three goals.
SharedLemma == {Split(a, <<c>>, {}, {}), Split(b, <<c>>, {}, {}), Split(c, <<d>>, {}, {}),
                Split(c, <<a>>, {}, {}), Split(b, <<e>>, {}, {})}
RootsAB == [w \in Worker |-> IF w = w1 THEN a ELSE b]

\* Two ways to prove b, the longer one with a child that has a branch of its own:
\* it shares a child with b, cites what has been proved meanwhile, and its
\* anticipatory child does not fit into a full graph.
Alternatives == {Split(b, <<c>>, {}, {}), Split(b, <<c, d, a>>, {}, {}),
                 Split(a, <<d>>, {e}, {c})}
RootsBB == [w \in Worker |-> b]

\* The search for b had stopped in the middle of its second branch; the first
\* branches of a and of b had been paused.
Halfway == {Split(a, <<c>>, {}, {}), Split(b, <<c>>, {}, {}), Split(b, <<c, d>>, {}, {})}
HalfwayHistory == [x \in Decomposition |-> IF Len(x.kids) = 2 THEN "solving" ELSE "paused"]
=============================================================================
