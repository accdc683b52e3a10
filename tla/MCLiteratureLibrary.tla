------------------------ MODULE MCLiteratureLibrary ------------------------
(***************************************************************************)
(* A small library for TLC.                                                *)
(***************************************************************************)
EXTENDS LiteratureLibrary

CONSTANTS a1, d1, d2, u1, ka, k1, ku, t1, t2, t2b, tu

\* a1 is the preprint of d1; the keys made for d1 and d2 collide (same first author,
\* year and first word of the title); u1 hosts the PDF of d2.
Titles == [s \in Source |-> CASE s = a1 -> t1 [] s = d1 -> t1 [] s = d2 -> t2b [] OTHER -> tu]
Keys == [s \in Source |-> CASE s = a1 -> ka [] s = u1 -> ku [] OTHER -> k1]
Similar == {<<t, t>> : t \in Title} \cup {<<t2, t2b>>, <<t2b, t2>>}

Discovered(title, doi, arxiv, open, url) ==
  [title |-> title, doi |-> doi, arxiv |-> arxiv, open |-> open, pdf |-> url, landing |-> None]
preprint == Discovered(t1, d1, a1, FALSE, None)
journal == Discovered(t2, d2, None, TRUE, u1)
Works == {preprint, journal}

Ask(op, src, key, found, act) ==
  [op |-> op, src |-> src, key |-> key, text |-> TRUE, found |-> found, act |-> act]
Requests ==
  {Ask("lookup", a1, None, << >>, FALSE), Ask("lookup", d1, None, << >>, FALSE),
   Ask("lookup", d2, None, << >>, FALSE), Ask("lookup", d2, ka, << >>, FALSE),
   Ask("lookup", u1, k1, << >>, FALSE),
   Ask("read", None, k1, << >>, FALSE), Ask("query", None, None, << >>, FALSE),
   Ask("idle", None, None, << >>, FALSE),
   Ask("queue", None, None, <<preprint, journal>>, TRUE),
   Ask("queue", None, None, <<journal>>, FALSE)}
=============================================================================
