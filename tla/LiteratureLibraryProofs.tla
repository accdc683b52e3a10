------------------------ MODULE LiteratureLibraryProofs ------------------------
(***************************************************************************)
(* Proofs about LiteratureLibrary, for every value of its constants.       *)
(***************************************************************************)
EXTENDS LiteratureLibrary, TLAPS, FiniteSetTheorems, SequenceTheorems

-----------------------------------------------------------------------------
(***************************************************************************)
(* What holds of the ledgers, the files and the index                      *)
(***************************************************************************)
Ops == {"idle", "lookup", "read", "query", "queue", "candidate"}
Labels == Ops \cup {"clear", "replay", "replaytext", "fetch", "register", "append", "upsert",
                    "passages", "pdftext", "close", "extract", "statements"}

LastOf(I, i) == i \in I /\ \A j \in I : j <= i

\* The rows of a paper among the first n.
RowsOfPaper(p, n) == {i \in DOMAIN papers : i <= n /\ papers[i].id = p}

Recorded == {candidates[i].cand : i \in DOMAIN candidates}

\* What a row's text and files must be.
Backed(row) ==
  /\ row.pdf # None => pdf[row.pdf] # None
  /\ row.text # None => row.text = row.pdf /\ txt[row.text] # None

Files == pdf \in [Key -> Source \cup {None}] /\ txt \in [Key -> Source \cup {None}]

\* A paper keeps its key; papers and keys have a last row.
Ledger ==
  /\ papers \in Seq(Row)
  /\ \E n \in Nat : PaperIds = 1..n
  /\ \A i, j \in DOMAIN papers : papers[i].id = papers[j].id => papers[i].key = papers[j].key
  /\ \A i \in DOMAIN papers : \E k : LastOf(RowsUnder(papers[i].key), k)
  /\ \A i \in DOMAIN papers : \E k : LastOf(RowsOfPaper(papers[i].id, Len(papers)), k)

AllBacked == \A i \in DOMAIN papers : Backed(papers[i])

CandidateRows ==
  [cand : Nat, work : Work, paper : Nat, status : {"queued", "imported", "duplicate"}]

Archive ==
  /\ candidates \in Seq(CandidateRows)
  /\ IsFiniteSet(Recorded)
  /\ \A c \in Recorded : \E k : LastOf(RowsOf(c), k)

Stated == \A g \in statements : g.id \in PaperIds /\ g.key \in Key /\ g.quote \in Quotes

\* Every indexed paper has, of the first n rows, the last that is its own.
MirrorsUpTo(n) ==
  \A p \in DOMAIN ixPaper :
    \E i : LastOf(RowsOfPaper(p, n), i) /\ ixPaper[p] = papers[i]

\* The index is behind the ledger only while a row is on its way into it.
Mirrored ==
  /\ pc \in {"replay", "replaytext"} => cursor \in Nat \ {0}
  /\ pc = "replay" => cursor <= Len(papers) + 1 /\ MirrorsUpTo(cursor - 1)
  /\ pc = "replaytext" => cursor <= Len(papers) /\ MirrorsUpTo(cursor)
  /\ pc = "upsert" /\ ~torn => MirrorsUpTo(Len(papers) - 1)
  /\ pc \notin {"replay", "replaytext", "upsert"} /\ ~torn => MirrorsUpTo(Len(papers))

-----------------------------------------------------------------------------
(***************************************************************************)
(* What holds of a call at each label                                      *)
(***************************************************************************)
Calls ==
  [op : Ops, src : Source \cup {None}, doi : Doi \cup {None}, key : Key \cup {None},
   text : BOOLEAN, title : Title \cup {None}, expect : Title \cup {None}, retry : BOOLEAN,
   cand : Nat, found : Seq(Work), next : Seq(Nat), act : BOOLEAN, row : Row \cup {None},
   stage : {"import", "text", "close"}]

Standing(c) ==
  /\ c.cand \in Recorded \cup {0}
  /\ \A i \in DOMAIN c.next : c.next[i] \in Recorded
  /\ c.op = "lookup" => c.src \in Source
  /\ c.op = "candidate" => c.cand \in Recorded
  /\ c.retry => c.src \in Source /\ c.op # "read"

InLedger(row) == \E i \in DOMAIN papers : papers[i] = row

Extends(old, new) ==
  /\ old.doi # None => new.doi = old.doi
  /\ old.arxiv # None => new.arxiv = old.arxiv
  /\ old.pdf # None => new.pdf = old.pdf
  /\ old.text # None => new.text = old.text

\* A row that may be appended.
Fits(row) ==
  /\ row \in Row
  /\ row.id \in PaperIds \cup {FreshId}
  /\ \A i \in DOMAIN papers : papers[i].id = row.id => papers[i].key = row.key
  /\ ~torn => \A i : LastOf(RowsOfPaper(row.id, Len(papers)), i) => Extends(papers[i], row)

\* What the row in hand is for.
Staged(c) ==
  /\ c.op = "read" => c.stage = "text"
  /\ c.stage = "text" => c.row.text # None
  /\ c.stage = "close" => ~c.retry /\ c.cand \in Recorded

At(l, c) ==
  /\ l \in {"lookup", "fetch"} => c.src \in Source /\ c.op # "read"
  /\ l = "candidate" => c.cand \in Recorded /\ c.op # "read"
  /\ l = "register" => /\ c.row \in Row /\ c.row.text = None /\ Backed(c.row)
                       /\ c.op # "read"
  /\ l = "append" => Fits(c.row) /\ Backed(c.row)
  /\ l \in {"upsert", "passages"} => papers # << >> /\ papers[Len(papers)] = c.row
  /\ l \in {"append", "upsert", "passages"} => Staged(c)
  /\ l \in {"pdftext", "extract", "statements", "close"} => InLedger(c.row)
  /\ l \in {"extract", "statements"} => c.row.text # None
  /\ l = "close" => ~c.retry /\ c.cand \in Recorded
  /\ l \in {"clear", "replay", "replaytext", "lookup", "fetch", "register"} =>
       c.stage = "import"

Sound(l, c) == l \in Labels /\ c \in Calls /\ Standing(c) /\ At(l, c)

LibraryInvariant ==
  /\ Files /\ Ledger /\ AllBacked /\ Archive /\ Stated
  /\ IndexFromLedger /\ Mirrored /\ Sound(pc, call)

-----------------------------------------------------------------------------
(***************************************************************************)
(* Last rows                                                               *)
(***************************************************************************)
\* A row that is, while the index mirrors the ledger, its paper's last.
Handy(row) ==
  /\ InLedger(row)
  /\ ~torn => \E i : LastOf(RowsOfPaper(row.id, Len(papers)), i) /\ papers[i] = row

LEMMA ChosenLast ==
  ASSUME NEW I \in SUBSET Int, NEW i, LastOf(I, i)
  PROVE  (CHOOSE k \in I : \A j \in I : j <= k) = i
<1> DEFINE k == CHOOSE k \in I : \A j \in I : j <= k
<1>1. k \in I /\ \A j \in I : j <= k
  BY ZenonT(20) DEF LastOf
<1> HIDE DEF k
<1>2. k = i
  BY <1>1 DEF LastOf
<1> QED BY <1>2 DEF k

LEMMA LatestRow ==
  ASSUME Ledger, NEW row, InLedger(row)
  PROVE  \E k : /\ LastOf(RowsUnder(row.key), k) /\ Latest(row.key) = papers[k]
                /\ k \in DOMAIN papers /\ papers[k].key = row.key
                /\ LastOf(RowsOfPaper(papers[k].id, Len(papers)), k)
<1>1. PICK k : LastOf(RowsUnder(row.key), k)
  BY DEF Ledger, InLedger
<1>2. DOMAIN papers = 1..Len(papers) /\ Len(papers) \in Nat
  BY DEF Ledger
<1>3. RowsUnder(row.key) \in SUBSET Int
  BY <1>2 DEF RowsUnder
<1>4. Latest(row.key) = papers[k]
  BY <1>1, <1>3, ChosenLast DEF Latest
<1>5. k \in DOMAIN papers /\ papers[k].key = row.key
  BY <1>1 DEF LastOf, RowsUnder
<1>6. LastOf(RowsOfPaper(papers[k].id, Len(papers)), k)
  <2>1. k \in RowsOfPaper(papers[k].id, Len(papers))
    BY <1>2, <1>5 DEF RowsOfPaper
  <2>2. ASSUME NEW j \in RowsOfPaper(papers[k].id, Len(papers)) PROVE j <= k
    <3>1. j \in DOMAIN papers /\ papers[j].id = papers[k].id
      BY DEF RowsOfPaper
    <3>2. papers[j].key = row.key
      BY <3>1, <1>5 DEF Ledger
    <3> QED BY <3>1, <3>2, <1>1 DEF LastOf, RowsUnder
  <2> QED BY <2>1, <2>2 DEF LastOf
<1> QED BY <1>1, <1>4, <1>5, <1>6

LEMMA PaperRow ==
  ASSUME Ledger, NEW p \in PaperIds
  PROVE  \E k : /\ LastOf(RowsOfPaper(p, Len(papers)), k) /\ LastRow(p) = papers[k]
                /\ k \in DOMAIN papers /\ papers[k].id = p
<1>1. PICK k : LastOf(RowsOfPaper(p, Len(papers)), k)
  BY DEF Ledger, PaperIds
<1>2. DOMAIN papers = 1..Len(papers) /\ Len(papers) \in Nat
  BY DEF Ledger
<1> DEFINE I == {i \in DOMAIN papers : papers[i].id = p}
<1>3. I = RowsOfPaper(p, Len(papers))
  BY <1>2 DEF RowsOfPaper
<1>4. LastOf(I, k) /\ I \in SUBSET Int
  <2>1. I \in SUBSET Int BY <1>2
  <2> HIDE DEF I
  <2> QED BY <1>1, <1>3, <2>1
<1>5. LastRow(p) = papers[k]
  <2> HIDE DEF I
  <2>1. (CHOOSE i \in I : \A j \in I : j <= i) = k
    BY <1>4, ChosenLast
  <2> QED BY <2>1 DEF LastRow, I
<1>6. k \in DOMAIN papers /\ papers[k].id = p
  BY <1>1 DEF LastOf, RowsOfPaper
<1> QED BY <1>1, <1>5, <1>6

LEMMA CandidateRow ==
  ASSUME Archive, NEW c \in Recorded
  PROVE  /\ Candidate(c).work \in Work /\ Candidate(c).cand = c
         /\ Candidate(c) \in CandidateRows
<1>1. PICK k : LastOf(RowsOf(c), k)
  BY DEF Archive
<1>2. DOMAIN candidates = 1..Len(candidates) /\ Len(candidates) \in Nat
  BY DEF Archive
<1>3. RowsOf(c) \in SUBSET Int
  BY <1>2 DEF RowsOf
<1>4. Candidate(c) = candidates[k]
  BY <1>1, <1>3, ChosenLast DEF Candidate
<1>5. k \in DOMAIN candidates /\ candidates[k].cand = c
  BY <1>1 DEF LastOf, RowsOf
<1>6. candidates[k] \in CandidateRows
  BY <1>2, <1>5 DEF Archive
<1>7. candidates[k].work \in Work
  BY <1>6 DEF CandidateRows
<1> QED BY <1>4, <1>5, <1>6, <1>7

-----------------------------------------------------------------------------
(***************************************************************************)
(* What the index answers                                                  *)
(***************************************************************************)
\* What the index finds is a row of the ledger, its paper's last one while the index
\* mirrors the ledger.
LEMMA FindFirst ==
  ASSUME NEW aliases, DOMAIN aliases \subseteq 1..4,
         \E i \in DOMAIN aliases : aliases[i] \in DOMAIN ixAlias
  PROVE  \E i \in DOMAIN aliases :
           /\ aliases[i] \in DOMAIN ixAlias /\ Find(aliases) = ixPaper[ixAlias[aliases[i]]]
           /\ \A j \in DOMAIN aliases : aliases[j] \in DOMAIN ixAlias => i <= j
<1> DEFINE known == {i \in DOMAIN aliases : aliases[i] \in DOMAIN ixAlias}
<1> DEFINE first == CHOOSE i \in known : \A j \in known : i <= j
<1>1. known # {} /\ known \subseteq 1..4
  OBVIOUS
<1> HIDE DEF known
<1>2. \E i \in known : \A j \in known : i <= j
  <2>1. CASE 1 \in known BY <2>1, <1>1
  <2>2. CASE 1 \notin known /\ 2 \in known BY <2>2, <1>1
  <2>3. CASE 1 \notin known /\ 2 \notin known /\ 3 \in known BY <2>3, <1>1
  <2>4. CASE 1 \notin known /\ 2 \notin known /\ 3 \notin known
    <3>1. PICK i \in known : TRUE BY <1>1
    <3>2. known \subseteq {4} BY <2>4, <1>1
    <3> QED BY <3>1, <3>2
  <2> QED BY <2>1, <2>2, <2>3, <2>4
<1>3. first \in known /\ \A j \in known : first <= j
  BY <1>2, Zenon
<1> HIDE DEF first
<1>4. first \in DOMAIN aliases /\ aliases[first] \in DOMAIN ixAlias
  BY <1>3 DEF known
<1>5. Find(aliases) = ixPaper[ixAlias[aliases[first]]]
  BY <1>1 DEF Find, first, known
<1> QED BY <1>3, <1>4, <1>5 DEF known

LEMMA FindRow ==
  ASSUME IndexFromLedger, NEW aliases, DOMAIN aliases \subseteq 1..4, Find(aliases) # None
  PROVE  \E p \in DOMAIN ixPaper : Find(aliases) = ixPaper[p]
<1>1. \E i \in DOMAIN aliases : aliases[i] \in DOMAIN ixAlias
  BY Zenon DEF Find
<1> QED BY <1>1, FindFirst DEF IndexFromLedger

LEMMA IndexedRow ==
  ASSUME Ledger, IndexFromLedger, ~torn => MirrorsUpTo(Len(papers)), NEW p \in DOMAIN ixPaper
  PROVE  Handy(ixPaper[p]) /\ ixPaper[p].id = p /\ ixPaper[p] \in Row
<1>1. PICK i \in DOMAIN papers : papers[i] = ixPaper[p] /\ papers[i].id = p
  BY DEF IndexFromLedger
<1>2. ASSUME ~torn
      PROVE \E k : LastOf(RowsOfPaper(p, Len(papers)), k) /\ papers[k] = ixPaper[p]
  BY <1>2 DEF MirrorsUpTo
<1>3. ixPaper[p] \in Row
  BY <1>1 DEF Ledger
<1> QED BY <1>1, <1>2, <1>3 DEF Handy, InLedger

LEMMA FitsToo ==
  ASSUME Ledger, NEW row, Handy(row), NEW new \in Row,
         new.id = row.id, new.key = row.key, Extends(row, new)
  PROVE  Fits(new)
<1>1. PICK i \in DOMAIN papers : papers[i] = row
  BY DEF Handy, InLedger
<1>2. row.id \in PaperIds
  BY <1>1 DEF PaperIds
<1>3. \A j \in DOMAIN papers : papers[j].id = new.id => papers[j].key = new.key
  BY <1>1 DEF Ledger
<1>4. ASSUME ~torn, NEW j, LastOf(RowsOfPaper(row.id, Len(papers)), j)
      PROVE Extends(papers[j], new)
  <2>1. PICK k : LastOf(RowsOfPaper(row.id, Len(papers)), k) /\ papers[k] = row
    BY <1>4 DEF Handy
  <2>2. DOMAIN papers = 1..Len(papers) /\ Len(papers) \in Nat
    BY DEF Ledger
  <2>3. j = k
    BY <1>4, <2>1, <2>2 DEF LastOf, RowsOfPaper
  <2> QED BY <2>1, <2>3
<1> QED BY <1>2, <1>3, <1>4 DEF Fits

-----------------------------------------------------------------------------
(***************************************************************************)
(* How a call goes on                                                      *)
(***************************************************************************)
LEMMA BlankCall == Blank \in Calls /\ Standing(Blank)
<1>1. << >> \in Seq(Work) /\ << >> \in Seq(Nat)
  OBVIOUS
<1>2. Blank \in Calls
  BY <1>1 DEF Blank, Calls, Ops
<1>3. Blank.cand = 0 /\ Blank.next = << >> /\ Blank.op = "idle" /\ Blank.retry = FALSE
  BY DEF Blank
<1> QED BY <1>2, <1>3 DEF Standing

LEMMA ReturnSound ==
  ASSUME call \in Calls, Standing(call), Return
  PROVE  Sound(pc', call') /\ pc' \in {"idle", "candidate"}
<1>1. CASE call.next = << >>
  <2>1. pc' = "idle" /\ call' = Blank
    BY <1>1 DEF Return
  <2>2. At("idle", Blank)
    BY DEF At
  <2> QED BY <2>1, <2>2, BlankCall DEF Sound, Labels, Ops
<1>2. CASE call.next # << >>
  <2> DEFINE c == [Blank EXCEPT !.op = "candidate", !.cand = Head(call.next), !.text = TRUE,
                                !.next = Tail(call.next), !.act = TRUE]
  <2>1. pc' = "candidate" /\ call' = c
    BY <1>2 DEF Return
  <2>2. call.next \in Seq(Nat)
    BY DEF Calls
  <2>3. /\ Head(call.next) \in Nat /\ Tail(call.next) \in Seq(Nat)
        /\ Head(call.next) \in Recorded
        /\ \A i \in DOMAIN Tail(call.next) : Tail(call.next)[i] \in Recorded
    <3>1. Head(call.next) = call.next[1] /\ 1 \in DOMAIN call.next
      BY <1>2, <2>2
    <3>2. /\ Head(call.next) \in Nat /\ Tail(call.next) \in Seq(Nat)
          /\ Len(Tail(call.next)) = Len(call.next) - 1
      BY <1>2, <2>2, HeadTailProperties
    <3>3. \A i \in 1..Len(Tail(call.next)) : Tail(call.next)[i] = call.next[i+1]
      BY <1>2, <2>2, HeadTailProperties
    <3>4. \A i \in 1..Len(Tail(call.next)) : i + 1 \in DOMAIN call.next
      BY <2>2, <3>2
    <3>5. DOMAIN Tail(call.next) = 1..Len(Tail(call.next))
      BY <3>2
    <3> QED BY <3>1, <3>2, <3>3, <3>4, <3>5 DEF Standing
  <2>4. c \in Calls
    <3>1. \A h \in Nat, t \in Seq(Nat) :
            [Blank EXCEPT !.op = "candidate", !.cand = h, !.text = TRUE, !.next = t,
                          !.act = TRUE] \in Calls
      BY BlankCall DEF Calls, Ops
    <3> QED BY <2>3, <3>1
  <2>5. /\ c.cand = Head(call.next) /\ c.next = Tail(call.next) /\ c.op = "candidate"
        /\ c.retry = FALSE
    BY DEF Blank
  <2> HIDE DEF c
  <2>6. Standing(c)
    BY <2>3, <2>5 DEF Standing
  <2>7. At("candidate", c)
    BY <2>3, <2>5 DEF At
  <2> QED BY <2>1, <2>4, <2>6, <2>7 DEF Sound, Labels, Ops
<1> QED BY <1>1, <1>2

LEMMA ThrowSound ==
  ASSUME call \in Calls, Standing(call), Throw
  PROVE  Sound(pc', call') /\ pc' \in {"idle", "candidate", "lookup"}
<1>1. CASE ~call.retry
  BY <1>1, ReturnSound DEF Throw
<1>2. CASE call.retry
  <2> DEFINE c == [call EXCEPT !.retry = FALSE, !.doi = None, !.stage = "import"]
  <2>1. pc' = "lookup" /\ call' = c
    BY <1>2 DEF Throw
  <2>2. c \in Calls
    BY DEF Calls
  <2>3. /\ c.src = call.src /\ c.op = call.op /\ c.next = call.next /\ c.cand = call.cand
        /\ c.retry = FALSE /\ c.stage = "import"
    BY DEF Calls
  <2> HIDE DEF c
  <2>4. Standing(c)
    BY <2>3 DEF Standing
  <2>5. At("lookup", c)
    BY <2>3, <1>2 DEF At, Standing
  <2> QED BY <2>1, <2>2, <2>4, <2>5 DEF Sound, Labels, Ops
<1> QED BY <1>1, <1>2

\* Going on with another row.
LEMMA GotoSound ==
  ASSUME call \in Calls, Standing(call), NEW label \in Labels, NEW row \in Row,
         Goto(label, row),
         At(label, [call EXCEPT !.row = row])
  PROVE  Sound(pc', call') /\ pc' = label
<1> DEFINE c == [call EXCEPT !.row = row]
<1>1. pc' = label /\ call' = c
  BY DEF Goto
<1>2. c \in Calls
  BY DEF Calls
<1>3. /\ c.src = call.src /\ c.op = call.op /\ c.next = call.next /\ c.cand = call.cand
      /\ c.retry = call.retry
  BY DEF Calls
<1> HIDE DEF c
<1>4. Standing(c)
  BY <1>3 DEF Standing
<1> QED BY <1>1, <1>2, <1>4 DEF Sound, c

LEMMA HandyRow ==
  ASSUME Ledger, AllBacked, NEW row, Handy(row)
  PROVE  row \in Row /\ Backed(row) /\ InLedger(row)
BY DEF Handy, InLedger, Ledger, AllBacked

LEMMA ReadySound ==
  ASSUME Ledger, AllBacked, Archive, call \in Calls, Standing(call),
         NEW row, Handy(row), call.op = "read" => row.text # None, Ready(row)
  PROVE  Sound(pc', call') /\ pc' \in {"idle", "candidate", "append", "extract"}
<1>0. row \in Row /\ Backed(row) /\ InLedger(row)
  BY HandyRow
<1>1. CASE call.op = "read"
  <2>1. Goto("extract", row)
    BY <1>1 DEF Ready
  <2> DEFINE c == [call EXCEPT !.row = row]
  <2>2. c.row = row /\ c.op = call.op
    BY DEF Calls
  <2>3. At("extract", c)
    <3> HIDE DEF c
    <3> QED BY <1>0, <1>1, <2>2 DEF At
  <2> QED BY <1>0, <2>1, <2>3, GotoSound DEF Labels
<1>2. CASE call.op # "read" /\ call.cand = 0
  BY <1>2, ReturnSound DEF Ready
<1>3. CASE call.op # "read" /\ call.cand # 0
  <2> DEFINE work == Candidate(call.cand).work
             open == IF work.open THEN {work} ELSE {}
             new == [row EXCEPT !.open = @ \cup open]
             c == [call EXCEPT !.stage = "close", !.retry = FALSE, !.row = new]
  <2>1. pc' = "append" /\ call' = c
    BY <1>3 DEF Ready
  <2>2. open \subseteq Work
    BY <1>3, CandidateRow DEF Standing
  <2>3. /\ new \in Row /\ new.id = row.id /\ new.key = row.key /\ new.doi = row.doi
        /\ new.arxiv = row.arxiv /\ new.pdf = row.pdf /\ new.text = row.text
    <3> HIDE DEF open
    <3> QED BY <1>0, <2>2 DEF Row
  <2>4. Fits(new) /\ Backed(new)
    <3> HIDE DEF new
    <3>1. Backed(new) /\ Extends(row, new)
      BY <1>0, <2>3 DEF Backed, Extends
    <3> QED BY <2>3, <3>1, FitsToo
  <2> HIDE DEF new
  <2>5. c \in Calls
    BY <2>3 DEF Calls
  <2>6. /\ c.src = call.src /\ c.op = call.op /\ c.next = call.next /\ c.cand = call.cand
        /\ c.retry = FALSE /\ c.stage = "close" /\ c.row = new
    BY DEF Calls
  <2> HIDE DEF c
  <2>7. Standing(c)
    BY <2>6 DEF Standing
  <2>8. At("append", c)
    BY <1>3, <2>4, <2>6 DEF At, Staged, Standing
  <2> QED BY <2>1, <2>5, <2>7, <2>8 DEF Sound, Labels
<1> QED BY <1>1, <1>2, <1>3

LEMMA ImportedSound ==
  ASSUME Ledger, AllBacked, Archive, call \in Calls, Standing(call),
         NEW row, Handy(row), call.op # "read", Imported(row)
  PROVE  Sound(pc', call') /\ pc' \in {"idle", "candidate", "append", "pdftext"}
<1>0. row \in Row /\ InLedger(row)
  BY HandyRow
<1>1. CASE call.text /\ row.pdf # None
  <2>1. Goto("pdftext", row)
    BY <1>1 DEF Imported
  <2> DEFINE c == [call EXCEPT !.row = row]
  <2>2. c.row = row
    BY DEF Calls
  <2>3. At("pdftext", c)
    <3> HIDE DEF c
    <3> QED BY <1>0, <2>2 DEF At
  <2> QED BY <1>0, <2>1, <2>3, GotoSound DEF Labels
<1>2. CASE ~(call.text /\ row.pdf # None)
  <2>1. Ready(row)
    BY <1>2 DEF Imported
  <2>2. pc' # "extract"
    <3>1. CASE call.cand = 0
      BY <2>1, <3>1, ReturnSound DEF Ready
    <3>2. CASE call.cand # 0
      BY <2>1, <3>2 DEF Ready
    <3> QED BY <3>1, <3>2
  <2> QED BY <2>1, <2>2, ReadySound
<1> QED BY <1>1, <1>2

-----------------------------------------------------------------------------
(***************************************************************************)
(* Steps that leave the ledgers alone                                      *)
(***************************************************************************)
Moving == {"replay", "replaytext", "upsert"}

LEMMA SoundStays ==
  ASSUME UNCHANGED <<papers, pdf, txt, torn>>, Recorded \subseteq Recorded', Sound(pc', call')
  PROVE  Sound(pc, call)'
<1>1. UNCHANGED <<PaperIds, FreshId>>
  BY DEF PaperIds, FreshId
<1>2. Standing(call') => Standing(call)'
  BY DEF Standing
<1>3. Fits(call.row)' <=> Fits(call'.row)
  BY <1>1 DEF Fits, RowsOfPaper, LastOf, Extends
<1>4. Backed(call.row)' <=> Backed(call'.row)
  BY DEF Backed
<1>5. InLedger(call.row)' <=> InLedger(call'.row)
  BY DEF InLedger
<1>6. At(pc', call') => At(pc, call)'
  BY <1>1, <1>3, <1>4, <1>5 DEF At, Staged
<1> QED BY <1>2, <1>6 DEF Sound

\* What becomes of the rest when files are only added.
LEMMA LedgersStay ==
  ASSUME LibraryInvariant, UNCHANGED <<papers, statements>>, Archive', Files',
         \A k \in Key : pdf[k] # None => pdf'[k] # None,
         \A k \in Key : txt[k] # None => txt'[k] # None
  PROVE  (Files /\ Ledger /\ AllBacked /\ Archive /\ Stated)'
<1>1. UNCHANGED PaperIds
  BY DEF PaperIds
<1>2. Ledger'
  BY <1>1 DEF LibraryInvariant, Ledger, RowsUnder, RowsOfPaper, LastOf
<1>3. \A i \in DOMAIN papers : papers[i].pdf \in Key \cup {None} /\ papers[i].text \in Key \cup {None}
  <2>1. \A i \in DOMAIN papers : papers[i] \in Row
    BY DEF LibraryInvariant, Ledger
  <2> QED BY <2>1 DEF Row
<1>4. AllBacked'
  BY <1>3 DEF LibraryInvariant, AllBacked, Backed
<1>5. Stated'
  BY <1>1 DEF LibraryInvariant, Stated
<1> QED BY <1>2, <1>4, <1>5

LEMMA SameFiles ==
  ASSUME LibraryInvariant, UNCHANGED <<papers, candidates, statements, pdf, txt>>
  PROVE  (Files /\ Ledger /\ AllBacked /\ Archive /\ Stated)'
<1>1. UNCHANGED Recorded /\ Files'
  BY DEF Recorded, LibraryInvariant, Files
<1>2. Archive'
  BY <1>1 DEF LibraryInvariant, Archive, RowsOf, LastOf
<1> QED BY <1>1, <1>2, LedgersStay

LEMMA MirrorStays ==
  ASSUME LibraryInvariant, UNCHANGED <<papers, ixPaper, torn>>,
         pc \notin Moving, pc' \notin Moving
  PROVE  Mirrored'
<1>1. \A n : MirrorsUpTo(n)' <=> MirrorsUpTo(n)
  BY DEF MirrorsUpTo, RowsOfPaper, LastOf
<1> QED BY <1>1 DEF LibraryInvariant, Mirrored, Moving

\* A step that adds at most a candidate and an owner of aliases.
LEMMA Moved ==
  ASSUME LibraryInvariant, UNCHANGED <<papers, statements, pdf, txt, ixPaper, torn>>,
         UNCHANGED candidates \/ (Archive' /\ Recorded \subseteq Recorded'),
         UNCHANGED ixAlias \/ \E p \in DOMAIN ixPaper : \E aliases : Claim(p, aliases),
         Sound(pc', call'), pc \notin Moving, pc' \notin Moving
  PROVE  LibraryInvariant'
<1>1. IndexFromLedger'
  <2>1. \A a \in DOMAIN ixAlias : ixAlias[a] \in DOMAIN ixPaper
    BY DEF LibraryInvariant, IndexFromLedger
  <2>2. ASSUME NEW p \in DOMAIN ixPaper, NEW aliases, Claim(p, aliases)
        PROVE  \A a \in DOMAIN ixAlias' : ixAlias'[a] \in DOMAIN ixPaper
    BY <2>1, <2>2 DEF Claim
  <2>3. \A a \in DOMAIN ixAlias' : ixAlias'[a] \in DOMAIN ixPaper
    BY <2>1, <2>2
  <2> QED BY <2>3 DEF LibraryInvariant, IndexFromLedger
<1>2. Archive' /\ Recorded \subseteq Recorded'
  <2>1. CASE UNCHANGED candidates
    BY <2>1, SameFiles DEF Recorded
  <2> QED BY <2>1
<1>3. Files'
  BY DEF LibraryInvariant, Files
<1>4. (Files /\ Ledger /\ AllBacked /\ Archive /\ Stated)'
  BY <1>2, <1>3, LedgersStay
<1> QED BY <1>1, <1>2, <1>4, SoundStays, MirrorStays DEF LibraryInvariant

-----------------------------------------------------------------------------
(***************************************************************************)
(* Starting, dying and rebuilding                                          *)
(***************************************************************************)
LEMMA LibraryInitially == LibraryInit => LibraryInvariant
<1> SUFFICES ASSUME LibraryInit PROVE LibraryInvariant
  OBVIOUS
<1> USE DEF LibraryInit
<1>1. Files
  BY DEF Files
<1>2. PaperIds = {} /\ Recorded = {}
  BY DEF PaperIds, Recorded
<1>3. Ledger
  <2>1. PaperIds = 1..0
    BY <1>2
  <2>2. papers \in Seq(Row)
    OBVIOUS
  <2> QED BY <2>1, <2>2 DEF Ledger
<1>4. AllBacked /\ Stated
  BY DEF AllBacked, Stated
<1>5. Archive
  <2>1. candidates \in Seq(CandidateRows)
    OBVIOUS
  <2> QED BY <2>1, <1>2, FS_EmptySet DEF Archive
<1>6. IndexFromLedger /\ Mirrored
  BY DEF IndexFromLedger, Mirrored, MirrorsUpTo
<1>7. At("idle", Blank)
  BY DEF At
<1> QED BY <1>1, <1>3, <1>4, <1>5, <1>6, <1>7, BlankCall DEF LibraryInvariant, Sound, Labels, Ops

LEMMA BeginKeeps ==
  ASSUME LibraryInvariant, NEW c \in Calls, Standing(c), c.stage = "import", Begin(c)
  PROVE  LibraryInvariant'
<1>1. pc' \in {"clear", c.op} /\ call' = c /\ pc = "idle"
  BY DEF Begin
<1>2. c.op \in Ops
  BY DEF Calls
<1>3. At(pc', c)
  BY <1>1, <1>2 DEF At, Standing, Ops
<1>4. Sound(pc', call')
  BY <1>1, <1>2, <1>3 DEF Sound, Labels
<1>5. pc \notin Moving /\ pc' \notin Moving
  BY <1>1, <1>2 DEF Moving, Ops
<1>6. UNCHANGED <<papers, candidates, statements, pdf, txt, ixPaper, ixAlias, torn>>
  BY DEF Begin, ledgers, files, index
<1> QED BY <1>4, <1>5, <1>6, Moved

LEMMA StartKeeps == LibraryInvariant /\ Start => LibraryInvariant'
<1> SUFFICES ASSUME LibraryInvariant, NEW r \in Request,
                    Begin([Blank EXCEPT !.op = r.op, !.src = r.src, !.key = r.key,
                             !.text = r.text, !.found = r.found, !.act = r.act])
             PROVE  LibraryInvariant'
  BY DEF Start
<1> DEFINE c == [Blank EXCEPT !.op = r.op, !.src = r.src, !.key = r.key,
                             !.text = r.text, !.found = r.found, !.act = r.act]
<1>1. /\ r.op \in {"idle", "lookup", "read", "query", "queue"}
      /\ r.src \in Source \cup {None} /\ r.key \in Key \cup {None}
      /\ r.op = "lookup" => r.src # None
      /\ r.text \in BOOLEAN /\ r.found \in Seq(Work) /\ r.act \in BOOLEAN
  BY RequestAssumption
<1>2. c \in Calls
  <2>1. \A o \in Ops, x \in Source \cup {None}, k \in Key \cup {None} :
          [Blank EXCEPT !.op = o, !.src = x, !.key = k] \in Calls
    BY BlankCall DEF Calls
  <2>2. \A b \in Calls : \A t, a \in BOOLEAN, f \in Seq(Work) :
          [b EXCEPT !.text = t, !.found = f, !.act = a] \in Calls
    BY DEF Calls
  <2> DEFINE b == [Blank EXCEPT !.op = r.op, !.src = r.src, !.key = r.key]
  <2>3. b \in Calls
    BY <1>1, <2>1 DEF Ops
  <2>4. [b EXCEPT !.text = r.text, !.found = r.found, !.act = r.act] \in Calls
    <3> HIDE DEF b
    <3> QED BY <1>1, <2>2, <2>3
  <2>5. c = [b EXCEPT !.text = r.text, !.found = r.found, !.act = r.act]
    BY DEF Blank
  <2> QED BY <2>4, <2>5
<1>3. c.op = r.op /\ c.src = r.src /\ c.next = << >> /\ c.cand = 0 /\ c.retry = FALSE
      /\ c.stage = "import"
  BY DEF Blank
<1> HIDE DEF c
<1>4. Standing(c)
  BY <1>1, <1>3 DEF Standing
<1>5. Begin(c)
  BY DEF c
<1> QED BY <1>2, <1>3, <1>4, <1>5, BeginKeeps

LEMMA StartCandidateKeeps == LibraryInvariant /\ StartCandidate => LibraryInvariant'
<1> SUFFICES ASSUME LibraryInvariant, NEW i \in DOMAIN candidates,
                    Begin([Blank EXCEPT !.op = "candidate", !.cand = candidates[i].cand,
                                        !.text = TRUE])
             PROVE  LibraryInvariant'
  BY DEF StartCandidate
<1> DEFINE c == [Blank EXCEPT !.op = "candidate", !.cand = candidates[i].cand, !.text = TRUE]
<1>1. candidates[i].cand \in Nat /\ candidates[i].cand \in Recorded
  <2>1. candidates[i] \in CandidateRows
    BY DEF LibraryInvariant, Archive
  <2> QED BY <2>1 DEF CandidateRows, Recorded
<1>2. c \in Calls
  <2>1. \A n \in Nat : [Blank EXCEPT !.op = "candidate", !.cand = n, !.text = TRUE] \in Calls
    BY BlankCall DEF Calls, Ops
  <2> QED BY <1>1, <2>1
<1>3. c.op = "candidate" /\ c.next = << >> /\ c.cand = candidates[i].cand /\ c.retry = FALSE
      /\ c.stage = "import"
  BY DEF Blank
<1> HIDE DEF c
<1>4. Standing(c)
  BY <1>1, <1>3 DEF Standing
<1>5. Begin(c)
  BY DEF c
<1> QED BY <1>2, <1>3, <1>4, <1>5, BeginKeeps

LEMMA CrashKeeps == LibraryInvariant /\ Crash => LibraryInvariant'
<1> SUFFICES ASSUME LibraryInvariant, Crash PROVE LibraryInvariant'
  OBVIOUS
<1>1. /\ UNCHANGED <<papers, candidates, statements, pdf, txt, ixPaper, ixAlias>>
      /\ torn' = TRUE /\ pc' = "idle" /\ call' = Blank
  BY DEF Crash, ledgers, files, index
<1>2. IndexFromLedger'
  BY <1>1 DEF LibraryInvariant, IndexFromLedger
<1>3. Mirrored'
  BY <1>1 DEF Mirrored
<1>4. Sound(pc, call)'
  <2>1. UNCHANGED Recorded
    BY <1>1 DEF Recorded
  <2>2. Standing(call)'
    BY <1>1, <2>1, BlankCall DEF Standing
  <2>3. At(pc, call)'
    BY <1>1 DEF At
  <2> QED BY <1>1, <2>2, <2>3, BlankCall DEF Sound, Labels, Ops
<1> QED BY <1>1, <1>2, <1>3, <1>4, SameFiles DEF LibraryInvariant

\* Indexing row n of the ledger after the rows before it.
LEMMA Upserted ==
  ASSUME Ledger, IndexFromLedger, NEW n \in DOMAIN papers, UpsertPaper(papers[n]),
         UNCHANGED papers
  PROVE  IndexFromLedger' /\ (MirrorsUpTo(n - 1) => MirrorsUpTo(n)')
<1> DEFINE p == papers[n].id
<1>1. DOMAIN papers = 1..Len(papers) /\ Len(papers) \in Nat
  BY DEF Ledger
<1>2. /\ DOMAIN ixPaper' = DOMAIN ixPaper \cup {p}
      /\ ixPaper'[p] = papers[n]
      /\ \A q \in DOMAIN ixPaper : q # p => ixPaper'[q] = ixPaper[q]
  BY DEF UpsertPaper, Put
<1>3. \A a \in DOMAIN ixAlias' : ixAlias'[a] \in DOMAIN ixPaper'
  BY <1>2 DEF UpsertPaper, Claim, IndexFromLedger
<1>4. \A q \in DOMAIN ixPaper' :
        \E i \in DOMAIN papers : papers[i] = ixPaper'[q] /\ papers[i].id = q
  BY <1>2 DEF IndexFromLedger
<1>5. ASSUME MirrorsUpTo(n - 1), NEW q \in DOMAIN ixPaper'
      PROVE \E i : LastOf(RowsOfPaper(q, n), i) /\ ixPaper'[q] = papers[i]
  <2>1. CASE q = p
    <3>1. LastOf(RowsOfPaper(q, n), n)
      BY <1>1, <2>1 DEF LastOf, RowsOfPaper
    <3> QED BY <3>1, <2>1, <1>2
  <2>2. CASE q # p
    <3>1. q \in DOMAIN ixPaper /\ ixPaper'[q] = ixPaper[q]
      BY <1>2, <2>2
    <3>2. PICK i : LastOf(RowsOfPaper(q, n - 1), i) /\ ixPaper[q] = papers[i]
      BY <1>5, <3>1 DEF MirrorsUpTo
    <3>3. RowsOfPaper(q, n) = RowsOfPaper(q, n - 1)
      BY <1>1, <2>2 DEF RowsOfPaper
    <3> QED BY <3>1, <3>2, <3>3
  <2> QED BY <2>1, <2>2
<1>6. MirrorsUpTo(n - 1) => MirrorsUpTo(n)'
  <2> SUFFICES ASSUME MirrorsUpTo(n - 1), NEW q \in DOMAIN ixPaper'
               PROVE  \E i : LastOf(RowsOfPaper(q, n), i)' /\ ixPaper'[q] = papers'[i]
    BY DEF MirrorsUpTo
  <2>1. PICK i : LastOf(RowsOfPaper(q, n), i) /\ ixPaper'[q] = papers[i]
    BY <1>5
  <2> QED BY <2>1 DEF LastOf, RowsOfPaper
<1> QED BY <1>3, <1>4, <1>6 DEF IndexFromLedger

LEMMA ClearKeeps == LibraryInvariant /\ Clear => LibraryInvariant'
<1> SUFFICES ASSUME LibraryInvariant, Clear PROVE LibraryInvariant'
  OBVIOUS
<1>1. /\ UNCHANGED <<papers, candidates, statements, pdf, txt, call, torn>>
      /\ ixPaper' = << >> /\ ixAlias' = << >> /\ cursor' = 1 /\ pc' = "replay" /\ pc = "clear"
  BY DEF Clear, ledgers, files, counts
<1>2. IndexFromLedger' /\ Mirrored'
  <2>1. Len(papers) \in Nat
    BY DEF LibraryInvariant, Ledger
  <2> QED BY <1>1, <2>1 DEF IndexFromLedger, Mirrored, MirrorsUpTo
<1>3. Sound(pc', call')
  BY <1>1 DEF LibraryInvariant, Sound, At, Labels
<1>4. UNCHANGED Recorded
  BY <1>1 DEF Recorded
<1> QED BY <1>1, <1>2, <1>3, <1>4, SoundStays, SameFiles DEF LibraryInvariant

LEMMA ReplayKeeps ==
  ASSUME LibraryInvariant, ReplayPaper \/ ReplayText \/ ReplayStatements \/ Rebuilt
  PROVE  LibraryInvariant'
<1>0. Len(papers) \in Nat /\ DOMAIN papers = 1..Len(papers)
  BY DEF LibraryInvariant, Ledger
<1>1. UNCHANGED <<papers, candidates, statements, pdf, txt, call>>
  BY DEF ReplayPaper, ReplayText, ReplayStatements, Rebuilt, ledgers, files
<1>2. UNCHANGED Recorded
  BY <1>1 DEF Recorded
<1>3. Standing(call) /\ call \in Calls /\ pc \in {"replay", "replaytext"} /\ call.stage = "import"
  BY DEF LibraryInvariant, Sound, At, ReplayPaper, ReplayText, ReplayStatements, Rebuilt
<1>4. IndexFromLedger' /\ Mirrored'
  <2>1. CASE ReplayPaper
    <3>1. cursor \in Nat \ {0} /\ cursor \in DOMAIN papers /\ MirrorsUpTo(cursor - 1)
      BY <2>1, <1>0 DEF LibraryInvariant, Mirrored, ReplayPaper
    <3>2. IndexFromLedger' /\ MirrorsUpTo(cursor)'
      <4>1. UpsertPaper(papers[cursor])
        BY <2>1 DEF ReplayPaper
      <4>2. cursor' = cursor
        BY <2>1 DEF ReplayPaper, scan
      <4> QED BY <4>1, <4>2, <3>1, <1>1, Upserted DEF LibraryInvariant
    <3>3. cursor' = cursor /\ pc' = "replaytext"
      BY <2>1 DEF ReplayPaper, scan
    <3> QED BY <3>1, <3>2, <3>3, <1>0, <1>1 DEF Mirrored
  <2>2. CASE ReplayText
    <3>1. cursor \in Nat \ {0} /\ cursor <= Len(papers) /\ MirrorsUpTo(cursor)
      BY <2>2 DEF LibraryInvariant, Mirrored, ReplayText
    <3>2. /\ cursor' = cursor + 1 /\ pc' = "replay" /\ UNCHANGED <<ixPaper, ixAlias>>
      BY <2>2 DEF ReplayText, IndexText
    <3>3. cursor' - 1 = cursor
      BY <3>1, <3>2
    <3>4. MirrorsUpTo(cursor - 1)'
      BY <3>1, <3>2, <3>3, <1>1 DEF MirrorsUpTo, RowsOfPaper, LastOf
    <3>5. IndexFromLedger'
      BY <3>2, <1>1 DEF LibraryInvariant, IndexFromLedger
    <3> QED BY <3>1, <3>2, <3>4, <3>5, <1>0, <1>1 DEF Mirrored
  <2>3. CASE ReplayStatements
    <3>1. UNCHANGED <<ixPaper, ixAlias, pc, cursor>> /\ pc = "replay"
      BY <2>3 DEF ReplayStatements, IndexExtract
    <3>2. MirrorsUpTo(cursor - 1) => MirrorsUpTo(cursor - 1)'
      BY <3>1, <1>1 DEF MirrorsUpTo, RowsOfPaper, LastOf
    <3>3. IndexFromLedger'
      BY <3>1, <1>1 DEF LibraryInvariant, IndexFromLedger
    <3> QED BY <3>1, <3>2, <3>3, <1>1 DEF LibraryInvariant, Mirrored
  <2>4. CASE Rebuilt
    <3>1. UNCHANGED <<ixPaper, ixAlias>> /\ pc = "replay" /\ pc' \in Ops
      BY <2>4, <1>3 DEF Rebuilt, index, Calls
    <3>2. cursor = Len(papers) + 1 /\ MirrorsUpTo(cursor - 1)
      BY <2>4, <1>0 DEF LibraryInvariant, Mirrored, Rebuilt
    <3>3. MirrorsUpTo(Len(papers))'
      <4>1. cursor - 1 = Len(papers)
        BY <3>2, <1>0
      <4> QED BY <3>1, <3>2, <4>1, <1>1 DEF MirrorsUpTo, RowsOfPaper, LastOf
    <3>4. IndexFromLedger'
      BY <3>1, <1>1 DEF LibraryInvariant, IndexFromLedger
    <3> QED BY <3>1, <3>3, <3>4 DEF Mirrored, Ops
  <2> QED BY <2>1, <2>2, <2>3, <2>4
<1>5. Sound(pc, call)'
  <2>1. CASE ~Rebuilt
    <3>1. pc' \in {"replay", "replaytext"} /\ UNCHANGED torn
      BY <2>1, <1>3 DEF ReplayPaper, ReplayText, ReplayStatements, counts
    <3>2. Sound(pc', call')
      BY <3>1, <1>1, <1>3 DEF Sound, At, Labels
    <3> QED BY <3>1, <3>2, <1>1, <1>2, SoundStays
  <2>2. CASE Rebuilt
    <3>1. pc' = call.op /\ call.op \in Ops
      BY <2>2, <1>3 DEF Rebuilt, Calls
    <3>2. Standing(call)'
      BY <1>1, <1>2, <1>3 DEF Standing
    <3>3. At(pc, call)'
      BY <3>1, <1>1, <1>2, <1>3 DEF At, Standing, Ops
    <3> QED BY <3>1, <3>2, <3>3, <1>1, <1>3 DEF Sound, Labels
  <2> QED BY <2>1, <2>2
<1> QED BY <1>1, <1>4, <1>5, SameFiles DEF LibraryInvariant

-----------------------------------------------------------------------------
(***************************************************************************)
(* Importing                                                               *)
(***************************************************************************)
LEMMA FoundRow ==
  ASSUME LibraryInvariant, pc \notin Moving,
         NEW aliases, DOMAIN aliases \subseteq 1..4, Find(aliases) # None
  PROVE  Handy(Find(aliases)) /\ Find(aliases) \in Row /\ Find(aliases).id \in DOMAIN ixPaper
<1>1. PICK p \in DOMAIN ixPaper : Find(aliases) = ixPaper[p]
  BY FindRow DEF LibraryInvariant
<1>2. ~torn => MirrorsUpTo(Len(papers))
  BY DEF LibraryInvariant, Mirrored, Moving
<1> QED BY <1>1, <1>2, IndexedRow DEF LibraryInvariant

LEMMA LookupKeeps == LibraryInvariant /\ Lookup => LibraryInvariant'
<1> SUFFICES ASSUME LibraryInvariant, Lookup PROVE LibraryInvariant'
  OBVIOUS
<1>1. /\ UNCHANGED <<papers, candidates, statements, pdf, txt, ixPaper, torn>>
      /\ pc = "lookup" /\ pc \notin Moving
  BY DEF Lookup, ledgers, files, counts, Moving
<1>2. /\ call \in Calls /\ Standing(call) /\ call.src \in Source /\ call.op # "read"
      /\ call.stage = "import"
  BY <1>1 DEF LibraryInvariant, Sound, At
<1>3. CASE Known = None
  <2>1. pc' = "fetch" /\ UNCHANGED <<call, ixAlias>>
    BY <1>3 DEF Lookup
  <2>2. Sound(pc', call')
    BY <2>1, <1>2 DEF Sound, At, Labels
  <2> QED BY <1>1, <2>1, <2>2, Moved DEF Moving
<1>4. CASE Known # None
  <2>1. Handy(Known) /\ Known.id \in DOMAIN ixPaper
    <3>1. \A a : DOMAIN << a >> \subseteq 1..4
      OBVIOUS
    <3> QED BY <1>1, <1>4, <3>1, FoundRow DEF Known
  <2>2. CASE ~Expected(Known.title)
    <3>1. Return /\ UNCHANGED ixAlias
      BY <1>4, <2>2 DEF Lookup
    <3> QED BY <1>1, <1>2, <3>1, ReturnSound, Moved DEF Moving
  <2>3. CASE Expected(Known.title)
    <3>1. /\ Imported(Known)
          /\ Claim(Known.id, IF call.key = None THEN {} ELSE {<<"key", call.key>>})
      BY <1>4, <2>3 DEF Lookup
    <3>2. Sound(pc', call') /\ pc' \notin Moving
      BY <1>2, <2>1, <3>1, ImportedSound DEF LibraryInvariant, Moving
    <3> QED BY <1>1, <2>1, <3>1, <3>2, Moved
  <2> QED BY <2>2, <2>3
<1> QED BY <1>3, <1>4

LEMMA NamedSource ==
  ASSUME call \in Calls, call.src \in Source
  PROVE  /\ Named \in Source /\ Reported \in Row /\ Reported.text = None
         /\ Served \subseteq Source \cup {None} /\ Reported.key \in Key
<1>1. Named \in Source
  BY DEF Named, Source, Calls
<1>2. Reported.key \in Key /\ Reported.text = None
  BY <1>1, SourceAssumption DEF Reported, Calls
<1>3. Reported \in Row
  <2>1. /\ (IF call.title # None /\ Named \notin Doi THEN call.title ELSE TitleOf[Named]) \in Title
        /\ (IF call.key = None THEN KeyOf[Named] ELSE call.key) \in Key
    BY <1>1, SourceAssumption DEF Calls
  <2> QED BY <1>1, <2>1 DEF Reported, Row
<1>4. Served \subseteq Source \cup {None}
  BY <1>1 DEF Served, ArxivServes, DoiServes, UrlServes
<1> QED BY <1>1, <1>2, <1>3, <1>4

LEMMA FetchKeeps == LibraryInvariant /\ Fetch => LibraryInvariant'
<1> SUFFICES ASSUME LibraryInvariant, Fetch PROVE LibraryInvariant'
  OBVIOUS
<1> DEFINE Fetched(content) ==
      [Reported EXCEPT !.pdf = IF content = None THEN None ELSE Reported.key]
<1>1. PICK content \in Served :
        IF ~Expected(Fetched(content).title) /\ call.src \notin Url
        THEN Return /\ UNCHANGED pdf
        ELSE /\ pdf' = IF content = None THEN pdf
                       ELSE [pdf EXCEPT ![Fetched(content).key] = content]
             /\ IF Expected(Fetched(content).title) THEN Goto("register", Fetched(content))
                ELSE Return
  BY DEF Fetch
<1>2. /\ UNCHANGED <<papers, candidates, statements, txt, ixPaper, ixAlias, torn>>
      /\ pc = "fetch" /\ pc \notin Moving
  BY DEF Fetch, ledgers, index, counts, Moving
<1>3. /\ call \in Calls /\ Standing(call) /\ call.src \in Source /\ call.op # "read"
      /\ call.stage = "import"
  BY <1>2 DEF LibraryInvariant, Sound, At
<1>0. PICK row : row = Fetched(content)
  OBVIOUS
<1>4. /\ row \in Row /\ row.key = Reported.key /\ row.key \in Key /\ row.text = None
      /\ row.pdf = IF content = None THEN None ELSE Reported.key
  BY <1>0, <1>3, NamedSource DEF Row
<1>5. content \in Source \cup {None} /\ None \notin Source
  BY <1>1, <1>3, NamedSource, SourceAssumption
<1> HIDE DEF Fetched
<1>6. \/ pdf' = pdf
      \/ pdf' = [pdf EXCEPT ![row.key] = content] /\ content # None
  BY <1>1, <1>0 DEF Return
<1>7. Files' /\ \A k \in Key : pdf[k] # None => pdf'[k] # None
  BY <1>2, <1>4, <1>5, <1>6 DEF LibraryInvariant, Files
<1>8. UNCHANGED Recorded
  BY <1>2 DEF Recorded
<1>9. (Files /\ Ledger /\ AllBacked /\ Archive /\ Stated)'
  <2>1. Archive'
    BY <1>2, <1>8 DEF LibraryInvariant, Archive, RowsOf, LastOf
  <2> QED BY <1>2, <1>7, <2>1, LedgersStay
<1>10. IndexFromLedger'
  BY <1>2 DEF LibraryInvariant, IndexFromLedger
<1>11. CASE Return
  <2>1. Sound(pc', call') /\ pc' \in {"idle", "candidate"}
    BY <1>3, <1>11, ReturnSound
  <2>2. Sound(pc, call)'
    BY <2>1, <1>8 DEF Sound, At, Standing
  <2> QED BY <1>2, <1>9, <1>10, <2>1, <2>2, MirrorStays DEF LibraryInvariant, Moving
<1>12. CASE /\ pdf' = IF content = None THEN pdf ELSE [pdf EXCEPT ![row.key] = content]
            /\ Goto("register", row)
  <2> DEFINE c == [call EXCEPT !.row = row]
  <2>1. pc' = "register" /\ call' = c
    BY <1>12 DEF Goto
  <2>2. c \in Calls
    BY <1>3, <1>4, ZenonT(40) DEF Calls
  <2>3. /\ c.src = call.src /\ c.op = call.op /\ c.next = call.next /\ c.cand = call.cand
        /\ c.retry = call.retry /\ c.stage = call.stage /\ c.row = row
    BY <1>3 DEF Calls
  <2> HIDE DEF c
  <2>4. Standing(call)'
    BY <1>3, <1>8, <2>1, <2>3 DEF Standing
  <2>5. Backed(row)'
    <3>1. CASE content = None
      BY <3>1, <1>4 DEF Backed
    <3>2. CASE content # None
      <4>1. pdf' = [pdf EXCEPT ![row.key] = content]
        BY <1>12, <3>2
      <4> QED BY <4>1, <3>2, <1>4 DEF Backed, LibraryInvariant, Files
    <3> QED BY <3>1, <3>2
  <2>6. At(pc, call)'
    BY <1>2, <1>3, <1>4, <2>1, <2>3, <2>5 DEF At, Backed
  <2> QED BY <1>2, <1>9, <1>10, <2>1, <2>2, <2>4, <2>6, MirrorStays
          DEF LibraryInvariant, Sound, Labels, Moving
<1> QED BY <1>1, <1>0, <1>11, <1>12

LEMMA FailKeeps == LibraryInvariant /\ (FetchFails \/ PdfTextFails) => LibraryInvariant'
<1> SUFFICES ASSUME LibraryInvariant, FetchFails \/ PdfTextFails PROVE LibraryInvariant'
  OBVIOUS
<1>1. /\ UNCHANGED <<papers, candidates, statements, pdf, txt, ixPaper, ixAlias, torn>>
      /\ pc \in {"fetch", "pdftext"} /\ Throw
  BY DEF FetchFails, PdfTextFails, ledgers, files, index, counts
<1>2. Sound(pc', call') /\ pc' \in {"idle", "candidate", "lookup"}
  BY <1>1, ThrowSound DEF LibraryInvariant, Sound
<1> QED BY <1>1, <1>2, Moved DEF Moving

LEMMA RowWithFiles ==
  ASSUME NEW row \in Row, NEW p \in Key \cup {None}, NEW t \in Key \cup {None}
  PROVE  [row EXCEPT !.pdf = p, !.text = t] \in Row
BY DEF Row

\* A merged row is still the row of its paper, with everything it had.
LEMMA MergeExtends ==
  ASSUME NEW old \in Row, NEW new \in Row, Backed(old), Backed(new), new.text = None
  PROVE  /\ Merge(old, new) \in Row /\ Merge(old, new).id = old.id
         /\ Merge(old, new).key = old.key /\ Backed(Merge(old, new))
         /\ Extends(old, Merge(old, new))
<1> DEFINE row == Merge(old, new)
<1>1. /\ row \in Row /\ row.id = old.id /\ row.key = old.key
      /\ row.doi = Fill(old.doi, new.doi) /\ row.arxiv = Fill(old.arxiv, new.arxiv)
      /\ row.pdf = Fill(old.pdf, new.pdf) /\ row.text = Fill(old.text, new.text)
  <2>1. /\ Fill(old.doi, new.doi) \in Doi \cup {None}
        /\ Fill(old.arxiv, new.arxiv) \in Arxiv \cup {None}
        /\ Fill(old.pdf, new.pdf) \in Key \cup {None}
        /\ Fill(old.text, new.text) \in Key \cup {None}
    BY DEF Row, Fill
  <2> DEFINE b == [old EXCEPT !.doi = Fill(old.doi, new.doi),
                              !.arxiv = Fill(old.arxiv, new.arxiv)]
  <2>2. /\ b \in Row /\ b.id = old.id /\ b.key = old.key /\ b.pdf = old.pdf /\ b.text = old.text
        /\ b.doi = Fill(old.doi, new.doi) /\ b.arxiv = Fill(old.arxiv, new.arxiv)
    BY <2>1 DEF Row
  <2>3. row = [b EXCEPT !.pdf = Fill(old.pdf, new.pdf), !.text = Fill(old.text, new.text)]
    BY DEF Merge, Row
  <2> HIDE DEF b, row
  <2>4. PICK p \in Key \cup {None} : p = Fill(old.pdf, new.pdf)
    BY <2>1
  <2>5. PICK t \in Key \cup {None} : t = Fill(old.text, new.text)
    BY <2>1
  <2>6. row = [b EXCEPT !.pdf = p, !.text = t] /\ b \in Row
    BY <2>2, <2>3, <2>4, <2>5, Zenon
  <2>7. /\ row.id = b.id /\ row.key = b.key /\ row.doi = b.doi
        /\ row.arxiv = b.arxiv /\ row.pdf = p /\ row.text = t
    BY <2>6 DEF Row
  <2>8. row \in Row
    BY <2>6, RowWithFiles
  <2> QED BY <2>2, <2>4, <2>5, <2>7, <2>8
<1> HIDE DEF row
<1>2. Backed(row)
  BY <1>1 DEF Backed, Fill
<1>3. Extends(old, row)
  BY <1>1 DEF Extends, Fill
<1> QED BY <1>1, <1>2, <1>3 DEF row

LEMMA FreshRow ==
  ASSUME Ledger
  PROVE  FreshId \in Nat /\ FreshId \notin PaperIds
<1>1. PICK n \in Nat : PaperIds = 1..n
  BY DEF Ledger
<1>2. Cardinality(PaperIds) = n
  BY <1>1, FS_Interval
<1> QED BY <1>1, <1>2 DEF FreshId

\* Going on to write a row.
LEMMA AppendSound ==
  ASSUME call \in Calls, Standing(call), call.op # "read", call.stage = "import",
         NEW row, Fits(row), Backed(row), Goto("append", row)
  PROVE  Sound(pc', call') /\ pc' = "append"
<1> DEFINE c == [call EXCEPT !.row = row]
<1>1. c.row = row /\ c.op = call.op /\ c.stage = call.stage
  BY DEF Calls
<1>2. At("append", c)
  <2> HIDE DEF c
  <2> QED BY <1>1 DEF At, Staged
<1>3. row \in Row
  BY DEF Fits
<1> QED BY <1>2, <1>3, GotoSound DEF Labels

LEMMA RegisterKeeps == LibraryInvariant /\ Register => LibraryInvariant'
<1> SUFFICES ASSUME LibraryInvariant, Register PROVE LibraryInvariant'
  OBVIOUS
<1>1. /\ UNCHANGED <<papers, candidates, statements, pdf, txt, ixPaper, torn>>
      /\ pc = "register" /\ pc \notin Moving
  BY DEF Register, ledgers, files, counts, Moving
<1>2. /\ call \in Calls /\ Standing(call) /\ call.op # "read" /\ call.stage = "import"
      /\ call.row \in Row /\ Backed(call.row) /\ call.row.text = None
      /\ Ledger /\ AllBacked /\ Archive
  BY <1>1 DEF LibraryInvariant, Sound, At
<1> DEFINE old == Existing(call.row)
<1>3. CASE old = None
  <2> DEFINE row == [call.row EXCEPT !.id = FreshId]
  <2>1. Goto("append", row) /\ UNCHANGED ixAlias
    BY <1>3 DEF Register
  <2>2. FreshId \in Nat /\ FreshId \notin PaperIds
    BY <1>2, FreshRow
  <2>3. /\ row \in Row /\ row.id = FreshId /\ row.pdf = call.row.pdf
        /\ row.text = call.row.text
    BY <1>2, <2>2 DEF Row
  <2> HIDE DEF row
  <2>4. \A i \in DOMAIN papers : papers[i].id # row.id
    BY <2>2, <2>3 DEF PaperIds
  <2>5. Fits(row)
    BY <2>3, <2>4 DEF Fits, LastOf, RowsOfPaper
  <2>6. Backed(row)
    BY <1>2, <2>3 DEF Backed
  <2>7. Sound(pc', call') /\ pc' = "append"
    BY <1>2, <2>1, <2>5, <2>6, AppendSound
  <2> QED BY <1>1, <2>1, <2>7, Moved DEF Moving
<1>4. CASE old # None
  <2>1. Handy(old) /\ old \in Row /\ old.id \in DOMAIN ixPaper
    <3>1. DOMAIN Identifiers(call.row) \subseteq 1..4
      BY DEF Identifiers
    <3> QED BY <1>1, <1>4, <3>1, FoundRow DEF Existing
  <2>2. Claim(old.id, {<<"key", call.row.key>>})
    BY <1>4 DEF Register
  <2>3. CASE Goto("append", Merge(old, call.row))
    <3> DEFINE row == Merge(old, call.row)
    <3> HIDE DEF old
    <3>1. /\ row \in Row /\ row.id = old.id /\ row.key = old.key /\ Backed(row)
          /\ Extends(old, row)
      BY <1>2, <2>1, HandyRow, MergeExtends
    <3> HIDE DEF row
    <3>2. Fits(row)
      BY <1>2, <2>1, <3>1, FitsToo
    <3>3. Sound(pc', call') /\ pc' = "append"
      BY <1>2, <2>3, <3>1, <3>2, AppendSound DEF row
    <3> QED BY <1>1, <2>1, <2>2, <3>3, Moved DEF Moving
  <2>4. CASE Imported(old)
    <3> HIDE DEF old
    <3>1. Sound(pc', call') /\ pc' \notin Moving
      BY <1>2, <2>1, <2>4, ImportedSound DEF Moving
    <3> QED BY <1>1, <2>1, <2>2, <3>1, Moved
  <2> QED BY <1>4, <2>3, <2>4 DEF Register
<1> QED BY <1>3, <1>4

\* The ledger grows by the row in hand.
LEMMA AppendKeepsLedger ==
  ASSUME LibraryInvariant, NEW row, Fits(row), Backed(row), papers' = Append(papers, row),
         UNCHANGED <<statements, pdf, txt>>
  PROVE  /\ (Ledger /\ AllBacked /\ Stated)'
         /\ Len(papers') = Len(papers) + 1 /\ papers'[Len(papers) + 1] = row
         /\ \A i \in DOMAIN papers : i \in DOMAIN papers' /\ papers'[i] = papers[i]
         /\ \A p : {i \in DOMAIN papers' : i <= Len(papers) /\ papers'[i].id = p}
                     = RowsOfPaper(p, Len(papers))
<1>0. PICK n : n = Len(papers)
  OBVIOUS
<1>1. /\ papers' \in Seq(Row) /\ Len(papers') = n + 1 /\ papers'[n + 1] = row
      /\ \A i \in 1..n : papers'[i] = papers[i]
  BY <1>0, AppendProperties DEF Fits, LibraryInvariant, Ledger
<1>2. n \in Nat /\ DOMAIN papers = 1..n /\ DOMAIN papers' = 1..(n + 1)
  BY <1>0, <1>1 DEF LibraryInvariant, Ledger
<1>3. \A i \in DOMAIN papers' : i = n + 1 \/ i \in DOMAIN papers
  BY <1>2
<1>4. \A i \in DOMAIN papers : i \in DOMAIN papers' /\ papers'[i] = papers[i]
  BY <1>1, <1>2
<1>5. PaperIds' = PaperIds \cup {row.id}
  BY <1>1, <1>2, <1>3, <1>4 DEF PaperIds
<1>6. \E m \in Nat : PaperIds' = 1..m
  <2>1. PICK m \in Nat : PaperIds = 1..m
    BY DEF LibraryInvariant, Ledger
  <2>2. FreshId = m + 1
    <3>1. Cardinality(PaperIds) = m
      BY <2>1, FS_Interval
    <3> QED BY <3>1 DEF FreshId
  <2>3. CASE row.id \in PaperIds
    BY <1>5, <2>1, <2>3
  <2>4. CASE row.id = FreshId
    <3>1. PaperIds' = 1..(m + 1)
      BY <1>5, <2>1, <2>2, <2>4
    <3> QED BY <3>1
  <2> QED BY <2>3, <2>4 DEF Fits
<1>7. \A i, j \in DOMAIN papers' : papers'[i].id = papers'[j].id => papers'[i].key = papers'[j].key
  BY <1>1, <1>3, <1>4 DEF Fits, LibraryInvariant, Ledger
<1>8. ASSUME NEW i \in DOMAIN papers' PROVE \E k : LastOf(RowsUnder(papers[i].key), k)'
  <2>1. CASE papers'[i].key = row.key
    <3>1. LastOf(RowsUnder(papers[i].key), n + 1)'
      BY <1>1, <1>2, <2>1 DEF LastOf, RowsUnder
    <3> QED BY <3>1
  <2>2. CASE papers'[i].key # row.key
    <3>1. i \in DOMAIN papers /\ papers'[i] = papers[i]
      BY <1>1, <1>3, <1>4, <2>2
    <3>2. PICK k : LastOf(RowsUnder(papers[i].key), k)
      BY <3>1 DEF LibraryInvariant, Ledger
    <3>3. RowsUnder(papers[i].key)' = RowsUnder(papers[i].key)
      BY <1>1, <1>3, <1>4, <2>2, <3>1 DEF RowsUnder
    <3> QED BY <3>2, <3>3 DEF LastOf
  <2> QED BY <2>1, <2>2
<1>9. ASSUME NEW i \in DOMAIN papers'
      PROVE \E k : LastOf(RowsOfPaper(papers[i].id, Len(papers)), k)'
  <2>1. CASE papers'[i].id = row.id
    <3>1. LastOf(RowsOfPaper(papers[i].id, Len(papers)), n + 1)'
      BY <1>1, <1>2, <2>1 DEF LastOf, RowsOfPaper
    <3> QED BY <3>1
  <2>2. CASE papers'[i].id # row.id
    <3>1. i \in DOMAIN papers /\ papers'[i] = papers[i]
      BY <1>1, <1>3, <1>4, <2>2
    <3>2. PICK k : LastOf(RowsOfPaper(papers[i].id, n), k)
      BY <1>0, <3>1 DEF LibraryInvariant, Ledger
    <3>3. RowsOfPaper(papers[i].id, Len(papers))' = RowsOfPaper(papers[i].id, n)
      BY <1>1, <1>2, <1>3, <1>4, <2>2, <3>1 DEF RowsOfPaper
    <3> QED BY <3>2, <3>3 DEF LastOf
  <2> QED BY <2>1, <2>2
<1>10. Ledger'
  BY <1>1, <1>6, <1>7, <1>8, <1>9 DEF Ledger
<1>11. AllBacked'
  BY <1>1, <1>3, <1>4 DEF LibraryInvariant, AllBacked, Backed
<1>12. Stated'
  BY <1>5 DEF LibraryInvariant, Stated
<1>13. \A p : {i \in DOMAIN papers' : i <= n /\ papers'[i].id = p} = RowsOfPaper(p, n)
  BY <1>1, <1>2 DEF RowsOfPaper
<1> QED BY <1>0, <1>1, <1>4, <1>10, <1>11, <1>12, <1>13

LEMMA AppendPaperKeeps == LibraryInvariant /\ AppendPaper => LibraryInvariant'
<1> SUFFICES ASSUME LibraryInvariant, AppendPaper PROVE LibraryInvariant'
  OBVIOUS
<1>1. /\ UNCHANGED <<candidates, statements, pdf, txt, ixPaper, ixAlias, call, torn>>
      /\ pc = "append" /\ pc' = "upsert" /\ papers' = Append(papers, call.row)
  BY DEF AppendPaper, files, index, counts
<1>2. /\ call \in Calls /\ Standing(call) /\ Fits(call.row) /\ Backed(call.row) /\ Staged(call)
      /\ ~torn => MirrorsUpTo(Len(papers))
  BY <1>1 DEF LibraryInvariant, Sound, At, Mirrored
<1>3. PICK row : row = call.row
  OBVIOUS
<1>4. /\ (Ledger /\ AllBacked /\ Stated)'
      /\ Len(papers') = Len(papers) + 1 /\ papers'[Len(papers) + 1] = row
      /\ \A i \in DOMAIN papers : i \in DOMAIN papers' /\ papers'[i] = papers[i]
      /\ \A p : {i \in DOMAIN papers' : i <= Len(papers) /\ papers'[i].id = p}
                  = RowsOfPaper(p, Len(papers))
  BY <1>1, <1>2, <1>3, AppendKeepsLedger
<1>5. UNCHANGED Recorded /\ Files' /\ Archive'
  BY <1>1 DEF Recorded, LibraryInvariant, Files, Archive, RowsOf, LastOf
<1>6. IndexFromLedger'
  BY <1>1, <1>4 DEF LibraryInvariant, IndexFromLedger
<1>7. Len(papers) \in Nat
  BY DEF LibraryInvariant, Ledger
<1>8. ASSUME ~torn PROVE MirrorsUpTo(Len(papers) - 1)'
  <2> SUFFICES ASSUME NEW p \in DOMAIN ixPaper
               PROVE  \E i : LastOf(RowsOfPaper(p, Len(papers) - 1), i)' /\ ixPaper[p] = papers'[i]
    BY <1>1 DEF MirrorsUpTo
  <2>1. PICK i : LastOf(RowsOfPaper(p, Len(papers)), i) /\ ixPaper[p] = papers[i]
    BY <1>2, <1>8 DEF MirrorsUpTo
  <2>2. i \in DOMAIN papers
    BY <2>1 DEF LastOf, RowsOfPaper
  <2>3. Len(papers') - 1 = Len(papers)
    BY <1>4, <1>7
  <2>4. RowsOfPaper(p, Len(papers) - 1)' = RowsOfPaper(p, Len(papers))
    <3>1. RowsOfPaper(p, Len(papers) - 1)'
            = {j \in DOMAIN papers' : j <= Len(papers') - 1 /\ papers'[j].id = p}
      BY DEF RowsOfPaper
    <3> QED BY <3>1, <2>3, <1>4
  <2> QED BY <2>1, <2>2, <2>4, <1>4 DEF LastOf
<1>9. Mirrored'
  BY <1>1, <1>8 DEF Mirrored
<1>10. Sound(pc, call)'
  <2>1. papers' # << >> /\ papers'[Len(papers')] = call.row
    BY <1>3, <1>4, <1>7
  <2>2. Standing(call)' /\ Staged(call)'
    BY <1>1, <1>2, <1>5 DEF Standing, Staged
  <2> QED BY <1>1, <1>2, <2>1, <2>2 DEF Sound, At, Labels
<1> QED BY <1>4, <1>5, <1>6, <1>9, <1>10 DEF LibraryInvariant

LEMMA UpsertKeeps == LibraryInvariant /\ Upsert => LibraryInvariant'
<1> SUFFICES ASSUME LibraryInvariant, Upsert PROVE LibraryInvariant'
  OBVIOUS
<1>1. /\ UNCHANGED <<papers, candidates, statements, pdf, txt, call, torn>>
      /\ pc = "upsert" /\ pc' = "passages" /\ UpsertPaper(call.row)
  BY DEF Upsert, ledgers, files, counts
<1>2. /\ call \in Calls /\ Standing(call) /\ Staged(call)
      /\ papers # << >> /\ papers[Len(papers)] = call.row
      /\ ~torn => MirrorsUpTo(Len(papers) - 1)
  BY <1>1 DEF LibraryInvariant, Sound, At, Mirrored
<1>3. Len(papers) \in DOMAIN papers
  BY <1>2 DEF LibraryInvariant, Ledger
<1>4. PICK n \in DOMAIN papers : n = Len(papers)
  BY <1>3
<1>5. IndexFromLedger' /\ (~torn => MirrorsUpTo(n)')
  BY <1>1, <1>2, <1>4, Upserted DEF LibraryInvariant
<1>6. Mirrored'
  BY <1>1, <1>4, <1>5 DEF Mirrored
<1>7. Sound(pc', call') /\ UNCHANGED Recorded
  BY <1>1, <1>2 DEF Sound, At, Labels, Recorded
<1> QED BY <1>1, <1>5, <1>6, <1>7, SoundStays, SameFiles DEF LibraryInvariant

\* The row just written is its paper's last and its key's last.
LEMMA WrittenRow ==
  ASSUME Ledger, papers # << >>, NEW row, papers[Len(papers)] = row
  PROVE  Handy(row) /\ Latest(row.key) = row
<1>1. Len(papers) \in Nat \ {0} /\ DOMAIN papers = 1..Len(papers)
  BY DEF Ledger
<1>2. LastOf(RowsOfPaper(row.id, Len(papers)), Len(papers))
  BY <1>1 DEF LastOf, RowsOfPaper
<1>3. Handy(row)
  BY <1>1, <1>2 DEF Handy, InLedger
<1>4. LastOf(RowsUnder(row.key), Len(papers)) /\ RowsUnder(row.key) \in SUBSET Int
  BY <1>1 DEF LastOf, RowsUnder
<1> QED BY <1>3, <1>4, ChosenLast DEF Latest

LEMMA PassagesKeeps == LibraryInvariant /\ Passages => LibraryInvariant'
<1> SUFFICES ASSUME LibraryInvariant, Passages PROVE LibraryInvariant'
  OBVIOUS
<1>1. /\ UNCHANGED <<papers, candidates, statements, pdf, txt, ixPaper, ixAlias, torn>>
      /\ pc = "passages" /\ pc \notin Moving
  BY DEF Passages, IndexText, ledgers, files, counts, Moving
<1>2. /\ call \in Calls /\ Standing(call) /\ Staged(call)
      /\ papers # << >> /\ papers[Len(papers)] = call.row
      /\ Ledger /\ AllBacked /\ Archive
  BY <1>1 DEF LibraryInvariant, Sound, At
<1>3. Handy(call.row) /\ Latest(call.row.key) = call.row
  BY <1>2, WrittenRow
<1>4. Sound(pc', call') /\ pc' \notin Moving
  <2>1. CASE call.stage = "import"
    <3>1. Imported(call.row)
      BY <2>1 DEF Passages
    <3> QED BY <1>2, <1>3, <2>1, <3>1, ImportedSound DEF Staged, Moving
  <2>2. CASE call.stage = "text"
    <3>1. Ready(call.row)
      BY <1>3, <2>2 DEF Passages
    <3> QED BY <1>2, <1>3, <2>2, <3>1, ReadySound DEF Staged, Moving
  <2>3. CASE call.stage = "close"
    <3>1. pc' = "close" /\ UNCHANGED call
      BY <2>3 DEF Passages
    <3> QED BY <1>2, <1>3, <2>3, <3>1 DEF Sound, At, Staged, Handy, Labels, Moving
  <2> QED BY <1>2, <2>1, <2>2, <2>3 DEF Calls
<1> QED BY <1>1, <1>4, Moved

LEMMA PdfTextKeeps == LibraryInvariant /\ PdfText => LibraryInvariant'
<1> SUFFICES ASSUME LibraryInvariant, PdfText PROVE LibraryInvariant'
  OBVIOUS
<1>1. PICK paper : paper = Latest(call.row.key)
  OBVIOUS
<1> DEFINE row == [paper EXCEPT !.text = paper.pdf]
           c == [call EXCEPT !.row = row, !.stage = "text"]
<1>2. /\ UNCHANGED <<papers, candidates, statements, pdf, ixPaper, ixAlias, torn>>
      /\ pc = "pdftext" /\ pc' = "append" /\ call' = c
      /\ paper.pdf # None /\ txt' = [txt EXCEPT ![paper.pdf] = pdf[paper.pdf]]
  BY <1>1 DEF PdfText, ledgers, index, counts
<1>3. /\ call \in Calls /\ Standing(call) /\ InLedger(call.row)
      /\ Ledger /\ AllBacked /\ Files
      /\ ~torn => MirrorsUpTo(Len(papers))
  BY <1>2 DEF LibraryInvariant, Sound, At, Mirrored
<1>4. Handy(paper)
  BY <1>1, <1>3, LatestRow DEF Handy, InLedger
<1>5. paper \in Row /\ Backed(paper)
  BY <1>3, <1>4, HandyRow
<1>6. paper.pdf \in Key /\ pdf[paper.pdf] \in Source /\ None \notin Source
  BY <1>2, <1>3, <1>5, SourceAssumption DEF Row, Backed, Files
<1>7. /\ row \in Row /\ row.id = paper.id /\ row.key = paper.key /\ row.doi = paper.doi
      /\ row.arxiv = paper.arxiv /\ row.pdf = paper.pdf /\ row.text = paper.pdf
  BY <1>5, <1>6 DEF Row
<1>8. c \in Calls
  BY <1>3, <1>7 DEF Calls
<1>9. /\ c.src = call.src /\ c.op = call.op /\ c.next = call.next /\ c.cand = call.cand
      /\ c.retry = call.retry /\ c.stage = "text" /\ c.row = row
  BY <1>3 DEF Calls
<1> HIDE DEF row, c
<1>10. Extends(paper, row)
  BY <1>5, <1>7 DEF Extends, Backed
<1>11. Fits(row)
  BY <1>3, <1>4, <1>7, <1>10, FitsToo
<1>12. Files' /\ (\A k \in Key : txt[k] # None => txt'[k] # None) /\ txt'[row.pdf] # None
  BY <1>2, <1>3, <1>6, <1>7 DEF Files
<1>13. UNCHANGED Recorded
  BY <1>2 DEF Recorded
<1>14. (Files /\ Ledger /\ AllBacked /\ Archive /\ Stated)'
  <2>1. Archive'
    BY <1>2, <1>13 DEF LibraryInvariant, Archive, RowsOf, LastOf
  <2> QED BY <1>2, <1>12, <2>1, LedgersStay
<1>15. IndexFromLedger' /\ Mirrored'
  <2>1. IndexFromLedger'
    BY <1>2 DEF LibraryInvariant, IndexFromLedger
  <2> QED BY <1>2, <2>1, MirrorStays DEF Moving
<1>16. Sound(pc, call)'
  <2>1. Fits(call.row)'
    <3>1. UNCHANGED <<PaperIds, FreshId>>
      BY <1>2 DEF PaperIds, FreshId
    <3>2. call'.row = row
      BY <1>2, <1>9
    <3> QED BY <1>2, <1>11, <3>1, <3>2 DEF Fits, RowsOfPaper, LastOf, Extends
  <2>2. Backed(call.row)'
    <3>1. call'.row = row /\ row.pdf # None /\ pdf[row.pdf] # None /\ row.text = row.pdf
      BY <1>2, <1>6, <1>7, <1>9
    <3> QED BY <1>2, <1>12, <3>1 DEF Backed
  <2>3. Standing(call)'
    BY <1>2, <1>3, <1>9, <1>13 DEF Standing
  <2>4. Staged(call)'
    BY <1>2, <1>7, <1>9 DEF Staged
  <2> QED BY <1>2, <1>8, <2>1, <2>2, <2>3, <2>4 DEF Sound, At, Labels
<1> QED BY <1>14, <1>15, <1>16 DEF LibraryInvariant

-----------------------------------------------------------------------------
(***************************************************************************)
(* Candidates                                                              *)
(***************************************************************************)
\* The ledger of candidates grows.
LEMMA Filed ==
  ASSUME Archive, NEW c \in CandidateRows, candidates' = Append(candidates, c)
  PROVE  Archive' /\ Recorded' = Recorded \cup {c.cand}
<1>0. PICK n : n = Len(candidates)
  OBVIOUS
<1>1. /\ candidates' \in Seq(CandidateRows) /\ Len(candidates') = n + 1
      /\ candidates'[n + 1] = c /\ \A i \in 1..n : candidates'[i] = candidates[i]
  BY <1>0, AppendProperties DEF Archive
<1>2. n \in Nat /\ DOMAIN candidates = 1..n /\ DOMAIN candidates' = 1..(n + 1)
  BY <1>0, <1>1 DEF Archive
<1>3. /\ \A i \in DOMAIN candidates' : i = n + 1 \/ i \in DOMAIN candidates
      /\ \A i \in DOMAIN candidates : i \in DOMAIN candidates' /\ candidates'[i] = candidates[i]
  BY <1>1, <1>2
<1>4. Recorded' = Recorded \cup {c.cand}
  BY <1>1, <1>2, <1>3 DEF Recorded
<1>5. IsFiniteSet(Recorded')
  BY <1>4, FS_AddElement DEF Archive
<1>6. ASSUME NEW d \in Recorded' PROVE \E k : LastOf(RowsOf(d), k)'
  <2>1. CASE d = c.cand
    <3>1. LastOf(RowsOf(d), n + 1)'
      BY <1>1, <1>2, <2>1 DEF LastOf, RowsOf
    <3> QED BY <3>1
  <2>2. CASE d # c.cand
    <3>1. PICK k : LastOf(RowsOf(d), k)
      BY <1>4, <2>2 DEF Archive
    <3>2. RowsOf(d)' = RowsOf(d)
      BY <1>1, <1>3, <2>2 DEF RowsOf
    <3> QED BY <3>1, <3>2 DEF LastOf
  <2> QED BY <2>1, <2>2
<1> QED BY <1>1, <1>4, <1>5, <1>6 DEF Archive

LEMMA QueueKeeps == LibraryInvariant /\ Queue => LibraryInvariant'
<1> SUFFICES ASSUME LibraryInvariant, Queue PROVE LibraryInvariant'
  OBVIOUS
<1>1. /\ UNCHANGED <<papers, statements, pdf, txt, ixPaper, ixAlias, torn>>
      /\ pc = "queue" /\ pc' = "queue" /\ call.found # << >>
  BY DEF Queue, files, index, counts
<1>2. call \in Calls /\ Standing(call) /\ Archive
  BY DEF LibraryInvariant, Sound
<1>3. PICK id : id = Cardinality(Recorded) + 1
  OBVIOUS
<1>4. id \in Nat
  BY <1>2, <1>3, FS_CardinalityType DEF Archive
<1>5. PICK status \in {"queued", "duplicate"} :
        candidates' = Append(candidates, [cand |-> id, work |-> Head(call.found), paper |-> 0,
                                          status |-> status])
  BY <1>3 DEF Queue, Recorded
<1>6. call.found \in Seq(Work) /\ call.next \in Seq(Nat)
  BY <1>2 DEF Calls
<1>7. Head(call.found) \in Work /\ Tail(call.found) \in Seq(Work)
  BY <1>1, <1>6, HeadTailProperties
<1>8. Archive' /\ Recorded' = Recorded \cup {id}
  <2> DEFINE c == [cand |-> id, work |-> Head(call.found), paper |-> 0, status |-> status]
  <2>1. c \in CandidateRows /\ c.cand = id
    <3>1. \A w \in Work : [cand |-> id, work |-> w, paper |-> 0, status |-> status]
                            \in CandidateRows
      BY <1>4 DEF CandidateRows
    <3> QED BY <1>7, <3>1
  <2> HIDE DEF c
  <2> QED BY <1>2, <1>5, <2>1, Filed DEF c
<1>9. PICK next : /\ next = IF call.act /\ Len(call.next) < MaxImports
                            THEN Append(call.next, id) ELSE call.next
  OBVIOUS
<1>10. call' = [call EXCEPT !.found = Tail(call.found), !.next = next]
  BY <1>3, <1>9 DEF Queue, Recorded
<1>11. next \in Seq(Nat) /\ \A i \in DOMAIN next : next[i] \in Recorded'
  <2>1. CASE next = call.next
    BY <1>2, <1>6, <1>8, <2>1 DEF Standing
  <2>2. CASE next = Append(call.next, id)
    <3>1. /\ next \in Seq(Nat) /\ Len(next) = Len(call.next) + 1 /\ Len(call.next) \in Nat
          /\ \A i \in 1..Len(call.next) : next[i] = call.next[i]
          /\ next[Len(call.next) + 1] = id
      BY <1>4, <1>6, <2>2, AppendProperties
    <3>2. \A i \in DOMAIN call.next : call.next[i] \in Recorded
      BY <1>2 DEF Standing
    <3>3. DOMAIN call.next = 1..Len(call.next) /\ DOMAIN next = 1..(Len(call.next) + 1)
      BY <1>6, <3>1
    <3> QED BY <1>8, <3>1, <3>2, <3>3
  <2> QED BY <1>9, <2>1, <2>2
<1>12. call' \in Calls
  <2>1. \A f \in Seq(Work) : [call EXCEPT !.found = f, !.next = next] \in Calls
    BY <1>2, <1>11 DEF Calls
  <2> QED BY <1>7, <1>10, <2>1
<1>13. /\ call'.src = call.src /\ call'.op = call.op /\ call'.next = next
       /\ call'.cand = call.cand /\ call'.retry = call.retry
  BY <1>2, <1>10 DEF Calls
<1>14. Standing(call)'
  BY <1>2, <1>8, <1>11, <1>13 DEF Standing
<1>15. Sound(pc, call)'
  BY <1>1, <1>12, <1>14 DEF Sound, At, Labels, Ops
<1>16. (Files /\ Ledger /\ AllBacked /\ Archive /\ Stated)'
  BY <1>1, <1>8, LedgersStay DEF LibraryInvariant, Files
<1>17. IndexFromLedger' /\ Mirrored'
  <2>1. IndexFromLedger'
    BY <1>1 DEF LibraryInvariant, IndexFromLedger
  <2> QED BY <1>1, <2>1, MirrorStays DEF Moving
<1> QED BY <1>15, <1>16, <1>17 DEF LibraryInvariant

LEMMA ImportCandidateKeeps == LibraryInvariant /\ ImportCandidate => LibraryInvariant'
<1> SUFFICES ASSUME LibraryInvariant, ImportCandidate PROVE LibraryInvariant'
  OBVIOUS
<1>1. /\ UNCHANGED <<papers, statements, pdf, txt, ixPaper, ixAlias, torn>>
      /\ pc = "candidate" /\ pc \notin Moving
  BY DEF ImportCandidate, files, index, counts, Moving
<1>2. call \in Calls /\ Standing(call) /\ call.cand \in Recorded /\ Archive
  BY <1>1 DEF LibraryInvariant, Sound, At
<1> DEFINE c == Candidate(call.cand)
           w == c.work
           Take(stage, src, doi) ==
             /\ pc' = stage /\ UNCHANGED candidates
             /\ call' = [call EXCEPT !.src = src, !.doi = doi, !.title = w.title,
                           !.expect = w.title, !.retry = doi # None, !.stage = "import"]
<1>3. w \in Work /\ c.cand = call.cand /\ c \in CandidateRows
  BY <1>2, CandidateRow
<1>4. /\ w.title \in Title /\ w.doi \in Doi \cup {None}
      /\ w.arxiv \in Arxiv \cup {None} /\ w.pdf \in Url \cup {None}
      /\ w.landing \in Url \cup {None}
  BY <1>3, WorkAssumption
<1>5. \/ Return /\ UNCHANGED candidates
      \/ candidates' = Append(candidates, [c EXCEPT !.status = "duplicate"]) /\ Return
      \/ w.arxiv # None /\ Take("fetch", w.arxiv, None)
      \/ w.pdf # None /\ Take("lookup", w.pdf, w.doi)
      \/ w.doi # None /\ Take("lookup", w.doi, None)
      \/ w.landing # None /\ Take("lookup", w.landing, None)
  BY DEF ImportCandidate
<1>6. CASE Return /\ UNCHANGED candidates
  BY <1>1, <1>2, <1>6, ReturnSound, Moved DEF Moving
<1>7. CASE candidates' = Append(candidates, [c EXCEPT !.status = "duplicate"]) /\ Return
  <2> DEFINE d == [c EXCEPT !.status = "duplicate"]
  <2> HIDE DEF c
  <2>1. d \in CandidateRows /\ d.cand = call.cand
    BY <1>3 DEF CandidateRows
  <2> HIDE DEF d
  <2>2. Archive' /\ Recorded \subseteq Recorded'
    BY <1>2, <1>7, <2>1, Filed DEF d
  <2> QED BY <1>1, <1>2, <1>7, <2>2, ReturnSound, Moved DEF Moving
<1>8. ASSUME NEW stage \in {"fetch", "lookup"}, NEW src \in Source, NEW doi \in Doi \cup {None},
             Take(stage, src, doi), call.op # "read"
      PROVE  LibraryInvariant'
  <2>1. PICK title \in Title : title = w.title
    BY <1>4
  <2> DEFINE d == [call EXCEPT !.src = src, !.doi = doi, !.title = title, !.expect = title,
                               !.retry = doi # None, !.stage = "import"]
  <2>2. pc' = stage /\ UNCHANGED candidates /\ call' = d
    BY <1>8, <2>1
  <2>3. d \in Calls
    BY <1>2, ZenonT(40) DEF Calls
  <2>4. /\ d.src = src /\ d.op = call.op /\ d.next = call.next /\ d.cand = call.cand
        /\ d.stage = "import"
    BY <1>2 DEF Calls
  <2> HIDE DEF d
  <2>5. Standing(d) /\ At(stage, d)
    BY <1>2, <1>8, <2>4 DEF Standing, At
  <2>6. Sound(pc', call')
    BY <2>2, <2>3, <2>5 DEF Sound, Labels, Ops
  <2> QED BY <1>1, <2>2, <2>6, Moved DEF Moving
<1>9. call.op # "read"
  BY <1>1 DEF LibraryInvariant, Sound, At
<1>10. CASE w.arxiv # None /\ Take("fetch", w.arxiv, None)
  BY <1>4, <1>8, <1>9, <1>10 DEF Source
<1>11. CASE w.pdf # None /\ Take("lookup", w.pdf, w.doi)
  BY <1>4, <1>8, <1>9, <1>11 DEF Source
<1>12. CASE w.doi # None /\ Take("lookup", w.doi, None)
  BY <1>4, <1>8, <1>9, <1>12 DEF Source
<1>13. CASE w.landing # None /\ Take("lookup", w.landing, None)
  BY <1>4, <1>8, <1>9, <1>13 DEF Source
<1> QED BY <1>5, <1>6, <1>7, <1>10, <1>11, <1>12, <1>13

LEMMA CloseCandidateKeeps == LibraryInvariant /\ CloseCandidate => LibraryInvariant'
<1> SUFFICES ASSUME LibraryInvariant, CloseCandidate PROVE LibraryInvariant'
  OBVIOUS
<1>1. /\ UNCHANGED <<papers, statements, pdf, txt, ixPaper, ixAlias, torn>>
      /\ pc = "close" /\ pc \notin Moving
  BY DEF CloseCandidate, files, index, counts, Moving
<1>2. /\ call \in Calls /\ Standing(call) /\ call.cand \in Recorded /\ ~call.retry
      /\ InLedger(call.row) /\ Archive /\ Ledger
  BY <1>1 DEF LibraryInvariant, Sound, At
<1>3. call.row \in Row /\ call.row.id \in Nat /\ call.row.key \in Key
  <2>1. call.row \in Row
    BY <1>2 DEF InLedger, Ledger
  <2> QED BY <2>1 DEF Row
<1> DEFINE c == Candidate(call.cand)
           d == [c EXCEPT !.status = "imported", !.paper = call.row.id]
<1>4. Archive' /\ Recorded \subseteq Recorded'
  <2>1. c \in CandidateRows /\ c.cand = call.cand
    BY <1>2, CandidateRow
  <2>2. candidates' = Append(candidates, d)
    BY DEF CloseCandidate
  <2> HIDE DEF c
  <2>3. d \in CandidateRows
    BY <1>3, <2>1 DEF CandidateRows
  <2> HIDE DEF d
  <2> QED BY <1>2, <2>2, <2>3, Filed
<1>5. CASE call.act /\ call.row.text # None
  <2> DEFINE e == [call EXCEPT !.op = "read", !.key = call.row.key]
  <2>1. pc' = "read" /\ call' = e
    BY <1>5 DEF CloseCandidate
  <2>2. e \in Calls
    BY <1>2, <1>3 DEF Calls, Ops
  <2>3. /\ e.op = "read" /\ e.next = call.next /\ e.cand = call.cand /\ e.retry = call.retry
    BY <1>2 DEF Calls
  <2> HIDE DEF e
  <2>4. Standing(e) /\ At("read", e)
    BY <1>2, <2>3 DEF Standing, At
  <2> QED BY <1>1, <1>4, <2>1, <2>2, <2>4, Moved DEF Sound, Labels, Ops, Moving
<1>6. CASE ~(call.act /\ call.row.text # None)
  <2>1. Return
    BY <1>6 DEF CloseCandidate
  <2> QED BY <1>1, <1>2, <1>4, <2>1, ReturnSound, Moved DEF Moving
<1> QED BY <1>5, <1>6

-----------------------------------------------------------------------------
(***************************************************************************)
(* Statements and quotes                                                   *)
(***************************************************************************)
LEMMA ReadKeeps == LibraryInvariant /\ Read => LibraryInvariant'
<1> SUFFICES ASSUME LibraryInvariant, Read PROVE LibraryInvariant'
  OBVIOUS
<1>1. /\ UNCHANGED <<papers, candidates, statements, pdf, txt, ixPaper, ixAlias, torn>>
      /\ pc = "read" /\ pc \notin Moving
  BY DEF Read, ledgers, files, index, counts, Moving
<1>2. call \in Calls /\ Standing(call) /\ Ledger
  BY DEF LibraryInvariant, Sound
<1>3. CASE Return
  BY <1>1, <1>2, <1>3, ReturnSound, Moved DEF Moving
<1>4. ASSUME RowsUnder(call.key) # {}, NEW stage \in {"extract", "pdftext"},
             stage = "extract" => Latest(call.key).text # None,
             Goto(stage, Latest(call.key))
      PROVE  LibraryInvariant'
  <2>1. PICK i \in DOMAIN papers : papers[i].key = call.key
    BY <1>4 DEF RowsUnder
  <2>2. PICK k \in DOMAIN papers : Latest(call.key) = papers[k]
    <3>1. InLedger(papers[i])
      BY DEF InLedger
    <3> QED BY <1>2, <2>1, <3>1, LatestRow
  <2>3. PICK row \in Row : row = Latest(call.key) /\ InLedger(row)
    BY <1>2, <2>2 DEF Ledger, InLedger
  <2> DEFINE c == [call EXCEPT !.row = row]
  <2>4. c.row = row
    BY <1>2 DEF Calls
  <2>5. At(stage, c)
    <3> HIDE DEF c
    <3> QED BY <1>4, <2>3, <2>4 DEF At
  <2>6. Sound(pc', call') /\ pc' = stage
    BY <1>2, <1>4, <2>3, <2>5, GotoSound DEF Labels
  <2> QED BY <1>1, <2>6, Moved DEF Moving
<1> QED BY <1>3, <1>4 DEF Read

LEMMA WriteStatementsKeeps == LibraryInvariant /\ WriteStatements => LibraryInvariant'
<1> SUFFICES ASSUME LibraryInvariant, WriteStatements PROVE LibraryInvariant'
  OBVIOUS
<1>1. /\ UNCHANGED <<papers, candidates, pdf, txt, ixPaper, ixAlias, torn>>
      /\ pc = "statements" /\ Return
      /\ statements' = Retained(call.row) \cup Found(call.row)
  BY DEF WriteStatements, files, index, counts
<1>2. /\ call \in Calls /\ Standing(call) /\ InLedger(call.row) /\ call.row.text # None
      /\ Ledger /\ AllBacked /\ Files
  BY <1>1 DEF LibraryInvariant, Sound, At
<1>3. /\ call.row \in Row /\ Backed(call.row) /\ call.row.id \in PaperIds
  BY <1>2 DEF InLedger, Ledger, AllBacked, PaperIds
<1>4. call.row.text \in Key /\ call.row.key \in Key
  BY <1>2, <1>3 DEF Row
<1>6. UNCHANGED PaperIds
  BY <1>1 DEF PaperIds
<1>7. Stated'
  <2>1. \A g \in Retained(call.row) : g \in statements
    BY DEF Retained
  <2>2. \A g \in Found(call.row) : g.id \in PaperIds /\ g.key \in Key /\ g.quote \in Quotes
    BY <1>3, <1>4 DEF Found, Group
  <2> QED BY <1>1, <1>6, <2>1, <2>2 DEF LibraryInvariant, Stated
<1>8. (Files /\ Ledger /\ AllBacked /\ Archive)'
  <2>1. UNCHANGED Recorded
    BY <1>1 DEF Recorded
  <2>2. Ledger'
    BY <1>1, <1>2, <1>6 DEF Ledger, RowsUnder, RowsOfPaper, LastOf
  <2>3. Files' /\ AllBacked'
    BY <1>1, <1>2 DEF Files, AllBacked, Backed
  <2> QED BY <1>1, <2>1, <2>2, <2>3 DEF LibraryInvariant, Archive, RowsOf, LastOf
<1>9. Sound(pc', call') /\ pc' \in {"idle", "candidate"}
  BY <1>1, <1>2, ReturnSound
<1>10. IndexFromLedger' /\ Mirrored'
  <2>1. IndexFromLedger'
    BY <1>1 DEF LibraryInvariant, IndexFromLedger
  <2> QED BY <1>1, <1>9, <2>1, MirrorStays DEF Moving
<1>11. Sound(pc, call)'
  <2>1. UNCHANGED Recorded
    BY <1>1 DEF Recorded
  <2> QED BY <1>1, <1>9, <2>1, SoundStays
<1> QED BY <1>7, <1>8, <1>10, <1>11 DEF LibraryInvariant

LEMMA RestKeeps == LibraryInvariant /\ (Queued \/ Extract \/ Query) => LibraryInvariant'
<1> SUFFICES ASSUME LibraryInvariant, Queued \/ Extract \/ Query PROVE LibraryInvariant'
  OBVIOUS
<1>1. /\ UNCHANGED <<papers, candidates, statements, pdf, txt, ixPaper, ixAlias, torn>>
      /\ pc \notin Moving
  BY DEF Queued, Extract, Query, IndexExtract, ledgers, files, index, counts, Moving
<1>2. call \in Calls /\ Standing(call)
  BY DEF LibraryInvariant, Sound
<1>3. CASE Return
  BY <1>1, <1>2, <1>3, ReturnSound, Moved DEF Moving
<1>4. CASE Extract
  <2>1. pc' = "statements" /\ UNCHANGED call /\ pc = "extract"
    BY <1>4 DEF Extract
  <2>2. Sound(pc', call')
    BY <2>1 DEF LibraryInvariant, Sound, At, Labels
  <2> QED BY <1>1, <2>1, <2>2, Moved DEF Moving
<1> QED BY <1>3, <1>4 DEF Queued, Query

-----------------------------------------------------------------------------
(***************************************************************************)
(* Theorems                                                                *)
(***************************************************************************)
LEMMA LibraryStep == LibraryInvariant /\ [LibraryNext]_vars => LibraryInvariant'
<1>1. LibraryInvariant /\ UNCHANGED vars => LibraryInvariant'
  <2> SUFFICES ASSUME LibraryInvariant, UNCHANGED vars PROVE LibraryInvariant'
    OBVIOUS
  <2>1. UNCHANGED <<papers, candidates, statements, pdf, txt, ixPaper, ixAlias, pc, call, cursor,
                    torn>>
    BY DEF vars, ledgers, files, index, scan, counts
  <2>2. UNCHANGED Recorded
    BY <2>1 DEF Recorded
  <2>3. Sound(pc, call)'
    BY <2>1, <2>2, SoundStays DEF LibraryInvariant
  <2>4. IndexFromLedger' /\ Mirrored'
    <3>1. \A n : MirrorsUpTo(n)' <=> MirrorsUpTo(n)
      BY <2>1 DEF MirrorsUpTo, RowsOfPaper, LastOf
    <3> QED BY <2>1 DEF LibraryInvariant, IndexFromLedger, Mirrored, MirrorsUpTo, RowsOfPaper,
                        LastOf
  <2> QED BY <2>1, <2>3, <2>4, SameFiles DEF LibraryInvariant
<1> QED BY <1>1, StartKeeps, StartCandidateKeeps, CrashKeeps, ClearKeeps, ReplayKeeps,
           LookupKeeps, FetchKeeps, FailKeeps, RegisterKeeps, AppendPaperKeeps, UpsertKeeps,
           PassagesKeeps, PdfTextKeeps, QueueKeeps, ImportCandidateKeeps, CloseCandidateKeeps,
           ReadKeeps, WriteStatementsKeeps, RestKeeps DEF LibraryNext

\* The inductive invariant: what is true of the ledgers, the files and the index, and of
\* the running call at each of its writes.
THEOREM LibraryInductive == LibrarySpec => []LibraryInvariant
BY LibraryInitially, LibraryStep, PTL DEF LibrarySpec

LEMMA InvariantTypes == LibraryInvariant => LibraryTypeOK
<1> SUFFICES ASSUME LibraryInvariant PROVE LibraryTypeOK
  OBVIOUS
<1>1. \A i \in DOMAIN candidates :
        candidates[i].work \in Work /\ candidates[i].status \in {"queued", "imported", "duplicate"}
  <2>1. \A i \in DOMAIN candidates : candidates[i] \in CandidateRows
    BY DEF LibraryInvariant, Archive
  <2> QED BY <2>1 DEF CandidateRows
<1>2. papers \in Seq(Row) /\ pdf \in [Key -> Source \cup {None}]
      /\ txt \in [Key -> Source \cup {None}]
  BY DEF LibraryInvariant, Ledger, Files
<1>3. \A i \in DOMAIN papers :
        /\ papers[i].pdf # None => pdf[papers[i].pdf] # None
        /\ papers[i].text # None => txt[papers[i].text] # None
  BY DEF LibraryInvariant, AllBacked, Backed
<1>4. DOMAIN ixPaper \subseteq PaperIds
  BY DEF LibraryInvariant, IndexFromLedger, PaperIds
<1>5. call.row # None => call.row \in Row
  BY DEF LibraryInvariant, Sound, Calls
<1> QED BY <1>1, <1>2, <1>3, <1>4, <1>5
        DEF LibraryTypeOK, LibraryInvariant, Stated, IndexFromLedger

\* Ledgers, files, index and call have their types; every file a row names is there.
THEOREM LibraryTyping == LibrarySpec => []LibraryTypeOK
BY LibraryInductive, InvariantTypes, PTL

\* Whenever a call dies, and however often, the index holds nothing the ledger has not: the
\* ledger is written first (AppendPaper before Upsert, and a rebuild reads the ledger).
THEOREM IndexNeverAhead == LibrarySpec => []IndexFromLedger
<1>1. LibraryInvariant => IndexFromLedger
  BY DEF LibraryInvariant
<1> QED BY <1>1, LibraryInductive, PTL

\* While the index mirrors the ledger, no import, extraction or candidate makes a paper lose
\* an identifier or a file: every row that is appended extends the last one of its paper.
THEOREM PapersOnlyGrow == LibrarySpec => NothingForgotten
<1> DEFINE Kept ==
      ~torn => \A p \in PaperIds :
        \A f \in {"doi", "arxiv", "pdf", "text"} :
          LastRow(p)[f] # None => LastRow(p)'[f] = LastRow(p)[f]
<1>1. LibraryInvariant /\ [LibraryNext]_vars => [Kept]_vars
  <2> SUFFICES ASSUME LibraryInvariant, [LibraryNext]_vars, ~torn, NEW p \in PaperIds
               PROVE  \A f \in {"doi", "arxiv", "pdf", "text"} :
                        LastRow(p)[f] # None => LastRow(p)'[f] = LastRow(p)[f]
    OBVIOUS
  <2>1. CASE UNCHANGED papers
    BY <2>1 DEF LastRow
  <2>2. CASE AppendPaper
    <3>1. /\ papers' = Append(papers, call.row) /\ Fits(call.row) /\ Backed(call.row)
          /\ UNCHANGED <<statements, pdf, txt>>
      BY <2>2 DEF AppendPaper, LibraryInvariant, Sound, At, files
    <3>2. PICK row : row = call.row
      OBVIOUS
    <3>3. PICK k : /\ LastOf(RowsOfPaper(p, Len(papers)), k) /\ LastRow(p) = papers[k]
                   /\ k \in DOMAIN papers /\ papers[k].id = p
      BY PaperRow DEF LibraryInvariant
    <3>4. /\ Len(papers') = Len(papers) + 1 /\ papers'[Len(papers) + 1] = row
          /\ papers' \in Seq(Row) /\ papers \in Seq(Row)
          /\ \A i \in DOMAIN papers : i \in DOMAIN papers' /\ papers'[i] = papers[i]
      BY <3>1, <3>2, AppendKeepsLedger DEF Ledger, LibraryInvariant
    <3>5. Len(papers) \in Nat /\ DOMAIN papers = 1..Len(papers)
          /\ DOMAIN papers' = 1..(Len(papers) + 1)
      BY <3>4
    <3>6. PICK I : I = {i \in DOMAIN papers' : papers'[i].id = p}
      OBVIOUS
    <3>7. LastRow(p)' = papers'[CHOOSE i \in I : \A j \in I : j <= i]
      BY <3>6 DEF LastRow
    <3>8. I \in SUBSET Int
      BY <3>5, <3>6
    <3>9. CASE row.id = p
      <4>1. LastOf(I, Len(papers) + 1)
        BY <3>4, <3>5, <3>6, <3>9 DEF LastOf
      <4>2. LastRow(p)' = row
        BY <3>4, <3>7, <3>8, <4>1, ChosenLast
      <4>3. Extends(papers[k], row)
        BY <3>1, <3>2, <3>3, <3>9 DEF Fits
      <4> QED BY <3>3, <4>2, <4>3 DEF Extends
    <3>10. CASE row.id # p
      <4>1. LastOf(I, k)
        BY <3>3, <3>4, <3>5, <3>6, <3>10 DEF LastOf, RowsOfPaper
      <4>2. LastRow(p)' = papers[k]
        BY <3>3, <3>4, <3>7, <3>8, <4>1, ChosenLast
      <4> QED BY <3>3, <4>2
    <3> QED BY <3>9, <3>10
  <2>3. UNCHANGED papers \/ AppendPaper
    BY DEF LibraryNext, Start, StartCandidate, Begin, Crash, Clear, ReplayPaper, ReplayText,
           ReplayStatements, Rebuilt, Lookup, Fetch, FetchFails, Register, Upsert, Passages,
           PdfText, PdfTextFails, Queue, Queued, ImportCandidate, CloseCandidate, Read, Extract,
           WriteStatements, Query, vars, ledgers
  <2> QED BY <2>1, <2>2, <2>3
<1>2. [Kept]_vars => [~torn => \A p \in PaperIds :
       LET old == LastRow(p)
           new == LastRow(p)'
       IN \A f \in {"doi", "arxiv", "pdf", "text"} : old[f] # None => new[f] = old[f]]_vars
  OBVIOUS
<1> QED BY <1>1, <1>2, LibraryInductive, PTL DEF LibrarySpec, NothingForgotten
-----------------------------------------------------------------------------
(***************************************************************************)
(* How the index follows the ledgers                                       *)
(***************************************************************************)
Replaying == {"replay", "replaytext"}

\* The index follows the ledger, and has so many of its rows.
Live == pc \in Replaying \/ ~torn
Reach ==
  CASE pc = "replay" -> cursor - 1
    [] pc = "replaytext" -> cursor
    [] pc = "upsert" -> Len(papers) - 1
    [] OTHER -> Len(papers)

NamedUpTo(a, n) == \E i \in 1..n : a \in Aliases(papers[i])

\* Row j is the first to name a.
FirstNames(j, a) ==
  /\ j \in DOMAIN papers /\ a \in Aliases(papers[j])
  /\ \A k \in 1..(j - 1) : a \notin Aliases(papers[k])

AliasedUpTo(n) ==
  \A i \in 1..n : \A a \in Aliases(papers[i]) :
    a \in DOMAIN ixAlias /\ \E j \in 1..i : FirstNames(j, a) /\ papers[j].id = ixAlias[a]

\* Besides what rows name, the index knows the keys of merged papers; a row about to be
\* indexed has none of those.
AliasInv ==
  Live =>
    /\ DOMAIN ixPaper = {papers[i].id : i \in 1..Reach}
    /\ AliasedUpTo(Reach)
    /\ \A a \in DOMAIN ixAlias :
         NamedUpTo(a, Reach) \/ (pc \notin Replaying /\ a[1] = "key")
    /\ pc \in {"append", "upsert"} =>
         \A a \in Aliases(call.row) : a \in DOMAIN ixAlias => NamedUpTo(a, Reach)

Newest(i) == LastOf(RowsOfPaper(papers[i].id, Len(papers)), i)

\* The passages of a paper are those of the text that row i names.
PassagesOf(i) ==
  papers[i].id \in DOMAIN ixText /\ ixText[papers[i].id].src = txt[papers[i].text]

TextUpTo(n) ==
  \A i \in 1..n : LastOf(RowsOfPaper(papers[i].id, n), i) /\ papers[i].text # None => PassagesOf(i)

\* The paper whose passages are on their way into the index.
Underway(p) ==
  /\ pc \in {"upsert", "passages"} \/ (pc = "append" /\ call.stage = "text")
  /\ p = call.row.id

\* Row i is its paper's newest and names a text of which no other paper has the PDF.
Unlike(i) ==
  \A j \in DOMAIN papers : Newest(j) /\ papers[j].id # papers[i].id => papers[j].pdf # papers[i].text
Covered(i) == Newest(i) /\ papers[i].text # None /\ Unlike(i)

TextInv ==
  /\ pc \in Replaying => TextUpTo(cursor - 1)
  /\ pc \notin Replaying /\ ~torn =>
       \A i \in DOMAIN papers : Covered(i) /\ ~Underway(papers[i].id) => PassagesOf(i)

Shares(r, s) == Aliases(r) \cap Aliases(s) # {} \/ r.open \cap s.open # {}

\* A call for a candidate imports it or, when it is closed, reads it.
CallFor(l, c) ==
  /\ c.cand # 0 => c.op \in {"candidate", "read"}
  /\ l = "read" => c.op = "read"

\* A candidate being imported, before its row is written.
Importing(l, c) ==
  /\ c.cand # 0 /\ c.op # "read"
  /\ \/ l \in {"lookup", "fetch", "register", "pdftext"}
     \/ l \in {"append", "upsert", "passages"} /\ c.stage # "close"

Unique == \A i, j \in DOMAIN papers : Shares(papers[i], papers[j]) => papers[i].id = papers[j].id

\* A row that may be appended shares nothing with the rows of other papers.
Alone(row) == \A i \in DOMAIN papers : Shares(row, papers[i]) => papers[i].id = row.id

\* No paper has the discovered work of the candidate yet.
Unopened ==
  LET work == Candidate(call.cand).work
  IN work.open => /\ \A i \in DOMAIN papers : work \notin papers[i].open
                  /\ pc = "append" => work \notin call.row.open

UniqueInv ==
  /\ crashes \in Nat /\ (crashes = 0 => ~torn)
  /\ CallFor(pc, call)
  /\ pc = "register" => call.row.open = {} /\ (call.row.doi = None \/ call.row.arxiv = None)
  /\ crashes = 0 => /\ Unique
                    /\ pc = "append" => Alone(call.row)
                    /\ Importing(pc, call) => Unopened

Groups == [id : Nat, key : Key, quote : Quotes]
Indexed == {[id |-> p, key |-> ixStmt[p].key, quote |-> ixStmt[p].quote] : p \in DOMAIN ixStmt}

\* What a rebuild finds in the text of the paper that a citation key leads to.
Checked(key) ==
  LET row == Find(<< <<"key", key>> >>)
  IN IF row = None \/ row.text = None THEN None ELSE txt[row.text]

HasRow(g) == \E i \in DOMAIN papers : papers[i].id = g.id /\ papers[i].key = g.key
Grouped == \A g \in statements : g \in Groups /\ HasRow(g)

\* A rebuild indexes statements of the ledger, as the present texts have them.
Reindexed ==
  pc \in Replaying =>
    /\ todo \subseteq statements /\ Indexed \subseteq statements
    /\ cursor <= Len(papers) => DOMAIN ixStmt = {}
    /\ \A p \in DOMAIN ixStmt : /\ ixStmt[p].sha = Checked(ixStmt[p].key)
                                /\ ixStmt[p].ok = Located(ixStmt[p].sha, ixStmt[p].quote)

\* An extraction has indexed the statements of the present text.
Extracting ==
  pc = "statements" /\ call.row.id \in DOMAIN ixStmt =>
    LET text == txt[call.row.text]
    IN ixStmt[call.row.id] = [key |-> call.row.key, quote |-> Collapsed(text), sha |-> text, ok |-> TRUE]

\* What the index has of the ledger, as long as no call has died.
Complete ==
  crashes = 0 =>
    /\ \A g, h \in statements : g.id = h.id => g = h
    /\ pc \in Replaying => statements = Indexed \cup todo
    /\ pc = "statements" => Indexed = {g \in statements : g.id # call.row.id} \cup Found(call.row)
    /\ pc \notin Replaying \cup {"statements"} => Indexed = statements

StatementInv == Grouped /\ Reindexed /\ Extracting /\ Complete

\* The index has one row for each paper in it.
Table == ixPaper = [p \in DOMAIN ixPaper |-> ixPaper[p]]

IndexInvariant == Table /\ AliasInv /\ TextInv /\ UniqueInv /\ StatementInv
-----------------------------------------------------------------------------
(***************************************************************************)
(* Where a call goes next                                                  *)
(***************************************************************************)
\* The call is over, or the next candidate has its turn.
Turn == pc' \in {"idle", "candidate"} /\ (call'.cand # 0 => call'.op = "candidate")

Same == call'.cand = call.cand /\ call'.op = call.op

LEMMA ReturnGoes ==
  ASSUME call \in Calls, Return
  PROVE  Turn
<1>1. CASE call.next = << >>
  BY <1>1 DEF Return, Turn, Blank
<1>2. CASE call.next # << >>
  BY <1>2 DEF Return, Turn, Blank
<1> QED BY <1>1, <1>2

LEMMA ThrowGoes ==
  ASSUME call \in Calls, Throw
  PROVE  Turn \/ (pc' = "lookup" /\ Same)
<1>1. CASE call.retry
  BY <1>1 DEF Throw, Same, Calls
<1>2. CASE ~call.retry
  BY <1>2, ReturnGoes DEF Throw
<1> QED BY <1>1, <1>2

LEMMA GotoGoes ==
  ASSUME call \in Calls, NEW l, NEW row, Goto(l, row)
  PROVE  pc' = l /\ Same /\ call'.row = row /\ call'.stage = call.stage
BY DEF Goto, Same, Calls

\* The row of a candidate: the imported one, with the discovered work.
Closing(row) ==
  /\ pc' = "append" /\ Same /\ call.cand # 0 /\ call.op # "read" /\ call'.stage = "close"
  /\ call'.row.id = row.id /\ Aliases(call'.row) = Aliases(row)
  /\ \A w \in call'.row.open :
       w \in row.open \/ (w = Candidate(call.cand).work /\ w.open)

LEMMA ReadyGoes ==
  ASSUME call \in Calls, NEW row \in Row, Ready(row)
  PROVE  Turn \/ (pc' = "extract" /\ Same) \/ Closing(row)
<1>1. CASE call.op = "read"
  BY <1>1, GotoGoes DEF Ready
<1>2. CASE call.op # "read" /\ call.cand = 0
  BY <1>2, ReturnGoes DEF Ready
<1>3. CASE call.op # "read" /\ call.cand # 0
  <2> DEFINE work == Candidate(call.cand).work
             open == IF work.open THEN {work} ELSE {}
             new == [row EXCEPT !.open = @ \cup open]
  <2>1. pc' = "append" /\ call' = [call EXCEPT !.stage = "close", !.retry = FALSE, !.row = new]
    BY <1>3 DEF Ready
  <2>2. /\ new.id = row.id /\ new.doi = row.doi /\ new.arxiv = row.arxiv /\ new.key = row.key
        /\ new.title = row.title /\ new.open = row.open \cup open
    BY DEF Row
  <2>3. \A w \in open : w = work /\ w.open
    OBVIOUS
  <2> HIDE DEF new, open
  <2>4. Same /\ call'.stage = "close" /\ call'.row = new
    BY <2>1 DEF Same, Calls
  <2>5. Aliases(new) = Aliases(row)
    BY <2>2 DEF Aliases
  <2> QED BY <1>3, <2>1, <2>2, <2>3, <2>4, <2>5 DEF Closing
<1> QED BY <1>1, <1>2, <1>3

LEMMA ImportedGoes ==
  ASSUME call \in Calls, NEW row \in Row, Imported(row)
  PROVE  \/ Turn \/ (pc' = "extract" /\ Same) \/ Closing(row)
         \/ (pc' = "pdftext" /\ Same /\ call'.row = row)
BY ReadyGoes, GotoGoes DEF Imported

\* The steps that touch neither the papers nor the texts nor the statements.
Ordinary ==
  \/ Start \/ StartCandidate \/ Lookup \/ Fetch \/ FetchFails \/ Register \/ PdfTextFails
  \/ Queue \/ Queued \/ ImportCandidate \/ CloseCandidate \/ Read \/ Query

LEMMA OrdinaryFrame ==
  ASSUME Ordinary
  PROVE  /\ UNCHANGED <<papers, statements, txt, ixPaper, ixText, ixStmt, crashes, torn>>
         /\ UNCHANGED cursor
         /\ pc \in Ops \cup {"fetch", "register", "pdftext", "close"}
<1> USE DEF ledgers, files, index, scan, counts, Ops
<1>1. CASE Start \/ StartCandidate
  BY <1>1 DEF Start, StartCandidate, Begin
<1>2. CASE Lookup \/ Fetch \/ FetchFails \/ Register \/ PdfTextFails
  BY <1>2 DEF Lookup, Fetch, FetchFails, Register, PdfTextFails
<1>3. CASE Queue \/ Queued \/ ImportCandidate \/ CloseCandidate \/ Read \/ Query
  BY <1>3 DEF Queue, Queued, ImportCandidate, CloseCandidate, Read, Query
<1> QED BY <1>1, <1>2, <1>3 DEF Ordinary

\* A step that writes no row, and goes on importing a candidate only if it was.
Onward ==
  /\ pc' \notin Replaying \cup {"register", "append", "upsert", "passages", "statements"}
  /\ CallFor(pc, call) => CallFor(pc', call')
  /\ Importing(pc', call') =>
       Importing(pc, call) /\ call'.cand = call.cand /\ UNCHANGED candidates

\* A fetch hands over what it was served.
Fetching ==
  /\ pc = "fetch" /\ pc' = "register" /\ Same /\ UNCHANGED candidates
  /\ call'.row.open = {} /\ (call'.row.doi = None \/ call'.row.arxiv = None)

\* The import of an old paper is over, and its candidate is closed.
Closes ==
  /\ Importing(pc, call) /\ UNCHANGED candidates
  /\ \E row : Handy(row) /\ Closing(row)

\* The row of a new paper, or more about an old one.
Appending ==
  /\ pc = "register" /\ pc' = "append" /\ Same /\ call'.stage = call.stage
  /\ UNCHANGED candidates
  /\ LET old == Existing(call.row)
     IN call'.row = IF old = None THEN [call.row EXCEPT !.id = FreshId] ELSE Merge(old, call.row)

\* A candidate is taken up that no paper was imported for.
TakenUp ==
  /\ pc' \in {"lookup", "fetch"} /\ Same /\ UNCHANGED candidates
  /\ WorkKey(Candidate(call.cand).work) \notin ImportedKeys

LEMMA TurnOnward == Turn => Onward
BY DEF Turn, Onward, Replaying, CallFor, Importing

LEMMA ThrowOnward ==
  ASSUME call \in Calls, Throw, UNCHANGED candidates, pc \in {"fetch", "pdftext"}
  PROVE  Onward
<1>1. CASE pc' = "lookup" /\ Same
  BY <1>1 DEF Same, Onward, Replaying, CallFor, Importing
<1> QED BY <1>1, ThrowGoes, TurnOnward

LEMMA ImportedOnward ==
  ASSUME call \in Calls, NEW row \in Row, Imported(row), Handy(row), UNCHANGED candidates,
         pc \in {"lookup", "register"} \/ (pc = "passages" /\ call.stage # "close")
  PROVE  Onward \/ Closes
<1>1. CASE pc' \in {"extract", "pdftext"} /\ Same
  BY <1>1 DEF Same, Onward, Replaying, CallFor, Importing
<1>2. CASE Closing(row)
  BY <1>2 DEF Closing, Closes, Importing
<1> QED BY <1>1, <1>2, ImportedGoes, TurnOnward

LEMMA StartGoes == Start \/ StartCandidate => Onward
<1>1. CASE Start
  <2>1. PICK r \in Request :
          Begin([Blank EXCEPT !.op = r.op, !.src = r.src, !.key = r.key, !.text = r.text,
                              !.found = r.found, !.act = r.act])
    BY <1>1 DEF Start
  <2> DEFINE c == [Blank EXCEPT !.op = r.op, !.src = r.src, !.key = r.key, !.text = r.text,
                                !.found = r.found, !.act = r.act]
  <2>2. c.op = r.op /\ c.cand = 0
    BY DEF Blank
  <2> HIDE DEF c
  <2>3. call' = c /\ pc' \in {"clear", c.op}
    BY <2>1 DEF Begin, c
  <2>4. c.op \in Ops
    BY <2>2, RequestAssumption DEF Ops
  <2> QED BY <2>2, <2>3, <2>4 DEF Onward, Replaying, CallFor, Importing, Ops
<1>2. CASE StartCandidate
  <2>1. PICK i \in DOMAIN candidates :
          Begin([Blank EXCEPT !.op = "candidate", !.cand = candidates[i].cand, !.text = TRUE])
    BY <1>2 DEF StartCandidate
  <2> DEFINE c == [Blank EXCEPT !.op = "candidate", !.cand = candidates[i].cand, !.text = TRUE]
  <2>2. c.op = "candidate"
    BY DEF Blank
  <2> HIDE DEF c
  <2>3. call' = c /\ pc' \in {"clear", c.op}
    BY <2>1 DEF Begin, c
  <2> QED BY <2>2, <2>3 DEF Onward, Replaying, CallFor, Importing
<1> QED BY <1>1, <1>2

LEMMA FetchGoes ==
  ASSUME LibraryInvariant, Fetch
  PROVE  Onward \/ Fetching
<1>1. call \in Calls /\ call.src \in Source /\ pc = "fetch" /\ UNCHANGED candidates
  BY DEF Fetch, LibraryInvariant, Sound, At, ledgers
<1> DEFINE Fetched(content) ==
      [Reported EXCEPT !.pdf = IF content = None THEN None ELSE Reported.key]
<1>2. PICK content \in Served : Return \/ Goto("register", Fetched(content))
  BY DEF Fetch
<1>3. CASE Return
  BY <1>1, <1>3, ReturnGoes, TurnOnward
<1>4. CASE Goto("register", Fetched(content))
  <2>1. PICK row : row = Fetched(content)
    OBVIOUS
  <2>2. row.open = Reported.open /\ row.doi = Reported.doi /\ row.arxiv = Reported.arxiv
    BY <1>1, <2>1, NamedSource DEF Row
  <2>3. /\ Reported.open = {}
        /\ Reported.doi = None \/ Reported.arxiv = None
    BY SourceAssumption DEF Reported
  <2>4. pc' = "register" /\ Same /\ call'.row = row
    BY <1>1, <1>4, <2>1, GotoGoes
  <2> QED BY <1>1, <2>2, <2>3, <2>4 DEF Fetching
<1> QED BY <1>2, <1>3, <1>4

LEMMA LookupGoes ==
  ASSUME LibraryInvariant, Lookup
  PROVE  Onward \/ Closes
<1>1. call \in Calls /\ pc = "lookup" /\ UNCHANGED candidates
  BY DEF Lookup, LibraryInvariant, Sound, ledgers
<1>2. CASE Known = None
  <2>1. pc' = "fetch" /\ UNCHANGED call
    BY <1>2 DEF Lookup
  <2> QED BY <1>1, <2>1 DEF Onward, Replaying, CallFor, Importing
<1>3. CASE Known # None /\ ~Expected(Known.title)
  BY <1>1, <1>3, ReturnGoes, TurnOnward DEF Lookup
<1>4. CASE Known # None /\ Expected(Known.title)
  <2>1. Imported(Known)
    BY <1>4 DEF Lookup
  <2>2. Handy(Known) /\ Known \in Row
    <3>1. \A a : DOMAIN << a >> \subseteq 1..4
      OBVIOUS
    <3> QED BY <1>1, <1>4, <3>1, FoundRow DEF Known, Moving
  <2> QED BY <1>1, <2>1, <2>2, ImportedOnward
<1> QED BY <1>2, <1>3, <1>4

LEMMA RegisterGoes ==
  ASSUME LibraryInvariant, Register
  PROVE  Onward \/ Closes \/ Appending
<1>1. call \in Calls /\ pc = "register" /\ UNCHANGED candidates
  BY DEF Register, LibraryInvariant, Sound, ledgers
<1> DEFINE old == Existing(call.row)
<1>2. CASE old = None
  <2>1. Goto("append", [call.row EXCEPT !.id = FreshId])
    BY <1>2 DEF Register
  <2> QED BY <1>1, <1>2, <2>1, GotoGoes DEF Appending
<1>3. CASE old # None /\ Goto("append", Merge(old, call.row))
  BY <1>1, <1>3, GotoGoes DEF Appending
<1>4. CASE old # None /\ Imported(old)
  <2>1. Handy(old) /\ old \in Row
    <3>1. DOMAIN Identifiers(call.row) \subseteq 1..4
      BY DEF Identifiers
    <3> QED BY <1>1, <1>4, <3>1, FoundRow DEF Existing, Moving
  <2> QED BY <1>1, <1>4, <2>1, ImportedOnward
<1> QED BY <1>2, <1>3, <1>4 DEF Register

LEMMA QueueGoes ==
  ASSUME LibraryInvariant, CallFor(pc, call), Queue \/ Queued \/ CloseCandidate \/ Read \/ Query
  PROVE  Onward
<1>1. call \in Calls /\ pc \in {"queue", "close", "read", "query"}
  BY DEF Queue, Queued, CloseCandidate, Read, Query, LibraryInvariant, Sound
<1>2. CASE Queue
  <2>1. /\ pc' = "queue" /\ call'.cand = call.cand /\ call'.op = call.op
    BY <1>1, <1>2 DEF Queue, Calls
  <2> QED BY <2>1 DEF Onward, Replaying, CallFor, Importing
<1>3. CASE Return
  BY <1>1, <1>3, ReturnGoes, TurnOnward
<1>4. CASE CloseCandidate /\ ~Return
  <2>1. pc' = "read" /\ call' = [call EXCEPT !.op = "read", !.key = call.row.key]
    BY <1>4 DEF CloseCandidate
  <2>2. call'.op = "read"
    BY <1>1, <2>1 DEF Calls
  <2> QED BY <2>1, <2>2 DEF Onward, Replaying, CallFor, Importing
<1>5. CASE Read /\ ~Return
  <2>1. pc = "read" /\ \E l \in {"extract", "pdftext"} : \E row : Goto(l, row)
    BY <1>5, Zenon DEF Read
  <2>2. pc' \in {"extract", "pdftext"} /\ Same
    BY <1>1, <2>1, GotoGoes
  <2>3. call.op = "read"
    BY <2>1 DEF CallFor
  <2> QED BY <2>2, <2>3 DEF Onward, Replaying, CallFor, Importing, Same
<1> QED BY <1>2, <1>3, <1>4, <1>5 DEF Queued, Query

LEMMA CandidateGoes ==
  ASSUME LibraryInvariant, ImportCandidate
  PROVE  Onward \/ TakenUp
<1>1. call \in Calls /\ pc = "candidate"
  BY DEF ImportCandidate, LibraryInvariant, Sound
<1> DEFINE w == Candidate(call.cand).work
           Take(stage, src, doi) ==
             /\ pc' = stage /\ UNCHANGED candidates
             /\ call' = [call EXCEPT !.src = src, !.doi = doi, !.title = w.title,
                           !.expect = w.title, !.retry = doi # None, !.stage = "import"]
<1>2. \/ Return
      \/ /\ WorkKey(w) \notin ImportedKeys
         /\ \E stage \in {"fetch", "lookup"} : \E src, doi : Take(stage, src, doi)
  BY ZenonT(40) DEF ImportCandidate
<1>3. CASE Return
  BY <1>1, <1>3, ReturnGoes, TurnOnward
<1>4. CASE /\ WorkKey(w) \notin ImportedKeys
           /\ \E stage \in {"fetch", "lookup"} : \E src, doi : Take(stage, src, doi)
  <2>1. pc' \in {"lookup", "fetch"} /\ Same /\ UNCHANGED candidates
    BY <1>1, <1>4 DEF Same, Calls
  <2> QED BY <1>4, <2>1 DEF TakenUp
<1> QED BY <1>2, <1>3, <1>4

LEMMA OrdinaryGoes ==
  ASSUME LibraryInvariant, CallFor(pc, call), Ordinary
  PROVE  Onward \/ Fetching \/ Closes \/ Appending \/ TakenUp
<1>1. CASE FetchFails \/ PdfTextFails
  <2>1. call \in Calls /\ Throw /\ UNCHANGED candidates /\ pc \in {"fetch", "pdftext"}
    BY <1>1 DEF FetchFails, PdfTextFails, LibraryInvariant, Sound, ledgers
  <2> QED BY <2>1, ThrowOnward
<1> QED BY <1>1, StartGoes, FetchGoes, LookupGoes, RegisterGoes, QueueGoes, CandidateGoes
        DEF Ordinary

-----------------------------------------------------------------------------
(***************************************************************************)
(* The index has the rows, and every alias leads to its first owner        *)
(***************************************************************************)
LEMMA AliasesOf ==
  ASSUME NEW row, NEW a \in Aliases(row)
  PROVE  /\ a[2] # None
         /\ a \in {<<"doi", row.doi>>, <<"arxiv", row.arxiv>>, <<"key", row.key>>,
                   <<"title", row.title>>}
BY DEF Aliases

LEMMA AliasInitially == LibraryInit => AliasInv
<1> SUFFICES ASSUME LibraryInit PROVE AliasInv
  OBVIOUS
<1>1. papers = << >> /\ ixPaper = << >> /\ ixAlias = << >> /\ pc = "idle"
  BY DEF LibraryInit
<1>2. Reach = 0
  BY <1>1 DEF Reach
<1>3. DOMAIN ixPaper = {} /\ DOMAIN ixAlias = {} /\ 1..Reach = {}
  BY <1>1, <1>2
<1>4. {papers[i].id : i \in 1..Reach} = {}
  BY <1>3
<1>5. AliasedUpTo(Reach)
  BY <1>3 DEF AliasedUpTo
<1> QED BY <1>1, <1>3, <1>4, <1>5 DEF AliasInv

\* Nothing of it depends on the call, but for the row on its way into the index.
LEMMA AliasStays ==
  ASSUME AliasInv, Live' => Live, UNCHANGED <<papers, ixPaper, ixAlias>>,
         Reach' = Reach,
         pc' \in Replaying => pc \in Replaying,
         Live' /\ pc' \in {"append", "upsert"} =>
           \A a \in Aliases(call'.row) : a \in DOMAIN ixAlias => NamedUpTo(a, Reach)
  PROVE  AliasInv'
<1> SUFFICES ASSUME Live' PROVE AliasInv'
  BY DEF AliasInv
<1>1. \A a, n : NamedUpTo(a, n)' <=> NamedUpTo(a, n)
  BY DEF NamedUpTo, Aliases
<1>2. \A n : AliasedUpTo(n)' <=> AliasedUpTo(n)
  BY DEF AliasedUpTo, FirstNames, Aliases
<1>3. PICK r : r = Reach
  OBVIOUS
<1>4. Reach' = r
  BY <1>3
<1>5. AliasedUpTo(r)' /\ \A a : NamedUpTo(a, r)' <=> NamedUpTo(a, r)
  BY <1>1, <1>2, <1>3 DEF AliasInv
<1> QED BY <1>1, <1>2, <1>3, <1>4, <1>5, Zenon DEF AliasInv, Aliases

\* Row n is indexed after the rows before it.
LEMMA AliasUpserted ==
  ASSUME Ledger, NEW n \in DOMAIN papers, UpsertPaper(papers[n]), UNCHANGED papers,
         DOMAIN ixPaper = {papers[i].id : i \in 1..(n - 1)}, AliasedUpTo(n - 1),
         \A a \in Aliases(papers[n]) : a \in DOMAIN ixAlias => NamedUpTo(a, n - 1)
  PROVE  /\ DOMAIN ixPaper' = {papers[i].id : i \in 1..n} /\ AliasedUpTo(n)'
         /\ \A a \in DOMAIN ixAlias' : a \in DOMAIN ixAlias \/ NamedUpTo(a, n)
<1>0. n \in Nat \ {0} /\ n \in 1..n /\ 1..n = 1..(n - 1) \cup {n} /\ n \notin 1..(n - 1)
  BY DEF Ledger
<1>1. PICK row : row = papers[n]
  OBVIOUS
<1>2. /\ DOMAIN ixAlias' = DOMAIN ixAlias \cup Aliases(row)
      /\ \A a \in DOMAIN ixAlias : ixAlias'[a] = ixAlias[a]
      /\ \A a \in Aliases(row) : a \notin DOMAIN ixAlias => ixAlias'[a] = row.id
  <2>1. ixAlias' = [a \in DOMAIN ixAlias \cup Aliases(row) |->
                      IF a \in DOMAIN ixAlias THEN ixAlias[a] ELSE row.id]
    BY <1>1 DEF UpsertPaper, Claim
  <2> QED BY <2>1
<1>3. DOMAIN ixPaper' = DOMAIN ixPaper \cup {row.id}
  BY <1>1 DEF UpsertPaper, Put
<1>4. DOMAIN ixPaper' = {papers[i].id : i \in 1..n}
  BY <1>0, <1>1, <1>3
<1>5. \A a \in DOMAIN ixAlias' : a \in DOMAIN ixAlias \/ NamedUpTo(a, n)
  BY <1>0, <1>1, <1>2 DEF NamedUpTo
<1>6. ASSUME NEW i \in 1..n, NEW a \in Aliases(papers[i])
      PROVE  a \in DOMAIN ixAlias' /\ \E j \in 1..i : FirstNames(j, a) /\ papers[j].id = ixAlias'[a]
  <2>1. CASE i \in 1..(n - 1)
    <3>1. a \in DOMAIN ixAlias /\ \E j \in 1..i : FirstNames(j, a) /\ papers[j].id = ixAlias[a]
      BY <2>1, <1>6 DEF AliasedUpTo
    <3> QED BY <3>1, <1>2
  <2>2. CASE i = n /\ a \in DOMAIN ixAlias
    <3>1. PICK k \in 1..(n - 1) : a \in Aliases(papers[k])
      BY <2>2, <1>6 DEF NamedUpTo
    <3>2. PICK j \in 1..k : FirstNames(j, a) /\ papers[j].id = ixAlias[a]
      BY <3>1 DEF AliasedUpTo
    <3>3. j \in 1..i
      BY <3>1, <3>2, <2>2, <1>0
    <3> QED BY <3>2, <3>3, <2>2, <1>2
  <2>3. CASE i = n /\ a \notin DOMAIN ixAlias
    <3>1. a \in DOMAIN ixAlias' /\ ixAlias'[a] = papers[n].id
      BY <2>3, <1>1, <1>2, <1>6
    <3>2. FirstNames(n, a)
      <4>1. ASSUME NEW k \in 1..(n - 1), a \in Aliases(papers[k]) PROVE FALSE
        BY <4>1, <2>3 DEF AliasedUpTo
      <4> QED BY <4>1, <2>3, <1>6 DEF FirstNames
    <3> QED BY <3>1, <3>2, <2>3, <1>0
  <2> QED BY <2>1, <2>2, <2>3, <1>0
<1>7. AliasedUpTo(n)'
  <2>1. \A i, a : (a \in Aliases(papers[i]))' <=> a \in Aliases(papers[i])
    BY DEF Aliases
  <2>2. \A j, a : FirstNames(j, a)' <=> FirstNames(j, a)
    BY DEF FirstNames, Aliases
  <2> QED BY <1>6, <2>1, <2>2 DEF AliasedUpTo, Aliases
<1> QED BY <1>4, <1>5, <1>7

\* A merged paper's citation key is recorded.
LEMMA AliasClaimed ==
  ASSUME Ledger, AliasInv, UNCHANGED <<papers, ixPaper, torn>>,
         pc \notin Moving, pc' \notin Moving,
         UNCHANGED ixAlias \/ \E p, k : \E S \in SUBSET {<<"key", k>>} : Claim(p, S),
         ~torn /\ pc' = "append" /\ <<"key", call'.row.key>> \in DOMAIN ixAlias' =>
           NamedUpTo(<<"key", call'.row.key>>, Len(papers))
  PROVE  AliasInv'
<1> SUFFICES ASSUME Live' PROVE AliasInv'
  BY DEF AliasInv
<1>0. /\ ~torn /\ Live /\ pc \notin Replaying /\ pc' \notin Replaying
      /\ Reach = Len(papers) /\ Reach' = Len(papers)
  BY DEF Live, Reach, Replaying, Moving
<1>1. /\ \A a \in DOMAIN ixAlias : a \in DOMAIN ixAlias' /\ ixAlias'[a] = ixAlias[a]
      /\ \A a \in DOMAIN ixAlias' : a \in DOMAIN ixAlias \/ a[1] = "key"
  <2>1. ASSUME NEW p, NEW k, NEW S \in SUBSET {<<"key", k>>}, Claim(p, S)
        PROVE  /\ \A a \in DOMAIN ixAlias : a \in DOMAIN ixAlias' /\ ixAlias'[a] = ixAlias[a]
               /\ \A a \in DOMAIN ixAlias' : a \in DOMAIN ixAlias \/ a[1] = "key"
    <3>1. ixAlias' = [a \in DOMAIN ixAlias \cup S |->
                        IF a \in DOMAIN ixAlias THEN ixAlias[a] ELSE p]
      BY <2>1 DEF Claim
    <3>2. \A a \in S : a[1] = "key"
      OBVIOUS
    <3> QED BY <3>1, <3>2
  <2> QED BY <2>1
<1>2. PICK n : n = Len(papers)
  OBVIOUS
<1>3. \A i, a : (a \in Aliases(papers[i]))' <=> a \in Aliases(papers[i])
  BY DEF Aliases
<1>4. \A j, a : FirstNames(j, a)' <=> FirstNames(j, a)
  BY DEF FirstNames, Aliases
<1>5. \A a : NamedUpTo(a, n)' <=> NamedUpTo(a, n)
  BY <1>3 DEF NamedUpTo
<1>6. AliasedUpTo(n)'
  <2>1. AliasedUpTo(n)
    BY <1>0, <1>2 DEF AliasInv
  <2> QED BY <2>1, <1>1, <1>3, <1>4 DEF AliasedUpTo
<1>7. DOMAIN ixPaper' = {papers'[i].id : i \in 1..n}
  BY <1>0, <1>2 DEF AliasInv
<1>8. \A a \in DOMAIN ixAlias' : NamedUpTo(a, n) \/ a[1] = "key"
  BY <1>0, <1>1, <1>2 DEF AliasInv
<1>9. ASSUME pc' = "append", NEW a \in Aliases(call'.row), a \in DOMAIN ixAlias'
      PROVE  NamedUpTo(a, n)
  <2>1. CASE a = <<"key", call'.row.key>>
    BY <1>0, <1>2, <1>9, <2>1
  <2>2. CASE a # <<"key", call'.row.key>>
    <3>1. a[1] # "key"
      BY <2>2, AliasesOf
    <3> QED BY <3>1, <1>8, <1>9
  <2> QED BY <2>1, <2>2
<1>10. pc' # "upsert"
  BY DEF Moving
<1>11. \A a \in Aliases(call.row)' : a \in Aliases(call'.row)
  BY DEF Aliases
<1> QED BY <1>0, <1>2, <1>5, <1>6, <1>7, <1>8, <1>9, <1>10, <1>11 DEF AliasInv

\* What is not found has no alias in the index.
LEMMA NotFound ==
  ASSUME LibraryInvariant, NEW aliases, DOMAIN aliases \subseteq 1..4, Find(aliases) = None
  PROVE  \A i \in DOMAIN aliases : aliases[i] \notin DOMAIN ixAlias
<1> SUFFICES ASSUME \E i \in DOMAIN aliases : aliases[i] \in DOMAIN ixAlias PROVE FALSE
  OBVIOUS
<1>1. PICK i \in DOMAIN aliases :
        aliases[i] \in DOMAIN ixAlias /\ Find(aliases) = ixPaper[ixAlias[aliases[i]]]
  BY FindFirst
<1>2. ixAlias[aliases[i]] \in DOMAIN ixPaper
  BY <1>1 DEF LibraryInvariant, IndexFromLedger
<1>3. Find(aliases) \in Row
  BY <1>1, <1>2 DEF LibraryInvariant, IndexFromLedger, Ledger
<1> QED BY <1>3, NoRowIsNone

LEMMA OrdinaryClaims ==
  ASSUME Ordinary
  PROVE  UNCHANGED ixAlias \/ \E p, k : \E S \in SUBSET {<<"key", k>>} : Claim(p, S)
<1> USE DEF ledgers, files, index, scan, counts
<1>1. CASE Lookup
  BY <1>1 DEF Lookup
<1>2. CASE Register
  BY <1>2 DEF Register
<1>3. CASE Start \/ StartCandidate \/ Fetch \/ FetchFails \/ PdfTextFails
  BY <1>3 DEF Start, StartCandidate, Begin, Fetch, FetchFails, PdfTextFails
<1>4. CASE Queue \/ Queued \/ ImportCandidate \/ CloseCandidate \/ Read \/ Query
  BY <1>4 DEF Queue, Queued, ImportCandidate, CloseCandidate, Read, Query
<1> QED BY <1>1, <1>2, <1>3, <1>4 DEF Ordinary

LEMMA OrdinaryRegisters == Ordinary /\ pc = "register" => Register
BY DEF Ordinary, Start, StartCandidate, Begin, Lookup, Fetch, FetchFails, PdfTextFails, Queue,
       Queued, ImportCandidate, CloseCandidate, Read, Query

\* A row of the ledger names all it has.
LEMMA LedgerNames ==
  ASSUME Ledger, NEW row, InLedger(row)
  PROVE  /\ \A a \in Aliases(row) : NamedUpTo(a, Len(papers))
         /\ <<"key", row.key>> \in Aliases(row)
<1>1. PICK i \in DOMAIN papers : papers[i] = row
  BY DEF InLedger
<1>2. i \in 1..Len(papers) /\ row \in Row
  BY <1>1 DEF Ledger
<1>3. row.key # None
  BY <1>2, SourceAssumption DEF Row
<1> QED BY <1>1, <1>2, <1>3 DEF NamedUpTo, Aliases

\* The key of a row about to be appended is that of its paper, or new to the index.
LEMMA OrdinaryKey ==
  ASSUME LibraryInvariant, Ordinary, Closes \/ Appending, <<"key", call'.row.key>> \in DOMAIN ixAlias'
  PROVE  NamedUpTo(<<"key", call'.row.key>>, Len(papers))
<1>1. CASE Closes
  <2>1. PICK row : Handy(row) /\ Closing(row)
    BY <1>1 DEF Closes
  <2>2. <<"key", row.key>> \in Aliases(call'.row) /\ NamedUpTo(<<"key", row.key>>, Len(papers))
    BY <2>1, LedgerNames DEF Handy, Closing, LibraryInvariant
  <2>3. <<"key", row.key>> = <<"key", call'.row.key>>
    BY <2>2, AliasesOf
  <2> QED BY <2>2, <2>3
<1>2. CASE Appending
  <2>1. pc = "register" /\ call.row \in Row
    BY <1>2 DEF Appending, LibraryInvariant, Sound, At
  <2> DEFINE old == Existing(call.row)
  <2>2. Register
    BY <2>1, OrdinaryRegisters
  <2>3. DOMAIN Identifiers(call.row) = 1..4 /\ Identifiers(call.row)[3] = <<"key", call.row.key>>
    BY DEF Identifiers
  <2>4. CASE old = None
    <3>1. UNCHANGED ixAlias
      BY <2>2, <2>4 DEF Register
    <3>2. call'.row.key = call.row.key
      BY <1>2, <2>1, <2>4 DEF Appending, Row
    <3>3. <<"key", call.row.key>> \notin DOMAIN ixAlias
      BY <2>3, <2>4, NotFound DEF Existing
    <3> QED BY <3>1, <3>2, <3>3
  <2>5. CASE old # None
    <3>1. InLedger(old) /\ old \in Row
      BY <2>1, <2>3, <2>5, FoundRow DEF Existing, Moving, Handy
    <3>2. PICK r : r = old
      OBVIOUS
    <3>3. call'.row = Merge(r, call.row)
      BY <1>2, <2>5, <3>2 DEF Appending
    <3>4. Merge(r, call.row).key = r.key
      BY <3>1, <3>2 DEF Merge, Row
    <3>5. NamedUpTo(<<"key", r.key>>, Len(papers))
      BY <3>1, <3>2, LedgerNames DEF LibraryInvariant
    <3> QED BY <3>3, <3>4, <3>5
  <2> QED BY <2>4, <2>5
<1> QED BY <1>1, <1>2

LEMMA OrdinaryPlaces ==
  ASSUME Ordinary, Onward \/ Fetching \/ Closes \/ Appending \/ TakenUp
  PROVE  /\ pc \notin Moving \cup Replaying \cup {"append", "upsert", "passages", "statements"}
         /\ pc' \notin Moving \cup Replaying \cup {"upsert", "passages", "statements"}
         /\ pc' = "append" => Closes \/ Appending
<1>1. pc \in Ops \cup {"fetch", "register", "pdftext", "close"}
  BY OrdinaryFrame
<1> QED BY <1>1 DEF Onward, Fetching, Closes, Closing, Appending, TakenUp, Moving, Replaying, Ops

LEMMA AliasOrdinary ==
  ASSUME LibraryInvariant, AliasInv, Ordinary,
         Onward \/ Fetching \/ Closes \/ Appending \/ TakenUp
  PROVE  AliasInv'
<1>1. pc \notin Moving /\ pc' \notin Moving /\ (pc' = "append" => Closes \/ Appending)
  BY OrdinaryPlaces
<1>2. UNCHANGED <<papers, ixPaper, torn>>
  BY OrdinaryFrame
<1> QED BY <1>1, <1>2, OrdinaryClaims, OrdinaryKey, AliasClaimed DEF LibraryInvariant

LEMMA AliasReplay ==
  ASSUME LibraryInvariant, AliasInv, Clear \/ ReplayPaper \/ ReplayText \/ ReplayStatements \/ Rebuilt
  PROVE  AliasInv'
<1>0. Len(papers) \in Nat /\ DOMAIN papers = 1..Len(papers) /\ UNCHANGED papers
  BY DEF LibraryInvariant, Ledger, Clear, ReplayPaper, ReplayText, ReplayStatements, Rebuilt, ledgers
<1>1. CASE Clear
  <2>1. /\ ixPaper' = << >> /\ ixAlias' = << >> /\ cursor' = 1 /\ pc' = "replay"
    BY <1>1 DEF Clear
  <2>2. Reach' = 0 /\ 1..0 = {}
    BY <2>1 DEF Reach
  <2>3. AliasedUpTo(0)' /\ {papers'[i].id : i \in 1..0} = {}
    BY <2>2 DEF AliasedUpTo
  <2> QED BY <2>1, <2>2, <2>3 DEF AliasInv
<1>2. CASE ReplayPaper
  <2>1. /\ pc = "replay" /\ pc' = "replaytext" /\ cursor' = cursor /\ UpsertPaper(papers[cursor])
        /\ cursor \in DOMAIN papers /\ cursor \in Nat
    BY <1>0, <1>2 DEF ReplayPaper, scan, LibraryInvariant, Mirrored
  <2>2. Live /\ Reach = cursor - 1 /\ Reach' = cursor
    BY <2>1 DEF Live, Reach, Replaying
  <2>3. PICK n \in DOMAIN papers : n = cursor
    BY <2>1
  <2>4. /\ DOMAIN ixPaper = {papers[i].id : i \in 1..(n - 1)} /\ AliasedUpTo(n - 1)
        /\ \A a \in DOMAIN ixAlias : NamedUpTo(a, n - 1)
    BY <2>1, <2>2, <2>3 DEF AliasInv, Replaying
  <2>5. /\ DOMAIN ixPaper' = {papers[i].id : i \in 1..n} /\ AliasedUpTo(n)'
        /\ \A a \in DOMAIN ixAlias' : a \in DOMAIN ixAlias \/ NamedUpTo(a, n)
    BY <1>0, <2>1, <2>3, <2>4, AliasUpserted DEF LibraryInvariant
  <2>6. \A a \in DOMAIN ixAlias' : NamedUpTo(a, n)
    <3>1. 1..(n - 1) \subseteq 1..n
      BY <1>0, <2>3
    <3>2. \A a : NamedUpTo(a, n - 1) => NamedUpTo(a, n)
      BY <3>1 DEF NamedUpTo
    <3> QED BY <2>4, <2>5, <3>2
  <2>7. \A a : NamedUpTo(a, n)' <=> NamedUpTo(a, n)
    BY <1>0 DEF NamedUpTo, Aliases
  <2> QED BY <1>0, <2>1, <2>2, <2>3, <2>5, <2>6, <2>7 DEF AliasInv
<1>3. CASE ReplayText \/ ReplayStatements \/ Rebuilt
  <2>1. UNCHANGED <<ixPaper, ixAlias, call>>
    BY <1>3 DEF ReplayText, ReplayStatements, Rebuilt, IndexText, IndexExtract, index
  <2>2. CASE ReplayText
    <3>1. pc = "replaytext" /\ pc' = "replay" /\ cursor' = cursor + 1 /\ cursor \in Nat
      BY <2>2 DEF ReplayText, LibraryInvariant, Mirrored
    <3>2. Live /\ Reach' = Reach
      BY <3>1 DEF Live, Reach, Replaying
    <3> QED BY <1>0, <2>1, <3>1, <3>2, AliasStays DEF Replaying
  <2>3. CASE ReplayStatements
    <3>1. pc = "replay" /\ pc' = "replay" /\ cursor' = cursor
      BY <2>3 DEF ReplayStatements
    <3>2. Live /\ Reach' = Reach
      BY <3>1 DEF Live, Reach, Replaying
    <3> QED BY <1>0, <2>1, <3>1, <3>2, AliasStays DEF Replaying
  <2>4. CASE Rebuilt
    <3>1. pc = "replay" /\ pc' \in Ops /\ cursor = Len(papers) + 1
      BY <1>0, <2>4 DEF Rebuilt, LibraryInvariant, Mirrored, Sound, Calls
    <3>2. pc' \notin Replaying \cup {"append", "upsert"}
      BY <3>1 DEF Replaying, Ops
    <3>3. Reach' = Len(papers) /\ Reach = cursor - 1
      BY <1>0, <3>1, <3>2 DEF Reach, Replaying
    <3>4. Reach' = Reach
      BY <1>0, <3>1, <3>3
    <3>5. Live
      BY <3>1 DEF Live, Replaying
    <3> QED BY <1>0, <2>1, <3>2, <3>4, <3>5, AliasStays
  <2> QED BY <1>3, <2>2, <2>3, <2>4
<1> QED BY <1>1, <1>2, <1>3

LEMMA AliasWritten ==
  ASSUME LibraryInvariant, AliasInv, AppendPaper \/ Upsert
  PROVE  AliasInv'
<1> SUFFICES ASSUME Live' PROVE AliasInv'
  BY DEF AliasInv
<1>0. /\ UNCHANGED <<call, torn>> /\ Len(papers) \in Nat /\ DOMAIN papers = 1..Len(papers)
      /\ pc' \in {"upsert", "passages"} /\ pc \in {"append", "upsert"} /\ ~torn
  BY DEF AppendPaper, Upsert, counts, LibraryInvariant, Ledger, Live, Replaying
<1>1. Live /\ pc \notin Replaying
  BY <1>0 DEF Live, Replaying
<1>2. CASE AppendPaper
  <2>1. /\ UNCHANGED <<ixPaper, ixAlias>> /\ pc = "append" /\ pc' = "upsert"
        /\ papers' = Append(papers, call.row) /\ Fits(call.row) /\ Backed(call.row)
        /\ UNCHANGED <<statements, pdf, txt>>
    BY <1>2 DEF AppendPaper, index, files, LibraryInvariant, Sound, At
  <2>2. /\ Len(papers') = Len(papers) + 1
        /\ \A i \in DOMAIN papers : i \in DOMAIN papers' /\ papers'[i] = papers[i]
    BY <2>1, AppendKeepsLedger
  <2>3. PICK n : n = Len(papers)
    OBVIOUS
  <2>4. Reach = n /\ Reach' = n
    BY <1>0, <2>1, <2>2, <2>3 DEF Reach
  <2>5. \A i \in 1..n : papers'[i] = papers[i] /\ i \in DOMAIN papers /\ i \in DOMAIN papers'
    BY <1>0, <2>2, <2>3
  <2>6. \A i \in 1..n : \A a : (a \in Aliases(papers[i]))' <=> a \in Aliases(papers[i])
    BY <2>5 DEF Aliases
  <2>7. \A a : NamedUpTo(a, n)' <=> NamedUpTo(a, n)
    BY <2>6 DEF NamedUpTo
  <2>8. AliasedUpTo(n)'
    <3>1. AliasedUpTo(n)
      BY <1>1, <2>4 DEF AliasInv
    <3>2. \A j \in 1..n : \A a : FirstNames(j, a) => FirstNames(j, a)'
      <4>1. \A j \in 1..n : \A k \in 1..(j - 1) : k \in 1..n
        BY <1>0, <2>3
      <4> QED BY <2>5, <2>6, <4>1 DEF FirstNames
    <3>3. \A i \in 1..n : \A j \in 1..i : j \in 1..n
      BY <1>0, <2>3
    <3>4. ASSUME NEW i \in 1..n, NEW a \in Aliases(papers'[i])
          PROVE  a \in DOMAIN ixAlias' /\ \E j \in 1..i : FirstNames(j, a)' /\ papers'[j].id = ixAlias'[a]
      <4>1. a \in Aliases(papers[i])
        BY <2>5, <3>4
      <4>2. a \in DOMAIN ixAlias /\ \E j \in 1..i : FirstNames(j, a) /\ papers[j].id = ixAlias[a]
        BY <3>1, <4>1 DEF AliasedUpTo
      <4> QED BY <4>2, <3>2, <3>3, <2>1, <2>5
    <3> QED BY <3>4 DEF AliasedUpTo, Aliases
  <2>9. {papers'[i].id : i \in 1..n} = {papers[i].id : i \in 1..n}
    BY <2>5
  <2>10. \A a \in Aliases(call.row)' : a \in Aliases(call.row)
    BY <1>0 DEF Aliases
  <2>11. DOMAIN ixPaper' = {papers'[i].id : i \in 1..n}
    BY <1>1, <2>1, <2>4, <2>9 DEF AliasInv
  <2>12. \A a \in DOMAIN ixAlias' : NamedUpTo(a, n)' \/ a[1] = "key"
    BY <1>1, <2>1, <2>4, <2>7 DEF AliasInv
  <2>13. \A a \in Aliases(call.row)' : a \in DOMAIN ixAlias' => NamedUpTo(a, n)'
    BY <1>1, <2>1, <2>4, <2>7, <2>10 DEF AliasInv
  <2>14. pc' \notin Replaying
    BY <2>1 DEF Replaying
  <2> QED BY <2>4, <2>8, <2>11, <2>12, <2>13, <2>14 DEF AliasInv
<1>3. CASE Upsert
  <2>1. /\ UNCHANGED papers /\ pc = "upsert" /\ pc' = "passages" /\ UpsertPaper(call.row)
        /\ papers # << >> /\ papers[Len(papers)] = call.row
    BY <1>3 DEF Upsert, ledgers, LibraryInvariant, Sound, At
  <2>2. PICK n \in DOMAIN papers : n = Len(papers)
    BY <1>0, <2>1
  <2>3. Reach = n - 1 /\ Reach' = n
    BY <2>1, <2>2 DEF Reach
  <2>4. /\ DOMAIN ixPaper = {papers[i].id : i \in 1..(n - 1)} /\ AliasedUpTo(n - 1)
        /\ \A a \in DOMAIN ixAlias : NamedUpTo(a, n - 1) \/ a[1] = "key"
        /\ \A a \in Aliases(papers[n]) : a \in DOMAIN ixAlias => NamedUpTo(a, n - 1)
    BY <1>1, <2>1, <2>2, <2>3 DEF AliasInv
  <2>5. /\ DOMAIN ixPaper' = {papers[i].id : i \in 1..n} /\ AliasedUpTo(n)'
        /\ \A a \in DOMAIN ixAlias' : a \in DOMAIN ixAlias \/ NamedUpTo(a, n)
    BY <2>1, <2>2, <2>4, AliasUpserted DEF LibraryInvariant
  <2>6. \A a \in DOMAIN ixAlias' : NamedUpTo(a, n) \/ a[1] = "key"
    BY <1>0, <2>2, <2>4, <2>5 DEF NamedUpTo
  <2>7. \A a : NamedUpTo(a, n)' <=> NamedUpTo(a, n)
    BY <2>1 DEF NamedUpTo, Aliases
  <2> QED BY <2>1, <2>3, <2>5, <2>6, <2>7 DEF AliasInv, Replaying
<1> QED BY <1>2, <1>3

LEMMA PassagesGoes ==
  ASSUME LibraryInvariant, Passages
  PROVE  /\ Onward \/ Closes
         /\ papers # << >> /\ papers[Len(papers)] = call.row /\ call.row \in Row
         /\ Handy(call.row) /\ Backed(call.row)
         /\ UNCHANGED <<papers, statements, txt, ixPaper, ixAlias, ixStmt, crashes, torn>>
         /\ pc = "passages" /\ IndexText(call.row)
<1>1. /\ pc = "passages" /\ IndexText(call.row)
      /\ UNCHANGED <<papers, candidates, statements, txt, ixPaper, ixAlias, ixStmt, crashes, torn>>
  BY DEF Passages, IndexText, ledgers, files, counts
<1>2. /\ call \in Calls /\ Staged(call) /\ papers # << >> /\ papers[Len(papers)] = call.row
      /\ Ledger /\ AllBacked
  BY <1>1 DEF LibraryInvariant, Sound, At
<1>3. Handy(call.row) /\ Latest(call.row.key) = call.row
  BY <1>2, WrittenRow
<1>4. call.row \in Row /\ Backed(call.row)
  BY <1>2, <1>3, HandyRow
<1>5. Onward \/ Closes
  <2>1. CASE call.stage = "import"
    <3>1. Imported(call.row)
      BY <2>1 DEF Passages
    <3> QED BY <1>1, <1>2, <1>3, <1>4, <2>1, <3>1, ImportedOnward
  <2>2. CASE call.stage = "text"
    <3>1. Ready(call.row)
      BY <1>3, <2>2 DEF Passages
    <3>2. CASE pc' = "extract" /\ Same
      BY <3>2 DEF Same, Onward, Replaying, CallFor, Importing
    <3>3. CASE Closing(call.row)
      BY <1>1, <1>3, <2>2, <3>3 DEF Closing, Closes, Importing
    <3> QED BY <1>2, <1>4, <3>1, <3>2, <3>3, ReadyGoes, TurnOnward
  <2>3. CASE call.stage = "close"
    <3>1. pc' = "close" /\ UNCHANGED call
      BY <2>3 DEF Passages
    <3> QED BY <3>1 DEF Onward, Replaying, CallFor, Importing
  <2> QED BY <1>2, <2>1, <2>2, <2>3 DEF Calls
<1> QED BY <1>1, <1>2, <1>3, <1>4, <1>5

\* The text of a paper has been extracted, and its row is to be appended.
LEMMA PdfTextGoes ==
  ASSUME LibraryInvariant, PdfText
  PROVE  \E paper : 
           /\ Handy(paper) /\ paper \in Row
           /\ \E k : /\ LastOf(RowsOfPaper(paper.id, Len(papers)), k) /\ papers[k] = paper
                     /\ k \in DOMAIN papers
           /\ pc = "pdftext" /\ pc' = "append" /\ Same /\ call'.stage = "text"
           /\ call'.row.id = paper.id /\ Aliases(call'.row) = Aliases(paper)
           /\ call'.row.key = paper.key /\ call'.row.open = paper.open
           /\ paper.pdf \in Key /\ txt' = [txt EXCEPT ![paper.pdf] = pdf[paper.pdf]]
           /\ UNCHANGED <<papers, candidates, statements, ixPaper, ixAlias, ixText, ixStmt>>
           /\ UNCHANGED <<crashes, torn>>
<1>1. PICK paper : paper = Latest(call.row.key)
  OBVIOUS
<1>2. /\ pc = "pdftext" /\ pc' = "append" /\ paper.pdf # None
      /\ call' = [call EXCEPT !.row = [paper EXCEPT !.text = paper.pdf], !.stage = "text"]
      /\ txt' = [txt EXCEPT ![paper.pdf] = pdf[paper.pdf]]
      /\ UNCHANGED <<papers, candidates, statements, ixPaper, ixAlias, ixText, ixStmt>>
      /\ UNCHANGED <<crashes, torn>>
  BY <1>1 DEF PdfText, ledgers, index, counts
<1>3. call \in Calls /\ InLedger(call.row) /\ Ledger /\ AllBacked
  BY <1>2 DEF LibraryInvariant, Sound, At
<1>4. PICK k : /\ paper = papers[k] /\ k \in DOMAIN papers
               /\ LastOf(RowsOfPaper(papers[k].id, Len(papers)), k)
  BY <1>1, <1>3, LatestRow
<1>5. Handy(paper) /\ paper \in Row
  BY <1>3, <1>4, HandyRow DEF Handy, InLedger
<1>6. Same /\ call'.stage = "text" /\ call'.row = [paper EXCEPT !.text = paper.pdf]
  BY <1>2, <1>3 DEF Same, Calls
<1>7. /\ call'.row.id = paper.id /\ call'.row.doi = paper.doi /\ call'.row.arxiv = paper.arxiv
      /\ call'.row.key = paper.key /\ call'.row.title = paper.title
      /\ call'.row.open = paper.open
  BY <1>5, <1>6 DEF Row
<1>8. Aliases(call'.row) = Aliases(paper)
  BY <1>7 DEF Aliases
<1>9. paper.pdf \in Key
  BY <1>2, <1>5 DEF Row
<1> QED BY <1>2, <1>4, <1>5, <1>6, <1>7, <1>8, <1>9

LEMMA AliasRest ==
  ASSUME LibraryInvariant, AliasInv,
         Crash \/ Passages \/ PdfText \/ Extract \/ WriteStatements \/ UNCHANGED vars
  PROVE  AliasInv'
<1>0. Len(papers) \in Nat
  BY DEF LibraryInvariant, Ledger
<1>1. CASE Crash
  <2>1. ~Live'
    BY <1>1 DEF Crash, Live, Replaying
  <2> QED BY <2>1 DEF AliasInv
<1>2. CASE Passages
  <2>1. /\ UNCHANGED <<papers, ixPaper, ixAlias, torn>> /\ pc = "passages" /\ (Onward \/ Closes)
    BY <1>2, PassagesGoes
  <2>2. pc \notin Moving /\ pc' \notin Moving
    BY <2>1 DEF Onward, Closes, Closing, Moving, Replaying
  <2>3. ASSUME pc' = "append" PROVE NamedUpTo(<<"key", call'.row.key>>, Len(papers))
    <3>1. PICK row : Handy(row) /\ Closing(row)
      BY <2>1, <2>3 DEF Onward, Closes
    <3>2. <<"key", row.key>> \in Aliases(call'.row) /\ NamedUpTo(<<"key", row.key>>, Len(papers))
      BY <3>1, LedgerNames DEF Handy, Closing, LibraryInvariant
    <3>3. <<"key", row.key>> = <<"key", call'.row.key>>
      BY <3>2, AliasesOf
    <3> QED BY <3>2, <3>3
  <2> QED BY <2>1, <2>2, <2>3, AliasClaimed DEF LibraryInvariant
<1>3. CASE PdfText
  <2>1. PICK paper :
          /\ Handy(paper) /\ pc = "pdftext" /\ pc' = "append" /\ call'.row.key = paper.key
          /\ UNCHANGED <<papers, ixPaper, ixAlias, torn>>
    BY <1>3, PdfTextGoes
  <2>2. NamedUpTo(<<"key", call'.row.key>>, Len(papers))
    BY <2>1, LedgerNames DEF Handy, LibraryInvariant
  <2> QED BY <2>1, <2>2, AliasClaimed DEF LibraryInvariant, Moving
<1>4. CASE Extract \/ WriteStatements
  <2>1. /\ UNCHANGED <<papers, ixPaper, ixAlias, torn>> /\ pc \in {"extract", "statements"}
        /\ pc' \in {"statements", "idle", "candidate"}
    BY <1>4, ReturnGoes DEF Extract, WriteStatements, IndexExtract, ledgers, index, counts,
                            LibraryInvariant, Sound, Turn
  <2> QED BY <2>1, AliasClaimed DEF LibraryInvariant, Moving
<1>5. CASE UNCHANGED vars
  <2>1. UNCHANGED <<papers, ixPaper, ixAlias, torn, pc, call, cursor>>
    BY <1>5 DEF vars, ledgers, index, scan, counts
  <2>2. Reach' = Reach /\ Live' = Live
    BY <2>1 DEF Reach, Live
  <2>3. ASSUME Live', pc' \in {"append", "upsert"}
        PROVE  \A a \in Aliases(call'.row) : a \in DOMAIN ixAlias => NamedUpTo(a, Reach)
    BY <2>1, <2>2, <2>3, Zenon DEF AliasInv
  <2> QED BY <2>1, <2>2, <2>3, AliasStays
<1> QED BY <1>1, <1>2, <1>3, <1>4, <1>5

-----------------------------------------------------------------------------
(***************************************************************************)
(* The index has the passages of every text that one paper has             *)
(***************************************************************************)
LEMMA TextStays ==
  ASSUME TextInv, UNCHANGED <<papers, txt, ixText, torn>>,
         pc \notin Replaying, pc' \notin Replaying,
         \A p : Underway(p) => Underway(p)'
  PROVE  TextInv'
<1>1. \A i : /\ Newest(i)' <=> Newest(i)
             /\ PassagesOf(i)' <=> PassagesOf(i)
  BY DEF Newest, LastOf, RowsOfPaper, PassagesOf
<1>2. \A i : Unlike(i)' <=> Unlike(i)
  BY <1>1 DEF Unlike
<1>3. \A i : Covered(i)' <=> Covered(i)
  BY <1>1, <1>2 DEF Covered
<1> QED BY <1>1, <1>3 DEF TextInv

\* Indexing the passages of a row: those of its paper, and no others.
LEMMA TextIndexed ==
  ASSUME NEW row, IndexText(row), row.text = None \/ txt[row.text] # None
  PROVE  /\ row.text # None => row.id \in DOMAIN ixText' /\ ixText'[row.id].src = txt[row.text]
         /\ \A p \in DOMAIN ixText : p # row.id => p \in DOMAIN ixText' /\ ixText'[p] = ixText[p]
         /\ row.text = None => ixText' = ixText
<1>1. CASE row.text = None
  BY <1>1 DEF IndexText
<1>2. CASE row.text # None
  <2>1. ixText' = Put(ixText, row.id, [key |-> row.key, src |-> txt[row.text]])
    BY <1>2 DEF IndexText
  <2> QED BY <1>2, <2>1 DEF Put
<1> QED BY <1>1, <1>2

LEMMA TextReplay ==
  ASSUME LibraryInvariant, TextInv, Clear \/ ReplayPaper \/ ReplayText \/ ReplayStatements \/ Rebuilt
  PROVE  TextInv'
<1>0. /\ Len(papers) \in Nat /\ DOMAIN papers = 1..Len(papers) /\ UNCHANGED <<papers, txt>>
  BY DEF LibraryInvariant, Ledger, Clear, ReplayPaper, ReplayText, ReplayStatements, Rebuilt,
         ledgers, files
<1>1. CASE Clear
  <2>1. cursor' - 1 = 0 /\ pc' = "replay" /\ 1..0 = {}
    BY <1>1 DEF Clear
  <2>2. TextUpTo(0)'
    BY <2>1 DEF TextUpTo
  <2> QED BY <2>1, <2>2 DEF TextInv, Replaying
<1>2. CASE ReplayPaper \/ ReplayStatements
  <2>1. /\ UNCHANGED <<ixText, cursor>> /\ pc \in Replaying /\ pc' \in Replaying
    BY <1>2 DEF ReplayPaper, ReplayStatements, UpsertPaper, IndexExtract, Replaying, scan
  <2>2. \A n : TextUpTo(n) => TextUpTo(n)'
    BY <1>0, <2>1 DEF TextUpTo, PassagesOf, LastOf, RowsOfPaper
  <2> QED BY <2>1, <2>2 DEF TextInv
<1>3. CASE ReplayText
  <2>1. /\ pc = "replaytext" /\ pc' = "replay" /\ cursor' = cursor + 1
        /\ IndexText(papers[cursor]) /\ cursor \in DOMAIN papers /\ cursor \in Nat
    BY <1>0, <1>3 DEF ReplayText, LibraryInvariant, Mirrored
  <2>2. PICK n \in DOMAIN papers : n = cursor
    BY <2>1
  <2>3. TextUpTo(n - 1)
    BY <2>1, <2>2 DEF TextInv, Replaying
  <2>4. PICK row : row = papers[n]
    OBVIOUS
  <2>5. row.text = None \/ txt[row.text] # None
    BY <2>4 DEF LibraryInvariant, AllBacked, Backed
  <2>6. /\ row.text # None => row.id \in DOMAIN ixText' /\ ixText'[row.id].src = txt[row.text]
        /\ \A p \in DOMAIN ixText : p # row.id => p \in DOMAIN ixText' /\ ixText'[p] = ixText[p]
    BY <2>1, <2>2, <2>4, <2>5, TextIndexed
  <2>7. ASSUME NEW i \in 1..n, LastOf(RowsOfPaper(papers[i].id, n), i), papers[i].text # None
        PROVE  papers[i].id \in DOMAIN ixText' /\ ixText'[papers[i].id].src = txt[papers[i].text]
    <3>1. CASE i = n
      BY <2>4, <2>6, <2>7, <3>1
    <3>2. CASE i # n
      <4>1. i \in 1..(n - 1)
        BY <1>0, <3>2
      <4>2. papers[i].id # row.id
        <5>1. ASSUME papers[i].id = row.id PROVE FALSE
          <6>1. n \in RowsOfPaper(papers[i].id, n)
            BY <1>0, <2>4, <5>1 DEF RowsOfPaper
          <6> QED BY <6>1, <2>7, <4>1, <1>0 DEF LastOf
        <5> QED BY <5>1
      <4>3. LastOf(RowsOfPaper(papers[i].id, n - 1), i)
        BY <1>0, <2>7, <4>1 DEF LastOf, RowsOfPaper
      <4>4. papers[i].id \in DOMAIN ixText /\ ixText[papers[i].id].src = txt[papers[i].text]
        BY <2>3, <2>7, <4>1, <4>3 DEF TextUpTo, PassagesOf
      <4> QED BY <4>2, <4>4, <2>6
    <3> QED BY <3>1, <3>2
  <2>8. TextUpTo(n)'
    BY <1>0, <2>7 DEF TextUpTo, PassagesOf, LastOf, RowsOfPaper
  <2>9. cursor' - 1 = n
    BY <2>1, <2>2
  <2> QED BY <2>1, <2>8, <2>9 DEF TextInv, Replaying
<1>4. CASE Rebuilt
  <2>1. pc = "replay" /\ pc' \in Ops /\ cursor - 1 = Len(papers) /\ UNCHANGED ixText
    BY <1>0, <1>4 DEF Rebuilt, LibraryInvariant, Mirrored, Sound, Calls, index
  <2>2. TextUpTo(Len(papers)) /\ pc' \notin Replaying
    BY <2>1 DEF TextInv, Replaying, Ops
  <2>3. ASSUME NEW i \in DOMAIN papers', Covered(i)' PROVE PassagesOf(i)'
    <3>1. LastOf(RowsOfPaper(papers[i].id, Len(papers)), i) /\ papers[i].text # None
      BY <1>0, <2>3 DEF Covered, Newest, LastOf, RowsOfPaper
    <3>2. PassagesOf(i)
      BY <1>0, <2>2, <2>3, <3>1 DEF TextUpTo
    <3> QED BY <1>0, <2>1, <3>2 DEF PassagesOf
  <2> QED BY <2>2, <2>3 DEF TextInv
<1> QED BY <1>1, <1>2, <1>3, <1>4

\* A paper with a new row has no fewer files: what no other paper's PDF was, none is.
LEMMA TextAppended ==
  ASSUME LibraryInvariant, TextInv, AppendPaper
  PROVE  TextInv'
<1>1. /\ pc = "append" /\ pc' = "upsert" /\ papers' = Append(papers, call.row)
      /\ Fits(call.row) /\ Backed(call.row)
      /\ UNCHANGED <<call, statements, pdf, txt, ixText, torn>>
  BY DEF AppendPaper, index, files, counts, LibraryInvariant, Sound, At
<1>2. PICK row : row = call.row
  OBVIOUS
<1>3. PICK n : n = Len(papers)
  OBVIOUS
<1>4. /\ Len(papers') = n + 1 /\ papers'[n + 1] = row /\ papers' \in Seq(Row) /\ papers \in Seq(Row)
      /\ \A i \in DOMAIN papers : i \in DOMAIN papers' /\ papers'[i] = papers[i]
  BY <1>1, <1>2, <1>3, AppendKeepsLedger DEF LibraryInvariant, Ledger
<1>5. n \in Nat /\ DOMAIN papers = 1..n /\ DOMAIN papers' = 1..(n + 1)
  BY <1>3, <1>4
<1>6. \A p : p # row.id => RowsOfPaper(p, Len(papers))' = RowsOfPaper(p, n)
  BY <1>3, <1>4, <1>5 DEF RowsOfPaper
<1>7. \A i \in DOMAIN papers : papers[i].id # row.id => (Newest(i)' <=> Newest(i))
  BY <1>3, <1>4, <1>6 DEF Newest, LastOf
<1>8. Newest(n + 1)'
  BY <1>4, <1>5 DEF Newest, LastOf, RowsOfPaper
<1> SUFFICES ASSUME ~torn, NEW i \in DOMAIN papers', Covered(i)', ~Underway(papers[i].id)'
             PROVE  PassagesOf(i)'
  BY <1>1 DEF TextInv, Replaying
<1>9. papers'[i].id # row.id
  BY <1>1, <1>2 DEF Underway
<1>10. i \in DOMAIN papers /\ papers'[i] = papers[i]
  BY <1>4, <1>5, <1>9
<1>11. Newest(i) /\ papers[i].text # None
  BY <1>7, <1>9, <1>10 DEF Covered
<1>12. ASSUME NEW j \in DOMAIN papers, Newest(j), papers[j].id # papers[i].id
       PROVE  papers[j].pdf # papers[i].text
  <2>1. CASE papers[j].id # row.id
    <3>1. Newest(j)' /\ papers'[j] = papers[j] /\ j \in DOMAIN papers'
      BY <1>4, <1>7, <1>12, <2>1
    <3> QED BY <3>1, <1>10, <1>12 DEF Covered, Unlike
  <2>2. CASE papers[j].id = row.id
    <3>1. LastOf(RowsOfPaper(row.id, Len(papers)), j)
      BY <1>12, <2>2 DEF Newest
    <3>2. Extends(papers[j], row)
      BY <1>1, <1>2, <3>1 DEF Fits
    <3>3. row.pdf # papers[i].text
      <4>1. papers'[n + 1].id # papers'[i].id /\ n + 1 \in DOMAIN papers'
        BY <1>4, <1>5, <1>9
      <4> QED BY <4>1, <1>4, <1>8, <1>10 DEF Covered, Unlike
    <3> QED BY <3>2, <3>3, <1>11 DEF Extends
  <2> QED BY <2>1, <2>2
<1>13. Covered(i)
  BY <1>11, <1>12 DEF Covered, Unlike
<1>14. ~Underway(papers[i].id)
  BY <1>2, <1>9, <1>10 DEF Underway
<1>15. PassagesOf(i)
  BY <1>1, <1>10, <1>13, <1>14 DEF TextInv, Replaying
<1> QED BY <1>1, <1>10, <1>15 DEF PassagesOf

LEMMA TextOfPassages ==
  ASSUME LibraryInvariant, TextInv, Passages
  PROVE  TextInv'
<1>1. /\ papers # << >> /\ papers[Len(papers)] = call.row /\ Backed(call.row)
      /\ UNCHANGED <<papers, txt, torn>> /\ pc = "passages" /\ IndexText(call.row)
      /\ Onward \/ Closes
  BY PassagesGoes
<1>2. Len(papers) \in DOMAIN papers /\ DOMAIN papers = 1..Len(papers)
  BY <1>1 DEF LibraryInvariant, Ledger
<1>3. PICK row : row = call.row
  OBVIOUS
<1>4. /\ row.text # None => row.id \in DOMAIN ixText' /\ ixText'[row.id].src = txt[row.text]
      /\ \A p \in DOMAIN ixText : p # row.id => p \in DOMAIN ixText' /\ ixText'[p] = ixText[p]
  BY <1>1, <1>3, TextIndexed DEF Backed
<1>5. pc' \notin Replaying
  BY <1>1 DEF Onward, Closes, Closing, Replaying
<1> SUFFICES ASSUME ~torn, NEW i \in DOMAIN papers, Covered(i)'
             PROVE  PassagesOf(i)'
  BY <1>1, <1>5 DEF TextInv
<1>6. Covered(i)
  <2>1. \A k : Newest(k)' <=> Newest(k)
    BY <1>1 DEF Newest, LastOf, RowsOfPaper
  <2> QED BY <1>1, <2>1 DEF Covered, Unlike
<1>7. CASE papers[i].id = row.id
  <2>1. i = Len(papers)
    <3>1. Len(papers) \in RowsOfPaper(papers[i].id, Len(papers))
      BY <1>1, <1>2, <1>3, <1>7 DEF RowsOfPaper
    <3> QED BY <3>1, <1>2, <1>6 DEF Covered, Newest, LastOf
  <2>2. papers[i] = row
    BY <2>1, <1>1, <1>3
  <2> QED BY <2>2, <1>1, <1>4, <1>6 DEF PassagesOf, Covered
<1>8. CASE papers[i].id # row.id
  <2>1. ~Underway(papers[i].id)
    BY <1>3, <1>8 DEF Underway
  <2>2. PassagesOf(i)
    BY <1>1, <1>6, <2>1 DEF TextInv, Replaying
  <2> QED BY <1>1, <1>4, <1>8, <2>2 DEF PassagesOf
<1> QED BY <1>7, <1>8

\* Only the paper whose text it is, and those that share its file, are touched.
LEMMA TextExtracted ==
  ASSUME LibraryInvariant, TextInv, PdfText
  PROVE  TextInv'
<1>1. PICK paper :
        /\ \E k : /\ LastOf(RowsOfPaper(paper.id, Len(papers)), k) /\ papers[k] = paper
                  /\ k \in DOMAIN papers
        /\ pc = "pdftext" /\ pc' = "append" /\ call'.stage = "text"
        /\ call'.row.id = paper.id /\ paper.pdf \in Key
        /\ txt' = [txt EXCEPT ![paper.pdf] = pdf[paper.pdf]]
        /\ UNCHANGED <<papers, ixText, torn>>
  BY PdfTextGoes
<1>2. PICK k \in DOMAIN papers : Newest(k) /\ papers[k] = paper
  BY <1>1 DEF Newest
<1> SUFFICES ASSUME ~torn, NEW i \in DOMAIN papers, Covered(i)', ~Underway(papers[i].id)'
             PROVE  PassagesOf(i)'
  BY <1>1 DEF TextInv, Replaying
<1>3. Covered(i)
  <2>1. \A j : Newest(j)' <=> Newest(j)
    BY <1>1 DEF Newest, LastOf, RowsOfPaper
  <2> QED BY <1>1, <2>1 DEF Covered, Unlike
<1>4. papers[i].id # paper.id
  BY <1>1 DEF Underway
<1>5. paper.pdf # papers[i].text
  BY <1>2, <1>3, <1>4 DEF Covered, Unlike
<1>6. txt'[papers[i].text] = txt[papers[i].text]
  <2>1. papers[i].text \in Key
    <3>1. papers[i] \in Row /\ papers[i].text # None
      BY <1>3 DEF LibraryInvariant, Ledger, Covered
    <3> QED BY <3>1 DEF Row
  <2> QED BY <1>1, <1>5, <2>1 DEF LibraryInvariant, Files
<1>7. ~Underway(papers[i].id)
  BY <1>1 DEF Underway
<1>8. PassagesOf(i)
  BY <1>1, <1>3, <1>7 DEF TextInv, Replaying
<1> QED BY <1>1, <1>6, <1>8 DEF PassagesOf

LEMMA TextRest ==
  ASSUME LibraryInvariant, TextInv,
         \/ Ordinary /\ (Onward \/ Fetching \/ Closes \/ Appending \/ TakenUp)
         \/ Crash \/ Upsert \/ Extract \/ WriteStatements \/ UNCHANGED vars
  PROVE  TextInv'
<1>1. CASE Ordinary /\ (Onward \/ Fetching \/ Closes \/ Appending \/ TakenUp)
  <2>1. /\ pc \notin Moving \cup Replaying \cup {"append", "upsert", "passages", "statements"}
        /\ pc' \notin Replaying
    BY <1>1, OrdinaryPlaces
  <2>2. UNCHANGED <<papers, txt, ixText, torn>>
    BY <1>1, OrdinaryFrame
  <2> QED BY <2>1, <2>2, TextStays DEF Underway
<1>2. CASE Crash
  BY <1>2 DEF Crash, TextInv, Replaying
<1>3. CASE Upsert
  <2>1. UNCHANGED <<papers, txt, ixText, torn, call>> /\ pc = "upsert" /\ pc' = "passages"
    BY <1>3 DEF Upsert, UpsertPaper, ledgers, files, counts
  <2> QED BY <2>1, TextStays DEF Underway, Replaying
<1>4. CASE Extract \/ WriteStatements
  <2>1. /\ UNCHANGED <<papers, txt, ixText, torn>> /\ pc \in {"extract", "statements"}
        /\ pc' \in {"statements", "idle", "candidate"}
    BY <1>4, ReturnGoes DEF Extract, WriteStatements, IndexExtract, ledgers, files, index, counts,
                            LibraryInvariant, Sound, Turn
  <2> QED BY <2>1, TextStays DEF Underway, Replaying
<1>5. CASE UNCHANGED vars
  <2>1. UNCHANGED <<papers, txt, ixText, torn, pc, call, cursor>>
    BY <1>5 DEF vars, ledgers, files, index, scan, counts
  <2>2. CASE pc \notin Replaying
    BY <2>1, <2>2, TextStays DEF Underway
  <2>3. CASE pc \in Replaying
    <3>1. \A n : TextUpTo(n) => TextUpTo(n)'
      BY <2>1 DEF TextUpTo, PassagesOf, LastOf, RowsOfPaper
    <3> QED BY <2>1, <2>3, <3>1 DEF TextInv
  <2> QED BY <2>2, <2>3
<1> QED BY <1>1, <1>2, <1>3, <1>4, <1>5

-----------------------------------------------------------------------------
(***************************************************************************)
(* As long as no call has died, papers share no identifier                 *)
(***************************************************************************)
LEMMA UniqueInitially == LibraryInit => UniqueInv
BY DEF LibraryInit, UniqueInv, Unique, CallFor, Blank, Importing

\* The papers stay, no row is in hand, and no candidate is taken up.
LEMMA UniqueStays ==
  ASSUME UniqueInv, UNCHANGED <<papers, crashes, torn>>, CallFor(pc', call'),
         pc' = "register" => call'.row.open = {} /\ (call'.row.doi = None \/ call'.row.arxiv = None),
         pc' # "append",
         Importing(pc', call') =>
           Importing(pc, call) /\ call'.cand = call.cand /\ UNCHANGED candidates
  PROVE  UniqueInv'
<1>1. Unique' <=> Unique
  BY DEF Unique, Shares, Aliases
<1>2. CallFor(pc, call)' /\ (Importing(pc, call)' <=> Importing(pc', call'))
  BY DEF CallFor, Importing
<1>3. ASSUME crashes = 0, Importing(pc', call') PROVE Unopened'
  <2>1. Unopened /\ Candidate(call.cand)' = Candidate(call.cand)
    BY <1>3 DEF UniqueInv, Candidate, RowsOf
  <2> QED BY <2>1 DEF Unopened
<1> QED BY <1>1, <1>2, <1>3 DEF UniqueInv

\* A row is in hand that shares nothing with other papers.
LEMMA UniqueHand ==
  ASSUME UniqueInv, UNCHANGED <<papers, candidates, crashes, torn>>, CallFor(pc', call'),
         pc' = "append", crashes = 0 => Alone(call'.row),
         Importing(pc', call') => Importing(pc, call) /\ call'.cand = call.cand,
         crashes = 0 /\ Importing(pc', call') =>
           \A w \in call'.row.open : \E i \in DOMAIN papers : w \in papers[i].open
  PROVE  UniqueInv'
<1>1. Unique' <=> Unique
  BY DEF Unique, Shares, Aliases
<1>2. CallFor(pc, call)' /\ (Importing(pc, call)' <=> Importing(pc', call'))
  BY DEF CallFor, Importing
<1>3. ASSUME crashes = 0, Importing(pc', call') PROVE Unopened'
  <2>1. Unopened /\ Candidate(call.cand)' = Candidate(call.cand)
    BY <1>3 DEF UniqueInv, Candidate, RowsOf
  <2> QED BY <1>3, <2>1 DEF Unopened
<1>4. crashes = 0 => Alone(call.row)'
  BY DEF Alone, Shares, Aliases
<1> QED BY <1>1, <1>2, <1>3, <1>4 DEF UniqueInv

\* The identifiers of a row of the ledger are those of its paper alone.
LEMMA LedgerAlone ==
  ASSUME Unique, NEW row, InLedger(row), NEW i \in DOMAIN papers, Shares(row, papers[i])
  PROVE  papers[i].id = row.id
BY DEF Unique, InLedger

LEMMA UniqueCloses ==
  ASSUME LibraryInvariant, UniqueInv, Closes, UNCHANGED <<papers, crashes, torn>>
  PROVE  UniqueInv'
<1>1. PICK row : Handy(row) /\ Closing(row)
  BY DEF Closes
<1>2. /\ pc' = "append" /\ Same /\ call'.stage = "close" /\ Importing(pc, call)
      /\ UNCHANGED candidates
  BY <1>1 DEF Closes, Closing
<1>3. ~Importing(pc', call')
  BY <1>2 DEF Importing
<1>4. CallFor(pc', call')
  BY <1>2 DEF UniqueInv, CallFor, Same
<1>5. ASSUME crashes = 0, NEW i \in DOMAIN papers, Shares(call'.row, papers[i])
      PROVE  papers[i].id = call'.row.id
  <2>1. Unique /\ Unopened /\ InLedger(row)
    BY <1>1, <1>2, <1>5 DEF UniqueInv, Handy
  <2>2. Shares(row, papers[i])
    <3>1. \A w \in call'.row.open \cap papers[i].open : w \in row.open
      BY <1>1, <2>1 DEF Closing, Unopened
    <3> QED BY <1>1, <1>5, <3>1 DEF Shares, Closing
  <2>3. papers[i].id = row.id
    BY <2>1, <2>2, LedgerAlone
  <2> QED BY <1>1, <2>3 DEF Closing
<1> QED BY <1>2, <1>3, <1>4, <1>5, UniqueHand DEF Alone

LEMMA UniquePdfText ==
  ASSUME LibraryInvariant, UniqueInv, PdfText
  PROVE  UniqueInv'
<1>1. PICK paper :
        /\ InLedger(paper)
        /\ pc = "pdftext" /\ pc' = "append" /\ Same
        /\ call'.row.id = paper.id /\ Aliases(call'.row) = Aliases(paper)
        /\ call'.row.open = paper.open
        /\ UNCHANGED <<papers, candidates, crashes, torn>>
  BY PdfTextGoes DEF Handy
<1>2. Importing(pc', call') => Importing(pc, call)
  BY <1>1 DEF Importing, Same
<1>3. CallFor(pc', call')
  BY <1>1 DEF UniqueInv, CallFor, Same
<1>4. ASSUME crashes = 0, NEW i \in DOMAIN papers, Shares(call'.row, papers[i])
      PROVE  papers[i].id = call'.row.id
  <2>1. Unique /\ Shares(paper, papers[i])
    BY <1>1, <1>4 DEF UniqueInv, Shares
  <2> QED BY <1>1, <2>1, LedgerAlone
<1>5. \A w \in call'.row.open : \E i \in DOMAIN papers : w \in papers[i].open
  BY <1>1 DEF InLedger
<1> QED BY <1>1, <1>2, <1>3, <1>4, <1>5, UniqueHand DEF Alone, Same

LEMMA UniqueTakenUp ==
  ASSUME UniqueInv, TakenUp, UNCHANGED <<papers, crashes, torn>>
  PROVE  UniqueInv'
<1>1. /\ pc' \in {"lookup", "fetch"} /\ Same /\ UNCHANGED candidates
      /\ WorkKey(Candidate(call.cand).work) \notin ImportedKeys
  BY DEF TakenUp
<1>2. Unique' <=> Unique
  BY DEF Unique, Shares, Aliases
<1>3. CallFor(pc', call')
  BY <1>1 DEF UniqueInv, CallFor, Same
<1>4. Unopened'
  <2>1. PICK w : w = Candidate(call.cand).work
    OBVIOUS
  <2>2. w = Candidate(call.cand)'.work
    BY <1>1, <2>1 DEF Candidate, RowsOf, Same
  <2>3. ASSUME w.open, NEW i \in DOMAIN papers, w \in papers[i].open PROVE FALSE
    <3>1. WorkKey(w) = <<"open", w>>
      BY <2>3 DEF WorkKey
    <3>2. <<"open", w>> \in ImportedKeys
      BY <2>3 DEF ImportedKeys
    <3> QED BY <1>1, <2>1, <3>1, <3>2
  <2> QED BY <1>1, <2>2, <2>3 DEF Unopened
<1> QED BY <1>1, <1>2, <1>3, <1>4 DEF UniqueInv, CallFor

\* An alias some row names leads to the one paper that has it.
LEMMA OwnerOf ==
  ASSUME LibraryInvariant, AliasInv, Unique, ~torn, pc = "register",
         NEW i \in DOMAIN papers, NEW a \in Aliases(papers[i])
  PROVE  a \in DOMAIN ixAlias /\ ixAlias[a] = papers[i].id
<1>1. Live /\ Reach = Len(papers)
  BY DEF Live, Reach
<1>2. i \in 1..Len(papers)
  BY DEF LibraryInvariant, Ledger
<1>3. a \in DOMAIN ixAlias /\ \E j \in 1..i : FirstNames(j, a) /\ papers[j].id = ixAlias[a]
  BY <1>1, <1>2 DEF AliasInv, AliasedUpTo
<1>4. PICK j \in DOMAIN papers : a \in Aliases(papers[j]) /\ papers[j].id = ixAlias[a]
  BY <1>3 DEF FirstNames
<1>5. papers[j].id = papers[i].id
  BY <1>4 DEF Unique, Shares
<1> QED BY <1>3, <1>4, <1>5

\* An import fills in an identifier of an old paper only if it is that paper's own, or no one's.
LEMMA MergedAlone ==
  ASSUME LibraryInvariant, AliasInv, UniqueInv, pc = "register", crashes = 0,
         Existing(call.row) # None,
         NEW i \in DOMAIN papers, Shares(Merge(Existing(call.row), call.row), papers[i])
  PROVE  papers[i].id = Existing(call.row).id
<1>1. PICK old : old = Existing(call.row)
  OBVIOUS
<1>2. PICK new : new = call.row
  OBVIOUS
<1>3. PICK ids : ids = Identifiers(new)
  OBVIOUS
<1>4. /\ DOMAIN ids = 1..4 /\ ids[1] = <<"doi", new.doi>> /\ ids[2] = <<"arxiv", new.arxiv>>
      /\ old = Find(ids)
  BY <1>1, <1>2, <1>3 DEF Identifiers, Existing
<1>5. Handy(old) /\ old \in Row /\ InLedger(old)
  BY <1>1, <1>3, <1>4, FoundRow DEF Moving, Handy
<1>6. Unique /\ ~torn /\ new \in Row /\ (new.doi = None \/ new.arxiv = None)
  BY <1>2 DEF UniqueInv, LibraryInvariant, Sound, At
<1>7. PICK row : row = Merge(old, new)
  OBVIOUS
<1>8. /\ row.doi = Fill(old.doi, new.doi) /\ row.arxiv = Fill(old.arxiv, new.arxiv)
      /\ row.key = old.key /\ row.title = old.title /\ row.open = old.open
  BY <1>5, <1>7 DEF Merge, Row
<1>9. ASSUME NEW j \in {1, 2}, ids[j] \in Aliases(papers[i]),
             j = 2 => new.doi = None
      PROVE  papers[i].id = old.id
  <2>1. ids[j] \in DOMAIN ixAlias /\ ixAlias[ids[j]] = papers[i].id
    BY <1>6, <1>9, OwnerOf
  <2>2. PICK f \in DOMAIN ids :
          /\ ids[f] \in DOMAIN ixAlias /\ Find(ids) = ixPaper[ixAlias[ids[f]]]
          /\ \A k \in DOMAIN ids : ids[k] \in DOMAIN ixAlias => f <= k
    BY <1>4, <2>1, FindFirst
  <2>3. j = 2 => ids[1] \notin DOMAIN ixAlias
    <3>1. ASSUME j = 2, <<"doi", None>> \in DOMAIN ixAlias PROVE FALSE
      <4>1. Live /\ Reach = Len(papers) /\ pc \notin Replaying
        BY <1>6 DEF Live, Reach, Replaying
      <4>2. PICK k \in 1..Len(papers) : <<"doi", None>> \in Aliases(papers[k])
        BY <3>1, <4>1 DEF AliasInv, NamedUpTo
      <4>3. <<"doi", None>>[2] # None
        BY <4>2, AliasesOf
      <4> QED BY <4>3
    <3> QED BY <3>1, <1>4, <1>9
  <2>4. f = j
    BY <1>4, <2>1, <2>2, <2>3
  <2>5. old = ixPaper[papers[i].id]
    BY <1>4, <2>1, <2>2, <2>4
  <2>6. papers[i].id \in DOMAIN ixPaper
    BY <2>1 DEF LibraryInvariant, IndexFromLedger
  <2>7. old.id = papers[i].id
    BY <2>5, <2>6 DEF LibraryInvariant, IndexFromLedger
  <2> QED BY <2>7
<1>10. ASSUME NEW a \in Aliases(row), a \in Aliases(papers[i]) PROVE papers[i].id = old.id
  <2>1. CASE a \in Aliases(old)
    <3>1. Shares(old, papers[i])
      BY <1>10, <2>1 DEF Shares
    <3> QED BY <3>1, <1>5, <1>6, LedgerAlone
  <2>2. CASE a \notin Aliases(old)
    <3>1. /\ a[2] # None
          /\ a \in {<<"doi", row.doi>>, <<"arxiv", row.arxiv>>, <<"key", row.key>>,
                    <<"title", row.title>>}
      BY <1>10, AliasesOf
    <3>2. CASE a = <<"doi", row.doi>>
      <4>1. a = ids[1]
        BY <1>4, <1>8, <2>2, <3>1, <3>2 DEF Fill, Aliases
      <4> QED BY <4>1, <1>9, <1>10
    <3>3. CASE a = <<"arxiv", row.arxiv>>
      <4>1. a = ids[2] /\ new.arxiv # None
        BY <1>4, <1>8, <2>2, <3>1, <3>3 DEF Fill, Aliases
      <4> QED BY <4>1, <1>6, <1>9, <1>10
    <3>4. CASE a \in {<<"key", row.key>>, <<"title", row.title>>}
      BY <1>8, <2>2, <3>1, <3>4 DEF Aliases
    <3> QED BY <3>1, <3>2, <3>3, <3>4
  <2> QED BY <2>1, <2>2
<1>11. ASSUME row.open \cap papers[i].open # {} PROVE papers[i].id = old.id
  <2>1. Shares(old, papers[i])
    BY <1>8, <1>11 DEF Shares
  <2> QED BY <2>1, <1>5, <1>6, LedgerAlone
<1>12. Shares(row, papers[i])
  BY <1>1, <1>2, <1>7
<1> QED BY <1>1, <1>10, <1>11, <1>12 DEF Shares

LEMMA UniqueAppending ==
  ASSUME LibraryInvariant, AliasInv, UniqueInv, Appending, UNCHANGED <<papers, crashes, torn>>
  PROVE  UniqueInv'
<1>1. /\ pc = "register" /\ pc' = "append" /\ Same /\ UNCHANGED candidates
      /\ call.row \in Row
  BY DEF Appending, LibraryInvariant, Sound, At
<1>2. CallFor(pc', call') /\ (Importing(pc', call') => Importing(pc, call))
  BY <1>1 DEF UniqueInv, CallFor, Same, Importing
<1> DEFINE old == Existing(call.row)
<1>3. CASE old = None
  <2>1. PICK row : row = call'.row
    OBVIOUS
  <2>2. /\ row.open = {} /\ row.id = FreshId /\ Aliases(row) = Aliases(call.row)
    <3>1. call'.row = [call.row EXCEPT !.id = FreshId]
      BY <1>3 DEF Appending
    <3>2. /\ row.doi = call.row.doi /\ row.arxiv = call.row.arxiv /\ row.key = call.row.key
          /\ row.title = call.row.title /\ row.open = call.row.open /\ row.id = FreshId
      BY <1>1, <2>1, <3>1 DEF Row
    <3>3. call.row.open = {}
      BY <1>1 DEF UniqueInv
    <3> QED BY <3>2, <3>3 DEF Aliases
  <2>3. \A a \in Aliases(row) : a \notin DOMAIN ixAlias
    <3>1. PICK ids : ids = Identifiers(call.row)
      OBVIOUS
    <3>2. DOMAIN ids = 1..4
      BY <3>1 DEF Identifiers
    <3>3. \A k \in DOMAIN ids : ids[k] \notin DOMAIN ixAlias
      BY <1>3, <3>1, <3>2, NotFound DEF Existing
    <3>4. \A a \in Aliases(call.row) : \E k \in 1..4 : a = ids[k]
      <4>1. /\ ids[1] = <<"doi", call.row.doi>> /\ ids[2] = <<"arxiv", call.row.arxiv>>
            /\ ids[3] = <<"key", call.row.key>> /\ ids[4] = <<"title", call.row.title>>
        BY <3>1 DEF Identifiers
      <4> QED BY <4>1, AliasesOf
    <3> QED BY <2>2, <3>2, <3>3, <3>4
  <2>4. ASSUME crashes = 0, NEW i \in DOMAIN papers, Shares(row, papers[i]) PROVE FALSE
    <3>1. PICK a \in Aliases(row) : a \in Aliases(papers[i])
      BY <2>2, <2>4 DEF Shares
    <3>2. a \in DOMAIN ixAlias
      BY <1>1, <2>4, <3>1, OwnerOf DEF UniqueInv
    <3> QED BY <2>3, <3>1, <3>2
  <2> QED BY <1>1, <1>2, <2>1, <2>2, <2>4, UniqueHand DEF Alone, Same
<1>4. CASE old # None
  <2>1. PICK o : o = old
    OBVIOUS
  <2>2. o \in Row /\ InLedger(o)
    <3>1. DOMAIN Identifiers(call.row) \subseteq 1..4
      BY DEF Identifiers
    <3> QED BY <1>1, <1>4, <2>1, <3>1, FoundRow DEF Existing, Moving, Handy
  <2>3. call'.row = Merge(o, call.row) /\ call'.row.id = o.id /\ call'.row.open = o.open
    <3>1. call'.row = Merge(o, call.row)
      BY <1>4, <2>1 DEF Appending
    <3> QED BY <2>2, <3>1 DEF Merge, Row
  <2>4. ASSUME crashes = 0, NEW i \in DOMAIN papers, Shares(call'.row, papers[i])
        PROVE  papers[i].id = call'.row.id
    BY <1>1, <1>4, <2>1, <2>3, <2>4, MergedAlone
  <2>5. \A w \in call'.row.open : \E i \in DOMAIN papers : w \in papers[i].open
    BY <2>2, <2>3 DEF InLedger
  <2> QED BY <1>1, <1>2, <2>4, <2>5, UniqueHand DEF Alone, Same
<1> QED BY <1>3, <1>4

LEMMA SharesBack ==
  ASSUME NEW r, NEW s, Shares(r, s)
  PROVE  Shares(s, r)
BY DEF Shares

LEMMA UniqueAppended ==
  ASSUME LibraryInvariant, UniqueInv, AppendPaper
  PROVE  UniqueInv'
<1>1. /\ pc = "append" /\ pc' = "upsert" /\ papers' = Append(papers, call.row)
      /\ Fits(call.row) /\ Backed(call.row)
      /\ UNCHANGED <<call, candidates, statements, pdf, txt, crashes, torn>>
  BY DEF AppendPaper, index, files, counts, LibraryInvariant, Sound, At
<1>2. PICK row : row = call.row
  OBVIOUS
<1>3. PICK n : n = Len(papers)
  OBVIOUS
<1>4. /\ Len(papers') = n + 1 /\ papers'[n + 1] = row /\ papers' \in Seq(Row) /\ papers \in Seq(Row)
      /\ \A i \in DOMAIN papers : i \in DOMAIN papers' /\ papers'[i] = papers[i]
  BY <1>1, <1>2, <1>3, AppendKeepsLedger DEF LibraryInvariant, Ledger
<1>5. \A i \in DOMAIN papers' : i \in DOMAIN papers \/ papers'[i] = row
  BY <1>3, <1>4
<1>6. ASSUME crashes = 0, NEW i \in DOMAIN papers', NEW j \in DOMAIN papers',
             Shares(papers'[i], papers'[j])
      PROVE  papers'[i].id = papers'[j].id
  <2>1. Unique /\ Alone(row)
    BY <1>1, <1>2, <1>6 DEF UniqueInv
  <2>2. CASE i \in DOMAIN papers /\ j \in DOMAIN papers
    BY <1>4, <1>6, <2>1, <2>2 DEF Unique
  <2>3. CASE i \in DOMAIN papers /\ papers'[j] = row
    BY <1>4, <1>6, <2>1, <2>3, SharesBack DEF Alone
  <2>4. CASE papers'[i] = row /\ j \in DOMAIN papers
    BY <1>4, <1>6, <2>1, <2>4 DEF Alone
  <2>5. CASE papers'[i] = row /\ papers'[j] = row
    BY <2>5
  <2> QED BY <1>5, <2>2, <2>3, <2>4, <2>5
<1>7. crashes = 0 => Unique'
  BY <1>6 DEF Unique, Shares, Aliases
<1>8. CallFor(pc, call)' /\ (Importing(pc, call)' => Importing(pc, call))
  BY <1>1 DEF UniqueInv, CallFor, Importing
<1>9. ASSUME crashes = 0, Importing(pc, call) PROVE Unopened'
  <2>1. PICK w : w = Candidate(call.cand).work
    OBVIOUS
  <2>2. w.open => w \notin row.open /\ \A i \in DOMAIN papers : w \notin papers[i].open
    BY <1>1, <1>2, <1>9, <2>1 DEF UniqueInv, Unopened
  <2>3. w = Candidate(call.cand)'.work
    BY <1>1, <2>1 DEF Candidate, RowsOf
  <2> QED BY <1>1, <1>4, <1>5, <2>2, <2>3 DEF Unopened
<1> QED BY <1>1, <1>7, <1>8, <1>9 DEF UniqueInv

LEMMA UniqueOrdinary ==
  ASSUME LibraryInvariant, AliasInv, UniqueInv, Ordinary
  PROVE  UniqueInv'
<1>1. UNCHANGED <<papers, crashes, torn>>
  BY OrdinaryFrame
<1>2. CASE Onward
  BY <1>1, <1>2, UniqueStays DEF Onward, UniqueInv
<1>3. CASE Fetching
  <2>1. CallFor(pc', call') /\ (Importing(pc', call') => Importing(pc, call))
    BY <1>3 DEF Fetching, UniqueInv, CallFor, Same, Importing
  <2> QED BY <1>1, <1>3, <2>1, UniqueStays DEF Fetching, Same
<1> QED BY <1>1, <1>2, <1>3, OrdinaryGoes, UniqueCloses, UniqueAppending, UniqueTakenUp
        DEF UniqueInv

LEMMA UniqueRest ==
  ASSUME LibraryInvariant, UniqueInv,
         \/ Crash \/ Clear \/ ReplayPaper \/ ReplayText \/ ReplayStatements \/ Rebuilt
         \/ Upsert \/ Passages \/ Extract \/ WriteStatements \/ UNCHANGED vars
  PROVE  UniqueInv'
<1>1. CASE Crash
  <2>1. /\ crashes' = crashes + 1 /\ crashes \in Nat /\ pc' = "idle" /\ call' = Blank
    BY <1>1 DEF Crash, UniqueInv
  <2>2. crashes' # 0 /\ crashes' \in Nat
    BY <2>1
  <2>3. CallFor(pc, call)'
    BY <2>1 DEF CallFor, Blank
  <2> QED BY <2>1, <2>2, <2>3 DEF UniqueInv
<1>2. CASE Clear \/ ReplayPaper \/ ReplayText \/ ReplayStatements
  <2>1. /\ UNCHANGED <<papers, call, crashes, torn>> /\ pc' \in Replaying
    BY <1>2 DEF Clear, ReplayPaper, ReplayText, ReplayStatements, ledgers, counts, Replaying
  <2> QED BY <2>1, UniqueStays DEF UniqueInv, CallFor, Replaying, Importing
<1>3. CASE Rebuilt
  <2>1. /\ UNCHANGED <<papers, call, crashes>> /\ pc' = call.op /\ call.op \in Ops /\ torn' = FALSE
    BY <1>3 DEF Rebuilt, ledgers, LibraryInvariant, Sound, Calls
  <2>2. CallFor(pc', call')
    BY <2>1 DEF UniqueInv, CallFor
  <2>3. ~Importing(pc', call')
    BY <2>1, <2>2 DEF CallFor, Importing, Ops
  <2>4. Unique' <=> Unique
    BY <2>1 DEF Unique, Shares, Aliases
  <2>5. CallFor(pc, call)' /\ ~Importing(pc, call)'
    BY <2>2, <2>3 DEF CallFor, Importing
  <2> QED BY <2>1, <2>4, <2>5 DEF UniqueInv, Ops
<1>4. CASE Upsert
  <2>1. UNCHANGED <<papers, candidates, call, crashes, torn>> /\ pc = "upsert" /\ pc' = "passages"
    BY <1>4 DEF Upsert, ledgers, counts
  <2>2. CallFor(pc', call') /\ (Importing(pc', call') => Importing(pc, call))
    BY <2>1 DEF UniqueInv, CallFor, Importing
  <2> QED BY <2>1, <2>2, UniqueStays
<1>5. CASE Passages
  <2>1. UNCHANGED <<papers, crashes, torn>> /\ (Onward \/ Closes)
    BY <1>5, PassagesGoes
  <2>2. CASE Onward
    BY <2>1, <2>2, UniqueStays DEF Onward, UniqueInv
  <2> QED BY <2>1, <2>2, UniqueCloses
<1>6. CASE Extract \/ WriteStatements
  <2>1. UNCHANGED <<papers, crashes, torn>> /\ (Turn \/ (pc' = "statements" /\ UNCHANGED call))
    BY <1>6, ReturnGoes DEF Extract, WriteStatements, ledgers, counts, LibraryInvariant, Sound
  <2>2. CASE Turn
    <3>1. Onward
      BY <2>2, TurnOnward
    <3> QED BY <2>1, <3>1, UniqueStays DEF Onward, UniqueInv
  <2>3. CASE pc' = "statements" /\ UNCHANGED call
    BY <2>1, <2>3, UniqueStays DEF UniqueInv, CallFor, Importing
  <2> QED BY <2>1, <2>2, <2>3
<1>7. CASE UNCHANGED vars
  <2>1. UNCHANGED <<papers, candidates, call, pc, crashes, torn>>
    BY <1>7 DEF vars, ledgers, counts
  <2>2. Unique' <=> Unique
    BY <2>1 DEF Unique, Shares, Aliases
  <2>3. Alone(call.row)' <=> Alone(call.row)
    BY <2>1 DEF Alone, Shares, Aliases
  <2>4. Unopened' <=> Unopened
    <3>1. Candidate(call.cand)' = Candidate(call.cand)
      BY <2>1 DEF Candidate, RowsOf
    <3> QED BY <2>1, <3>1 DEF Unopened
  <2>5. (CallFor(pc, call)' <=> CallFor(pc, call)) /\ (Importing(pc, call)' <=> Importing(pc, call))
    BY <2>1 DEF CallFor, Importing
  <2> QED BY <2>1, <2>2, <2>3, <2>4, <2>5 DEF UniqueInv
<1> QED BY <1>1, <1>2, <1>3, <1>4, <1>5, <1>6, <1>7

-----------------------------------------------------------------------------
(***************************************************************************)
(* The index has the statements of the ledger                              *)
(***************************************************************************)
LEMMA StatementInitially == LibraryInit => StatementInv
<1> SUFFICES ASSUME LibraryInit PROVE StatementInv
  OBVIOUS
<1>1. /\ statements = {} /\ pc = "idle" /\ ixStmt = << >>
  BY DEF LibraryInit
<1>2. Indexed = {}
  BY <1>1 DEF Indexed
<1> QED BY <1>1, <1>2 DEF StatementInv, Grouped, Reindexed, Extracting, Complete, Replaying

LEMMA StatementStays ==
  ASSUME StatementInv, UNCHANGED <<statements, ixStmt, crashes>>,
         \A i \in DOMAIN papers : i \in DOMAIN papers' /\ papers'[i] = papers[i],
         pc \notin Replaying \cup {"statements"}, pc' \notin Replaying \cup {"statements"}
  PROVE  StatementInv'
<1>1. Indexed' = Indexed
  BY DEF Indexed
<1>2. Grouped'
  BY DEF StatementInv, Grouped, HasRow
<1> QED BY <1>1, <1>2 DEF StatementInv, Reindexed, Extracting, Complete

\* Papers that have a citation key in common are one paper.
LEMMA KeyAlone ==
  ASSUME Ledger, Unique, NEW i \in DOMAIN papers, NEW j \in DOMAIN papers,
         papers[i].key = papers[j].key
  PROVE  papers[i].id = papers[j].id
<1>1. papers[i] \in Row
  BY DEF Ledger
<1>2. papers[i].key # None
  BY <1>1, SourceAssumption DEF Row
<1>3. <<"key", papers[i].key>> \in Aliases(papers[i]) \cap Aliases(papers[j])
  BY <1>2 DEF Aliases
<1> QED BY <1>3 DEF Unique, Shares

\* Indexing the statements of a text: those of other papers stay, unless they are the same
\* under the same key.
LEMMA Extracted ==
  ASSUME NEW g, NEW text, IndexExtract(g, text)
  PROVE  /\ \A p \in DOMAIN ixStmt' : p # g.id => p \in DOMAIN ixStmt /\ ixStmt'[p] = ixStmt[p]
         /\ \A p \in DOMAIN ixStmt :
              p # g.id /\ ixStmt[p].key # g.key => p \in DOMAIN ixStmt' /\ ixStmt'[p] = ixStmt[p]
         /\ g.id \in DOMAIN ixStmt' <=> g.quote \in Quotes
         /\ g.id \in DOMAIN ixStmt' =>
              ixStmt'[g.id] = [key |-> g.key, quote |-> g.quote, sha |-> text,
                            ok |-> Located(text, g.quote)]
<1> DEFINE kept == {p \in DOMAIN ixStmt \ {g.id} : ~(ixStmt[p].key = g.key /\ ixStmt[p].quote = g.quote)}
           new == IF g.quote \in Quotes THEN {g.id} ELSE {}
<1>1. ixStmt' = [p \in kept \cup new |->
                   IF p \in new THEN [key |-> g.key, quote |-> g.quote, sha |-> text,
                            ok |-> Located(text, g.quote)]
                   ELSE ixStmt[p]]
  BY DEF IndexExtract
<1>2. /\ \A p \in kept : p \in DOMAIN ixStmt /\ p # g.id
      /\ \A p \in DOMAIN ixStmt : p # g.id /\ ixStmt[p].key # g.key => p \in kept
      /\ \A p \in new : p = g.id
      /\ g.id \in new <=> g.quote \in Quotes
  OBVIOUS
<1> HIDE DEF kept, new
<1> QED BY <1>1, <1>2

LEMMA GroupForm ==
  ASSUME NEW g \in Groups
  PROVE  g = [id |-> g.id, key |-> g.key, quote |-> g.quote] /\ g.quote \in Quotes
BY DEF Groups

LEMMA StatementReplayed ==
  ASSUME LibraryInvariant, UniqueInv, StatementInv, ReplayStatements
  PROVE  StatementInv'
<1>1. PICK g \in todo :
        /\ IndexExtract(g, Checked(g.key)) /\ todo' = todo \ {g}
  BY DEF ReplayStatements, Checked
<1>2. /\ pc = "replay" /\ cursor > Len(papers)
      /\ UNCHANGED <<papers, statements, txt, ixPaper, ixAlias, pc, call, cursor, crashes>>
  BY <1>1 DEF ReplayStatements, IndexExtract, ledgers, files, counts
<1>3. /\ todo \subseteq statements /\ Indexed \subseteq statements /\ g \in statements
      /\ \A h \in statements : h \in Groups /\ HasRow(h)
      /\ \A p \in DOMAIN ixStmt : /\ ixStmt[p].sha = Checked(ixStmt[p].key)
                                  /\ ixStmt[p].ok = Located(ixStmt[p].sha, ixStmt[p].quote)
  BY <1>1, <1>2 DEF StatementInv, Grouped, Reindexed, Replaying
<1>4. /\ \A p \in DOMAIN ixStmt' : p # g.id => p \in DOMAIN ixStmt /\ ixStmt'[p] = ixStmt[p]
      /\ \A p \in DOMAIN ixStmt :
           p # g.id /\ ixStmt[p].key # g.key => p \in DOMAIN ixStmt' /\ ixStmt'[p] = ixStmt[p]
      /\ g.id \in DOMAIN ixStmt'
      /\ ixStmt'[g.id] = [key |-> g.key, quote |-> g.quote, sha |-> Checked(g.key),
                          ok |-> Located(Checked(g.key), g.quote)]
  BY <1>1, <1>3, Extracted, GroupForm
<1>5. \A key : Checked(key)' = Checked(key)
  BY <1>2 DEF Checked, Find
<1>6. g = [id |-> g.id, key |-> ixStmt'[g.id].key, quote |-> ixStmt'[g.id].quote] /\ g \in Indexed'
  BY <1>3, <1>4, GroupForm DEF Indexed
<1>7. \A h \in Indexed' : h = g \/ h \in Indexed
  <2> SUFFICES ASSUME NEW p \in DOMAIN ixStmt', p # g.id
               PROVE  [id |-> p, key |-> ixStmt'[p].key, quote |-> ixStmt'[p].quote] \in Indexed
    BY <1>6 DEF Indexed
  <2> QED BY <1>4 DEF Indexed
<1>8. todo' \subseteq statements /\ Indexed' \subseteq statements
  BY <1>1, <1>3, <1>7
<1>9. \A p \in DOMAIN ixStmt' : /\ ixStmt'[p].sha = Checked(ixStmt'[p].key)
                                /\ ixStmt'[p].ok = Located(ixStmt'[p].sha, ixStmt'[p].quote)
  BY <1>3, <1>4
<1>10. ASSUME crashes = 0 PROVE statements = Indexed' \cup todo'
  <2>1. /\ Unique /\ statements = Indexed \cup todo
        /\ \A h, k \in statements : h.id = k.id => h = k
    BY <1>2, <1>10 DEF UniqueInv, StatementInv, Complete, Replaying
  <2>2. ASSUME NEW p \in DOMAIN ixStmt
        PROVE  [id |-> p, key |-> ixStmt[p].key, quote |-> ixStmt[p].quote] \in Indexed'
    <3>1. PICK h \in statements : h = [id |-> p, key |-> ixStmt[p].key, quote |-> ixStmt[p].quote]
      BY <1>3 DEF Indexed
    <3>2. CASE p = g.id
      BY <1>3, <1>6, <2>1, <3>1, <3>2
    <3>3. CASE p # g.id
      <4>1. ixStmt[p].key # g.key
        <5>1. PICK i \in DOMAIN papers : papers[i].id = h.id /\ papers[i].key = h.key
          BY <1>3, <3>1 DEF HasRow
        <5>2. PICK j \in DOMAIN papers : papers[j].id = g.id /\ papers[j].key = g.key
          BY <1>3 DEF HasRow
        <5> QED BY <2>1, <3>1, <3>3, <5>1, <5>2, KeyAlone DEF LibraryInvariant
      <4> QED BY <1>4, <3>3, <4>1 DEF Indexed
    <3> QED BY <3>2, <3>3
  <2>3. Indexed \subseteq Indexed'
    BY <2>2 DEF Indexed
  <2> QED BY <1>1, <1>6, <1>8, <2>1, <2>3
<1>11. Grouped'
  BY <1>2, <1>3 DEF Grouped, HasRow
<1>12. \A p \in DOMAIN ixStmt' : Checked(ixStmt[p].key)' = Checked(ixStmt'[p].key)
  BY <1>2 DEF Checked, Find
<1>13. Reindexed'
  <2>1. ~(cursor' <= Len(papers'))
    BY <1>2 DEF LibraryInvariant, Mirrored, Ledger
  <2>2. \A p \in DOMAIN ixStmt' : ixStmt'[p].sha = Checked(ixStmt[p].key)'
    BY <1>9, <1>12
  <2>3. \A p \in DOMAIN ixStmt' : ixStmt'[p].ok = Located(ixStmt'[p].sha, ixStmt'[p].quote)
    BY <1>9
  <2>4. (todo \subseteq statements /\ Indexed \subseteq statements)'
    BY <1>2, <1>8
  <2> QED BY <2>1, <2>2, <2>3, <2>4 DEF Reindexed
<1>14. Complete'
  <2>1. pc' = "replay" /\ statements' = statements /\ crashes' = crashes
    BY <1>2
  <2>2. crashes' = 0 => statements' = (Indexed \cup todo)'
    BY <1>10, <2>1
  <2>3. crashes' = 0 => \A h, k \in statements : h.id = k.id => h = k
    BY <2>1 DEF StatementInv, Complete
  <2> QED BY <2>1, <2>2, <2>3 DEF Complete, Replaying
<1> QED BY <1>2, <1>11, <1>13, <1>14 DEF StatementInv, Extracting

\* Statements while papers are replayed: none is indexed.
LEMMA StatementCleared ==
  ASSUME LibraryInvariant, StatementInv, Clear \/ ReplayPaper \/ ReplayText
  PROVE  StatementInv'
<1>1. UNCHANGED <<papers, statements, crashes>> /\ pc' \in Replaying
  BY DEF Clear, ReplayPaper, ReplayText, ledgers, counts, Replaying
<1>2. Grouped'
  BY <1>1 DEF StatementInv, Grouped, HasRow
<1>3. DOMAIN ixStmt' = {} /\ todo' \subseteq statements /\ (crashes = 0 => todo' = statements)
  <2>1. CASE Clear
    BY <2>1 DEF Clear
  <2>2. CASE ReplayPaper \/ ReplayText
    <3>1. UNCHANGED <<ixStmt, todo>> /\ pc \in Replaying /\ cursor <= Len(papers)
      BY <2>2 DEF ReplayPaper, ReplayText, UpsertPaper, IndexText, scan, Replaying,
                  LibraryInvariant, Mirrored
    <3>2. DOMAIN ixStmt = {} /\ todo \subseteq statements
      BY <3>1 DEF StatementInv, Reindexed
    <3>3. Indexed = {}
      BY <3>2 DEF Indexed
    <3>4. crashes = 0 => statements = Indexed \cup todo
      BY <3>1 DEF StatementInv, Complete
    <3> QED BY <3>1, <3>2, <3>3, <3>4
  <2> QED BY <2>1, <2>2
<1>4. Indexed' = {}
  BY <1>3 DEF Indexed
<1>5. Reindexed'
  BY <1>1, <1>3, <1>4 DEF Reindexed
<1>6. Complete'
  <2>1. crashes' = 0 => statements' = (Indexed \cup todo)'
    BY <1>1, <1>3, <1>4
  <2>2. crashes' = 0 => \A h, k \in statements : h.id = k.id => h = k
    BY <1>1 DEF StatementInv, Complete
  <2> QED BY <1>1, <2>1, <2>2 DEF Complete, Replaying
<1> QED BY <1>1, <1>2, <1>5, <1>6 DEF StatementInv, Extracting, Replaying

LEMMA StatementRebuilt ==
  ASSUME LibraryInvariant, StatementInv, Rebuilt
  PROVE  StatementInv'
<1>1. /\ UNCHANGED <<papers, statements, ixStmt, crashes>> /\ todo = {}
      /\ pc = "replay" /\ pc' \notin Replaying \cup {"statements"}
  BY DEF Rebuilt, ledgers, index, LibraryInvariant, Sound, Calls, Ops, Replaying
<1>2. Indexed' = Indexed
  BY <1>1 DEF Indexed
<1>3. Grouped'
  BY <1>1 DEF StatementInv, Grouped, HasRow
<1>4. Complete'
  <2>1. crashes' = 0 => statements' = Indexed'
    BY <1>1, <1>2 DEF StatementInv, Complete, Replaying
  <2>2. crashes' = 0 => \A h, k \in statements : h.id = k.id => h = k
    BY <1>1 DEF StatementInv, Complete
  <2> QED BY <1>1, <2>1, <2>2 DEF Complete
<1> QED BY <1>1, <1>3, <1>4 DEF StatementInv, Extracting, Reindexed

\* The paper whose statements are being extracted.
LEMMA ExtractedRow ==
  ASSUME LibraryInvariant, pc \in {"extract", "statements"}
  PROVE  /\ call.row \in Row /\ call.row.text # None
         /\ Group(call.row) = [id |-> call.row.id, key |-> call.row.key,
                               quote |-> Collapsed(txt[call.row.text])]
         /\ txt[call.row.text] # None
         /\ \A h \in statements : Unique /\ Grouped /\ h.id # call.row.id => h.key # call.row.key
<1>1. PICK j \in DOMAIN papers : papers[j] = call.row
  BY DEF LibraryInvariant, Sound, At, InLedger
<1>2. call.row \in Row /\ call.row.text # None /\ txt[call.row.text] # None
  BY <1>1 DEF LibraryInvariant, Ledger, Sound, At, AllBacked, Backed
<1>3. ASSUME NEW h \in statements, Unique, Grouped, h.id # call.row.id
      PROVE  h.key # call.row.key
  <2>1. PICK i \in DOMAIN papers : papers[i].id = h.id /\ papers[i].key = h.key
    BY <1>3 DEF Grouped, HasRow
  <2> QED BY <1>1, <1>3, <2>1, KeyAlone DEF LibraryInvariant
<1> QED BY <1>2, <1>3 DEF Group

LEMMA StatementExtract ==
  ASSUME LibraryInvariant, UniqueInv, StatementInv, Extract
  PROVE  StatementInv'
<1> DEFINE row == call.row
           text == txt[call.row.text]
<1>1. /\ IndexExtract(Group(row), text) /\ pc = "extract" /\ pc' = "statements"
      /\ UNCHANGED <<papers, statements, txt, call, crashes>>
  BY DEF Extract, ledgers, files, counts
<1>2. /\ Group(row) = [id |-> row.id, key |-> row.key, quote |-> Collapsed(text)] /\ text # None
      /\ \A h \in statements : Unique /\ Grouped /\ h.id # row.id => h.key # row.key
  BY <1>1, ExtractedRow
<1>3. /\ \A p \in DOMAIN ixStmt' : p # row.id => p \in DOMAIN ixStmt /\ ixStmt'[p] = ixStmt[p]
      /\ \A p \in DOMAIN ixStmt :
           p # row.id /\ ixStmt[p].key # row.key => p \in DOMAIN ixStmt' /\ ixStmt'[p] = ixStmt[p]
      /\ row.id \in DOMAIN ixStmt' <=> Collapsed(text) \in Quotes
      /\ row.id \in DOMAIN ixStmt' =>
           ixStmt'[row.id] = [key |-> row.key, quote |-> Collapsed(text), sha |-> text,
                             ok |-> Located(text, Collapsed(text))]
  BY <1>1, <1>2, Extracted
<1>4. Grouped /\ Grouped'
  BY <1>1 DEF StatementInv, Grouped, HasRow
<1>5. Extracting'
  <2>1. Located(text, Collapsed(text)) = TRUE
    BY <1>2 DEF Located
  <2> QED BY <1>1, <1>3, <2>1 DEF Extracting
<1>6. ASSUME crashes = 0
      PROVE  Indexed' = {g \in statements : g.id # row.id} \cup Found(row)
  <2>1. Unique /\ Indexed = statements
    BY <1>1, <1>6 DEF UniqueInv, StatementInv, Complete, Replaying
  <2>2. Found(row) = IF Collapsed(text) \in Quotes THEN {Group(row)} ELSE {}
    BY <1>2 DEF Found
  <2>3. ASSUME NEW h \in Indexed'
        PROVE  h \in {g \in statements : g.id # row.id} \cup Found(row)
    <3>1. PICK p \in DOMAIN ixStmt' : h = [id |-> p, key |-> ixStmt'[p].key, quote |-> ixStmt'[p].quote]
      BY DEF Indexed
    <3>2. CASE p = row.id
      BY <1>2, <1>3, <2>2, <3>1, <3>2
    <3>3. CASE p # row.id
      <4>1. h \in Indexed /\ h.id = p
        BY <1>3, <3>1, <3>3 DEF Indexed
      <4> QED BY <2>1, <3>3, <4>1
    <3> QED BY <3>2, <3>3
  <2>4. ASSUME NEW h \in statements, h.id # row.id
        PROVE  h \in Indexed'
    <3>1. PICK p \in DOMAIN ixStmt : h = [id |-> p, key |-> ixStmt[p].key, quote |-> ixStmt[p].quote]
      BY <2>1 DEF Indexed
    <3>2. p # row.id /\ ixStmt[p].key # row.key
      BY <1>2, <1>4, <2>1, <2>4, <3>1
    <3> QED BY <1>3, <3>1, <3>2 DEF Indexed
  <2>5. ASSUME Collapsed(text) \in Quotes PROVE Group(row) \in Indexed'
    BY <1>2, <1>3, <2>5 DEF Indexed
  <2> QED BY <2>2, <2>3, <2>4, <2>5
<1>7. Complete'
  <2>1. Found(row)' = Found(row)
    BY <1>1 DEF Found, Group
  <2>2. crashes' = 0 => \A h, k \in statements : h.id = k.id => h = k
    BY <1>1 DEF StatementInv, Complete
  <2> QED BY <1>1, <1>6, <2>1, <2>2 DEF Complete, Replaying
<1> QED BY <1>1, <1>4, <1>5, <1>7 DEF StatementInv, Reindexed, Replaying

LEMMA StatementWritten ==
  ASSUME LibraryInvariant, UniqueInv, StatementInv, WriteStatements
  PROVE  StatementInv'
<1> DEFINE row == call.row
<1>1. /\ pc = "statements" /\ statements' = Retained(row) \cup Found(row)
      /\ UNCHANGED <<papers, ixStmt, crashes>>
  BY DEF WriteStatements, index, counts
<1>2. pc' \notin Replaying \cup {"statements"}
  BY ReturnGoes DEF WriteStatements, LibraryInvariant, Sound, Turn, Replaying
<1>3. Indexed' = Indexed
  BY <1>1 DEF Indexed
<1>4. /\ row \in Row
      /\ \A h \in statements : Unique /\ Grouped /\ h.id # row.id => h.key # row.key
  BY <1>1, ExtractedRow
<1>5. /\ \A h \in Retained(row) : h \in statements /\ h.id # row.id
      /\ \A h \in Found(row) : h = Group(row) /\ h.quote \in Quotes
      /\ Group(row).id = row.id
  BY DEF Retained, Found, Group
<1>6. Grouped'
  <2>1. ASSUME Group(row).quote \in Quotes PROVE Group(row) \in Groups /\ HasRow(Group(row))
    <3>1. PICK j \in DOMAIN papers : papers[j] = row
      BY <1>1 DEF LibraryInvariant, Sound, At, InLedger
    <3>2. row.id \in Nat /\ row.key \in Key
      BY <1>4 DEF Row
    <3> QED BY <2>1, <3>1, <3>2 DEF Group, Groups, HasRow
  <2>2. \A h \in statements' : h \in Groups /\ HasRow(h)
    BY <1>1, <1>5, <2>1 DEF StatementInv, Grouped
  <2> QED BY <1>1, <2>2 DEF Grouped, HasRow
<1>7. ASSUME crashes = 0
      PROVE  statements' = Indexed /\ \A h, k \in statements' : h.id = k.id => h = k
  <2>1. /\ Unique /\ Grouped /\ Indexed = {g \in statements : g.id # row.id} \cup Found(row)
        /\ \A h, k \in statements : h.id = k.id => h = k
    BY <1>1, <1>7 DEF UniqueInv, StatementInv, Complete
  <2>2. Retained(row) = {g \in statements : g.id # row.id}
    BY <1>4, <2>1 DEF Retained
  <2> QED BY <1>1, <1>5, <2>1, <2>2
<1>8. Complete'
  BY <1>1, <1>2, <1>3, <1>7 DEF Complete
<1> QED BY <1>2, <1>6, <1>8 DEF StatementInv, Extracting, Reindexed

LEMMA StatementRest ==
  ASSUME LibraryInvariant, UniqueInv, StatementInv,
         \/ Ordinary /\ (Onward \/ Fetching \/ Closes \/ Appending \/ TakenUp)
         \/ Crash \/ AppendPaper \/ Upsert \/ Passages \/ PdfText \/ UNCHANGED vars
  PROVE  StatementInv'
<1>1. CASE Ordinary /\ (Onward \/ Fetching \/ Closes \/ Appending \/ TakenUp)
  <2>1. pc \notin Replaying \cup {"statements"} /\ pc' \notin Replaying \cup {"statements"}
    BY <1>1, OrdinaryPlaces
  <2> QED BY <1>1, <2>1, OrdinaryFrame, StatementStays
<1>2. CASE Crash
  <2>1. /\ UNCHANGED <<papers, statements>> /\ crashes' = crashes + 1 /\ pc' = "idle"
    BY <1>2 DEF Crash, ledgers
  <2>2. Grouped'
    BY <2>1 DEF StatementInv, Grouped, HasRow
  <2>3. crashes' # 0
    BY <2>1 DEF UniqueInv
  <2> QED BY <2>1, <2>2, <2>3 DEF StatementInv, Reindexed, Extracting, Complete, Replaying
<1>3. CASE AppendPaper
  <2>1. /\ UNCHANGED <<statements, ixStmt, crashes>> /\ pc = "append" /\ pc' = "upsert"
        /\ papers' = Append(papers, call.row) /\ call.row \in Row /\ papers \in Seq(Row)
    BY <1>3 DEF AppendPaper, index, counts, LibraryInvariant, Ledger, Sound, At, Fits
  <2>2. \A i \in DOMAIN papers : i \in DOMAIN papers' /\ papers'[i] = papers[i]
    BY <2>1
  <2> QED BY <2>1, <2>2, StatementStays DEF Replaying
<1>4. CASE Upsert \/ Passages \/ PdfText
  <2>1. UNCHANGED <<papers, statements, ixStmt, crashes>>
    BY <1>4, PassagesGoes, PdfTextGoes DEF Upsert, UpsertPaper, ledgers, counts
  <2>2. pc \notin Replaying \cup {"statements"} /\ pc' \notin Replaying \cup {"statements"}
    BY <1>4, PassagesGoes DEF Upsert, PdfText, Onward, Closes, Closing, Replaying
  <2> QED BY <2>1, <2>2, StatementStays
<1>5. CASE UNCHANGED vars
  <2>1. UNCHANGED <<papers, statements, txt, ixPaper, ixAlias, ixStmt, pc, call, cursor, todo, crashes>>
    BY <1>5 DEF vars, ledgers, files, index, scan, counts
  <2>2. Indexed' = Indexed /\ Found(call.row)' = Found(call.row)
    BY <2>1 DEF Indexed, Found, Group
  <2>3. \A p \in DOMAIN ixStmt : Checked(ixStmt[p].key)' = Checked(ixStmt[p].key)
    BY <2>1 DEF Checked, Find
  <2>4. Grouped'
    BY <2>1 DEF StatementInv, Grouped, HasRow
  <2>5. Reindexed'
    BY <2>1, <2>2, <2>3 DEF StatementInv, Reindexed
  <2>6. Extracting' /\ Complete'
    BY <2>1, <2>2 DEF StatementInv, Extracting, Complete
  <2> QED BY <2>4, <2>5, <2>6 DEF StatementInv
<1> QED BY <1>1, <1>2, <1>3, <1>4, <1>5

-----------------------------------------------------------------------------
(***************************************************************************)
(* Theorems about the index                                                *)
(***************************************************************************)
LEMMA TextInitially == LibraryInit => TextInv
BY DEF LibraryInit, TextInv, Replaying

LEMMA TableStep == Table /\ [LibraryNext]_vars => Table'
<1> SUFFICES ASSUME Table, [LibraryNext]_vars PROVE Table'
  OBVIOUS
<1>1. CASE Ordinary \/ UNCHANGED vars
  <2>1. UNCHANGED ixPaper
    BY <1>1, OrdinaryFrame DEF vars, index
  <2> QED BY <2>1 DEF Table
<1>2. CASE Clear
  BY <1>2 DEF Clear, Table
<1>3. CASE ReplayPaper \/ Upsert
  <2>1. PICK row : ixPaper' = Put(ixPaper, row.id, row)
    BY <1>3 DEF ReplayPaper, Upsert, UpsertPaper
  <2> QED BY <2>1 DEF Table, Put
<1>4. CASE \/ Crash \/ ReplayText \/ ReplayStatements \/ Rebuilt \/ AppendPaper \/ Passages
           \/ PdfText \/ Extract \/ WriteStatements
  <2>1. UNCHANGED ixPaper
    BY <1>4 DEF Crash, ReplayText, ReplayStatements, Rebuilt, AppendPaper, Passages, PdfText,
                Extract, WriteStatements, IndexText, IndexExtract, index
  <2> QED BY <2>1 DEF Table
<1> QED BY <1>1, <1>2, <1>3, <1>4 DEF LibraryNext, Ordinary

LEMMA IndexStep ==
  LibraryInvariant /\ IndexInvariant /\ [LibraryNext]_vars => IndexInvariant'
<1> SUFFICES ASSUME LibraryInvariant, IndexInvariant, [LibraryNext]_vars PROVE IndexInvariant'
  OBVIOUS
<1> USE TableStep DEF IndexInvariant
<1>1. CASE Ordinary
  <2>1. Onward \/ Fetching \/ Closes \/ Appending \/ TakenUp
    BY <1>1, OrdinaryGoes DEF UniqueInv
  <2> QED BY <1>1, <2>1, AliasOrdinary, TextRest, UniqueOrdinary, StatementRest
<1>2. CASE Clear \/ ReplayPaper \/ ReplayText \/ ReplayStatements \/ Rebuilt
  <2>1. StatementInv'
    BY <1>2, StatementCleared, StatementReplayed, StatementRebuilt
  <2> QED BY <1>2, <2>1, AliasReplay, TextReplay, UniqueRest
<1>3. CASE AppendPaper
  BY <1>3, AliasWritten, TextAppended, UniqueAppended, StatementRest
<1>4. CASE Upsert
  BY <1>4, AliasWritten, TextRest, UniqueRest, StatementRest
<1>5. CASE Passages
  BY <1>5, AliasRest, TextOfPassages, UniqueRest, StatementRest
<1>6. CASE PdfText
  BY <1>6, AliasRest, TextExtracted, UniquePdfText, StatementRest
<1>7. CASE Extract
  BY <1>7, AliasRest, TextRest, UniqueRest, StatementExtract
<1>8. CASE WriteStatements
  BY <1>8, AliasRest, TextRest, UniqueRest, StatementWritten
<1>9. CASE Crash \/ UNCHANGED vars
  BY <1>9, AliasRest, TextRest, UniqueRest, StatementRest
<1> QED BY <1>1, <1>2, <1>3, <1>4, <1>5, <1>6, <1>7, <1>8, <1>9 DEF LibraryNext, Ordinary

\* The invariant of the index: it has the rows, the aliases, the passages and the statements
\* that the ledgers call for, and papers share no identifier as long as no call has died.
THEOREM IndexInductive == LibrarySpec => [](LibraryInvariant /\ IndexInvariant)
<1>1. LibraryInit => LibraryInvariant /\ IndexInvariant
  <2>1. LibraryInit => Table
    BY DEF LibraryInit, Table
  <2> QED BY <2>1, LibraryInitially, AliasInitially, TextInitially, UniqueInitially,
             StatementInitially DEF IndexInvariant
<1>2. LibraryInvariant /\ IndexInvariant /\ [LibraryNext]_vars => (LibraryInvariant /\ IndexInvariant)'
  BY LibraryStep, IndexStep
<1> QED BY <1>1, <1>2, PTL DEF LibrarySpec

\* As long as no call has died, no two papers share a DOI, an arXiv id, a citation key, a
\* title or a discovered work, however many sources and candidates are imported.
THEOREM OneRecord == LibrarySpec => []OneRecordPerIdentity
<1>1. LibraryInvariant /\ IndexInvariant => OneRecordPerIdentity
  <2> SUFFICES ASSUME LibraryInvariant, IndexInvariant, crashes = 0,
                      NEW p \in PaperIds, NEW q \in PaperIds, p # q
               PROVE  /\ Aliases(LastRow(p)) \cap Aliases(LastRow(q)) = {}
                      /\ LastRow(p).open \cap LastRow(q).open = {}
    BY DEF OneRecordPerIdentity
  <2>1. PICK i \in DOMAIN papers : LastRow(p) = papers[i] /\ papers[i].id = p
    BY PaperRow DEF LibraryInvariant
  <2>2. PICK j \in DOMAIN papers : LastRow(q) = papers[j] /\ papers[j].id = q
    BY PaperRow DEF LibraryInvariant
  <2> QED BY <2>1, <2>2 DEF IndexInvariant, UniqueInv, Unique, Shares
<1> QED BY <1>1, IndexInductive, PTL

\* The index answers a citation key with the last row of the paper it leads to.
LEMMA KeyLeads ==
  ASSUME LibraryInvariant, NEW key, <<"key", key>> \in DOMAIN ixAlias, MirrorsUpTo(Len(papers))
  PROVE  /\ ixAlias[<<"key", key>>] \in PaperIds
         /\ Find(<< <<"key", key>> >>) = LastRow(ixAlias[<<"key", key>>])
<1> DEFINE p == ixAlias[<<"key", key>>]
<1>1. p \in DOMAIN ixPaper /\ p \in PaperIds
  BY DEF LibraryInvariant, IndexFromLedger, PaperIds
<1>2. Find(<< <<"key", key>> >>) = ixPaper[p]
  <2>1. PICK aliases : aliases = << <<"key", key>> >>
    OBVIOUS
  <2>2. DOMAIN aliases = {1} /\ aliases[1] = <<"key", key>>
    BY <2>1
  <2>3. \E i \in DOMAIN aliases : Find(aliases) = ixPaper[ixAlias[aliases[i]]]
    BY <2>2, FindFirst
  <2> QED BY <2>1, <2>2, <2>3
<1>3. PICK i : LastOf(RowsOfPaper(p, Len(papers)), i) /\ ixPaper[p] = papers[i]
  BY <1>1 DEF MirrorsUpTo
<1>4. PICK k : LastOf(RowsOfPaper(p, Len(papers)), k) /\ LastRow(p) = papers[k]
  BY <1>1, PaperRow DEF LibraryInvariant
<1>5. i = k
  <2> HIDE DEF p
  <2>1. DOMAIN papers = 1..Len(papers) /\ Len(papers) \in Nat
    BY DEF LibraryInvariant, Ledger
  <2>2. i \in DOMAIN papers /\ k \in DOMAIN papers /\ i <= k /\ k <= i
    BY <1>3, <1>4 DEF LastOf, RowsOfPaper
  <2> QED BY <2>1, <2>2
<1>6. Find(<< <<"key", key>> >>) = LastRow(p)
  BY <1>2, <1>3, <1>4, <1>5
<1> QED BY <1>1, <1>6

\* Between calls the index has what a rebuild would put there, unless a call has died since
\* the last one: rows, first owners, passages and statements follow every import, extraction
\* and rebuild.
THEOREM IndexMirrors == LibrarySpec => []IndexMirrorsLedger
<1>1. LibraryInvariant /\ IndexInvariant => IndexMirrorsLedger
  <2> SUFFICES ASSUME LibraryInvariant, IndexInvariant, pc = "idle", ~torn
               PROVE  IndexMirrorsLedger
    BY DEF IndexMirrorsLedger
  <2>1. /\ Live /\ Reach = Len(papers) /\ DOMAIN papers = 1..Len(papers)
        /\ MirrorsUpTo(Len(papers))
    BY DEF Live, Reach, LibraryInvariant, Ledger, Mirrored
  <2>2. DOMAIN ixPaper = PaperIds
    BY <2>1 DEF IndexInvariant, AliasInv, PaperIds
  <2>3. \A p \in PaperIds : ixPaper[p] = LastRow(p)
    <3> SUFFICES ASSUME NEW p \in PaperIds PROVE ixPaper[p] = LastRow(p)
      OBVIOUS
    <3>1. PICK i : LastOf(RowsOfPaper(p, Len(papers)), i) /\ ixPaper[p] = papers[i]
      BY <2>1, <2>2 DEF MirrorsUpTo
    <3>2. PICK k : LastOf(RowsOfPaper(p, Len(papers)), k) /\ LastRow(p) = papers[k]
      BY PaperRow DEF LibraryInvariant
    <3>3. i = k
      BY <3>1, <3>2 DEF LastOf, RowsOfPaper, LibraryInvariant, Ledger
    <3> QED BY <3>1, <3>2, <3>3
  <2>4. ixPaper = [p \in PaperIds |-> LastRow(p)]
    BY <2>2, <2>3 DEF IndexInvariant, Table
  <2>5. \A i \in DOMAIN papers : \A a \in Aliases(papers[i]) :
          /\ a \in DOMAIN ixAlias
          /\ \E j \in 1..i : papers[j].id = ixAlias[a] /\ a \in Aliases(papers[j])
                             /\ \A k \in 1..(j - 1) : a \notin Aliases(papers[k])
    BY <2>1 DEF IndexInvariant, AliasInv, AliasedUpTo, FirstNames
  <2>6. ASSUME NEW p \in PaperIds, LastRow(p).text # None,
               \A q \in PaperIds \ {p} : LastRow(q).pdf # LastRow(p).text
        PROVE  p \in DOMAIN ixText /\ ixText[p].src = txt[LastRow(p).text]
    <3>1. PICK k \in DOMAIN papers :
            LastOf(RowsOfPaper(p, Len(papers)), k) /\ LastRow(p) = papers[k] /\ papers[k].id = p
      BY PaperRow DEF LibraryInvariant
    <3>2. ASSUME NEW j \in DOMAIN papers, Newest(j), papers[j].id # p
          PROVE  papers[j].pdf # papers[k].text
      <4>1. papers[j].id \in PaperIds \ {p}
        BY <3>2 DEF PaperIds
      <4>2. PICK l : /\ LastOf(RowsOfPaper(papers[j].id, Len(papers)), l)
                     /\ LastRow(papers[j].id) = papers[l]
        BY <4>1, PaperRow DEF LibraryInvariant
      <4>3. j = l
        BY <3>2, <4>2 DEF Newest, LastOf, RowsOfPaper, LibraryInvariant, Ledger
      <4> QED BY <2>6, <3>1, <4>1, <4>2, <4>3
    <3>3. Covered(k) /\ ~Underway(papers[k].id)
      BY <2>6, <3>1, <3>2 DEF Covered, Newest, Unlike, Underway
    <3> QED BY <3>1, <3>3 DEF IndexInvariant, TextInv, PassagesOf, Replaying
  <2>7. crashes = 0 => Indexed = statements
    BY DEF IndexInvariant, StatementInv, Complete, Replaying
  <2> QED BY <2>4, <2>5, <2>6, <2>7 DEF IndexMirrorsLedger, Indexed
<1> QED BY <1>1, IndexInductive, PTL

\* Two texts whose statements read the same are the same text.
LEMMA CollapsedTellsApart ==
  ASSUME NEW s \in Source \cup {None}, NEW t \in Source, Collapsed(s) = Collapsed(t)
  PROVE  s = t
<1>1. CASE s \in Wrapped /\ t \in Wrapped
  <2>1. <<"one line", s>> = <<"one line", t>>
    BY <1>1 DEF Collapsed
  <2> QED BY <2>1
<1>2. CASE s \in Wrapped /\ t \notin Wrapped
  BY <1>2, WrappedAssumption DEF Collapsed
<1>3. CASE s \notin Wrapped /\ t \in Wrapped
  BY <1>3, WrappedAssumption DEF Collapsed
<1>4. CASE s \notin Wrapped /\ t \notin Wrapped
  BY <1>4 DEF Collapsed
<1> QED BY <1>1, <1>2, <1>3, <1>4

\* What has just been indexed, by an extraction or by a rebuild, is validated if it is from
\* the present text of the paper that its citation key leads to, and is admitted as evidence
\* exactly if no line break had to be taken out of it.
THEOREM CitableUnlessWrappedHolds == LibrarySpec => []CitableUnlessWrapped
<1>1. LibraryInvariant /\ IndexInvariant => CitableUnlessWrapped
  <2> SUFFICES ASSUME LibraryInvariant, IndexInvariant, NEW p \in JustIndexed \cap DOMAIN ixStmt,
                      ixAlias[<<"key", ixStmt[p].key>>] = p, LastRow(p).text # None,
                      Located(txt[LastRow(p).text], ixStmt[p].quote)
               PROVE  /\ ixStmt[p].ok
                      /\ QuoteStatus(Receipt([key |-> ixStmt[p].key, quote |-> ixStmt[p].quote,
                                              source |-> ixStmt[p].sha, validated |-> ixStmt[p].ok]),
                                     Texts) = "observed"
                           <=> txt[LastRow(p).text] \notin Wrapped
    BY DEF CitableUnlessWrapped
  <2> DEFINE key == ixStmt[p].key
             text == LastRow(p).text
             quote == ixStmt[p].quote
  <2>1. \/ pc = "statements" /\ ~torn /\ p = call.row.id
        \/ pc = "replay" /\ cursor > Len(papers)
    BY DEF JustIndexed
  <2>2. /\ MirrorsUpTo(Len(papers)) /\ AliasedUpTo(Len(papers))
        /\ \E i \in DOMAIN papers : papers[i].key = key
    <3>1. CASE pc = "statements" /\ ~torn /\ p = call.row.id
      <4>1. key = call.row.key
        BY <3>1 DEF IndexInvariant, StatementInv, Extracting
      <4>2. \E i \in DOMAIN papers : papers[i].key = key
        BY <3>1, <4>1 DEF LibraryInvariant, Sound, At, InLedger
      <4>3. MirrorsUpTo(Len(papers)) /\ Live /\ Reach = Len(papers)
        BY <3>1 DEF LibraryInvariant, Mirrored, Live, Reach
      <4> QED BY <4>2, <4>3 DEF IndexInvariant, AliasInv
    <3>2. CASE pc = "replay" /\ cursor > Len(papers)
      <4>1. [id |-> p, key |-> key, quote |-> quote] \in statements
        BY <3>2 DEF IndexInvariant, StatementInv, Reindexed, Indexed, Replaying
      <4>2. \E i \in DOMAIN papers : papers[i].key = key
        BY <4>1 DEF IndexInvariant, StatementInv, Grouped, HasRow
      <4>3. cursor - 1 = Len(papers)
        BY <3>2 DEF LibraryInvariant, Mirrored, Ledger
      <4>4. MirrorsUpTo(Len(papers)) /\ Live /\ Reach = Len(papers)
        BY <3>2, <4>3 DEF LibraryInvariant, Mirrored, Live, Reach, Replaying
      <4> QED BY <4>2, <4>4 DEF IndexInvariant, AliasInv
    <3> QED BY <2>1, <3>1, <3>2
  <2>3. <<"key", key>> \in DOMAIN ixAlias
    <3>1. PICK i \in DOMAIN papers : papers[i].key = key
      BY <2>2
    <3>2. papers[i].key # None /\ i \in 1..Len(papers)
      <4>1. papers[i] \in Row
        BY DEF LibraryInvariant, Ledger
      <4> QED BY <4>1, SourceAssumption DEF Row, LibraryInvariant, Ledger
    <3>3. <<"key", key>> \in Aliases(papers[i])
      BY <3>1, <3>2 DEF Aliases
    <3> QED BY <2>2, <3>2, <3>3 DEF AliasedUpTo
  <2>4. p \in PaperIds /\ Find(<< <<"key", key>> >>) = LastRow(p)
    BY <2>2, <2>3, KeyLeads
  <2>5. LastRow(p) \in Row /\ txt[text] # None
    <3>1. PICK k \in DOMAIN papers : LastRow(p) = papers[k]
      BY <2>4, PaperRow DEF LibraryInvariant
    <3> QED BY <3>1 DEF LibraryInvariant, Ledger, AllBacked, Backed
  <2>6. text \in Key /\ LastRow(p) # None
    BY <2>5, NoRowIsNone DEF Row
  <2>7. ixStmt[p].sha = txt[text] /\ ixStmt[p].ok
    <3>1. CASE pc = "statements" /\ ~torn /\ p = call.row.id
      <4>1. PICK src : src = txt[call.row.text]
        OBVIOUS
      <4>2. quote = Collapsed(src) /\ ixStmt[p].sha = src /\ ixStmt[p].ok
        BY <3>1, <4>1 DEF IndexInvariant, StatementInv, Extracting
      <4>3. src \in Source \cup {None} /\ txt[text] \in Source
        <5>1. call.row.text \in Key
          BY <3>1, ExtractedRow DEF Row
        <5> QED BY <4>1, <5>1, <2>5, <2>6 DEF LibraryInvariant, Ledger, Files
      <4>4. PICK t : t = txt[text]
        OBVIOUS
      <4>5. Collapsed(src) = Collapsed(t)
        BY <4>2, <4>4 DEF Located
      <4> QED BY <4>2, <4>3, <4>4, <4>5, CollapsedTellsApart
    <3>2. CASE pc = "replay" /\ cursor > Len(papers)
      <4>1. Checked(key) = txt[text]
        BY <2>4, <2>6 DEF Checked
      <4>2. ixStmt[p].sha = Checked(key) /\ ixStmt[p].ok = Located(ixStmt[p].sha, quote)
        BY <3>2 DEF IndexInvariant, StatementInv, Reindexed, Replaying
      <4> QED BY <4>1, <4>2
    <3> QED BY <2>1, <3>1, <3>2
  <2>8. References(key) = {[path |-> text, sha |-> txt[text]]}
    BY <2>4, <2>6 DEF References
  <2>9. text \in DOMAIN Texts /\ Texts[text] = txt[text]
    BY <2>5, <2>6 DEF Texts
  <2> DEFINE ref == [path |-> text, sha |-> txt[text]]
             receipt == Receipt([key |-> key, quote |-> quote, source |-> ixStmt[p].sha,
                                 validated |-> ixStmt[p].ok])
  <2>10. /\ receipt.validated = ixStmt[p].ok /\ receipt.source = ixStmt[p].sha
         /\ receipt.quote = quote /\ receipt.refs = References(key)
    BY DEF Receipt
  <2>11. ref \in References(key) /\ ref.sha = txt[text] /\ HashIsCurrent(Texts, ref)
         /\ Texts[ref.path] = txt[text] /\ \A x \in References(key) : x = ref
    BY <2>8, <2>9 DEF HashIsCurrent
  <2>12. quote = txt[text] <=> txt[text] \notin Wrapped
    <3>1. quote = Collapsed(txt[text])
      BY DEF Located
    <3>2. CASE txt[text] \in Wrapped
      <4>1. Collapsed(txt[text]) \notin Source /\ txt[text] \in Source
        BY <3>2, WrappedAssumption, SourceAssumption
      <4> QED BY <3>1, <3>2, <4>1
    <3>3. CASE txt[text] \notin Wrapped
      BY <3>1, <3>3 DEF Collapsed
    <3> QED BY <3>2, <3>3
  <2> HIDE DEF ref, receipt
  <2>13. QuoteStatus(receipt, Texts) = "observed" <=> quote = txt[text]
    BY <2>7, <2>10, <2>11 DEF QuoteStatus, Refused
  <2> QED BY <2>7, <2>12, <2>13 DEF receipt
<1> QED BY <1>1, IndexInductive, PTL
=============================================================================
