------------------------- MODULE LiteratureLibrary -------------------------
(***************************************************************************)
(* The literature service (agents/literature.py, literature/index.py,      *)
(* literature/fetchers.py, core/builtins/literature.py): append-only       *)
(* ledgers of papers and candidates, a statement ledger rewritten as a     *)
(* whole, the files of each paper, and the SQLite index built from them.   *)
(*                                                                         *)
(* One call runs at a time: a command of the CLI or an action of the       *)
(* kernel, in a process of its own that may die between any two writes.    *)
(* A step is one write (a file, a ledger row, one SQLite commit) or the    *)
(* decision between two of them.                                           *)
(*                                                                         *)
(* A PDF is named by the source that served it and a text by the PDF it    *)
(* was extracted from; the statements of a text are one group, all on one  *)
(* line each or all over line breaks.  Left out:                           *)
(* metadata.json, authors, years, venues, abstracts and URLs other than    *)
(* OpenAlex ids, full-text search ranking, the optional model extraction,  *)
(* sources served as plain text, and the aliases nothing looks up (hashes, *)
(* OpenAlex ids).  Different texts share no statement.                     *)
(***************************************************************************)
EXTENDS EvidencePolicy, Integers, Sequences

CONSTANTS
  Arxiv, Doi, Url,   \* identifiers of the sources that serve papers
  Key, Title,
  Work,              \* what discovery may report
  TitleOf, KeyOf,    \* source -> the title it reports, the citation key made for it
  Alike,             \* pairs of titles that _titles_match accepts
  Stating,           \* sources whose text has statements
  Wrapped,           \* those whose statements go over line breaks
  Request,           \* the calls a user or an action may make
  MaxImports,        \* candidates one action imports
  MaxCalls, MaxCrashes,
  None

Source == Arxiv \cup Doi \cup Url

ASSUME SourceAssumption ==
  /\ None \notin Source \cup Key \cup Title /\ Arxiv \cap Doi = {}
  /\ TitleOf \in [Source -> Title] /\ KeyOf \in [Source -> Key]
  /\ Stating \subseteq Source
  /\ MaxImports \in Nat /\ MaxCalls \in Nat /\ MaxCrashes \in Nat

\* What re.sub(r"\s+", " ", ...) makes of the statements of a text: on one line they
\* stay as they are.
Collapsed(text) == IF text \in Wrapped THEN <<"one line", text>> ELSE text
Quotes == {Collapsed(s) : s \in Stating}

ASSUME WrappedAssumption ==
  Wrapped \subseteq Stating /\ \A s \in Wrapped : Collapsed(s) \notin Source \cup {None}

ASSUME WorkAssumption ==
  \A w \in Work : /\ w.title \in Title /\ w.doi \in Doi \cup {None}
                  /\ w.arxiv \in Arxiv \cup {None} /\ w.pdf \in Url \cup {None}
                  /\ w.landing \in Url \cup {None} /\ w.open \in BOOLEAN

ASSUME RequestAssumption ==
  \A r \in Request : /\ r.op \in {"idle", "lookup", "read", "query", "queue"}
                     /\ r.src \in Source \cup {None} /\ r.key \in Key \cup {None}
                     /\ r.op = "lookup" => r.src # None
                     /\ r.text \in BOOLEAN /\ r.found \in Seq(Work) /\ r.act \in BOOLEAN

VARIABLES
  papers,      \* papers.jsonl
  candidates,  \* candidates.jsonl
  statements,  \* statements.jsonl: groups [id, key, quote]
  pdf, txt,    \* citation key -> what paper.pdf and paper.txt of its directory hold
  ixPaper,     \* the index: paper id -> row
  ixAlias,     \* alias -> its first owner
  ixText,      \* paper id -> the indexed passages
  ixStmt,      \* paper id -> the indexed statements
  pc, call,    \* the running call
  cursor, todo,\* rebuild: the next ledger row, the groups left
  records,     \* quotes the evidence policy has admitted
  calls, crashes,
  torn         \* a call has died since the index was last rebuilt

index == <<ixPaper, ixAlias, ixText, ixStmt>>
files == <<pdf, txt>>
ledgers == <<papers, candidates, statements>>
scan == <<cursor, todo>>
counts == <<calls, crashes, torn>>
vars == <<ledgers, files, index, pc, call, scan, records, counts>>

-----------------------------------------------------------------------------
(***************************************************************************)
(* Rows, identifiers and the calls                                         *)
(***************************************************************************)
Row == [id : Nat, key : Key, title : Title, doi : Doi \cup {None},
        arxiv : Arxiv \cup {None}, open : SUBSET Work,
        pdf : Key \cup {None}, text : Key \cup {None}]

ASSUME NoRowIsNone == None \notin Row

\* The identifiers of a paper, in the order in which an import asks for them, and those
\* it has.
Identifiers(row) ==
  << <<"doi", row.doi>>, <<"arxiv", row.arxiv>>, <<"key", row.key>>, <<"title", row.title>> >>
Aliases(row) ==
  {alias \in {<<"doi", row.doi>>, <<"arxiv", row.arxiv>>, <<"key", row.key>>,
              <<"title", row.title>>} : alias[2] # None}

PaperIds == {papers[i].id : i \in DOMAIN papers}
FreshId == Cardinality(PaperIds) + 1

\* require_paper: the last row under a citation key.
RowsUnder(key) == {i \in DOMAIN papers : papers[i].key = key}
Latest(key) == papers[CHOOSE i \in RowsUnder(key) : \A j \in RowsUnder(key) : j <= i]

\* require_candidate: the last row of a candidate.
RowsOf(c) == {i \in DOMAIN candidates : candidates[i].cand = c}
Candidate(c) == candidates[CHOOSE i \in RowsOf(c) : \A j \in RowsOf(c) : j <= i]

\* The identity discovery knows a work by, and those a recorded paper answers to.
WorkKey(w) ==
  IF w.open THEN <<"open", w>> ELSE IF w.doi # None THEN <<"doi", w.doi>>
  ELSE IF w.arxiv # None THEN <<"arxiv", w.arxiv>> ELSE <<"title", w.title>>
ImportedKeys ==
  UNION {{<<"open", w>> : w \in papers[i].open}
         \cup {<<"doi", papers[i].doi>>, <<"arxiv", papers[i].arxiv>>,
               <<"title", papers[i].title>>} : i \in DOMAIN papers}

TitlesMatch(expected, title) == <<expected, title>> \in Alike
Expected(title) == call.expect = None \/ TitlesMatch(call.expect, title)

\* op is the stage a call starts at; stage says what the row being written is for.
Blank ==
  [op |-> "idle", src |-> None, doi |-> None, key |-> None, text |-> FALSE,
   title |-> None, expect |-> None, retry |-> FALSE, cand |-> 0, found |-> << >>,
   next |-> << >>, act |-> FALSE, row |-> None, stage |-> "import"]

\* The call returns; an action goes on with the next candidate.
Return ==
  IF call.next = << >>
  THEN pc' = "idle" /\ call' = Blank
  ELSE /\ pc' = "candidate"
       /\ call' = [Blank EXCEPT !.op = "candidate", !.cand = Head(call.next), !.text = TRUE,
                                !.next = Tail(call.next), !.act = TRUE]

\* An exception that is no metadata mismatch: a candidate with a PDF is tried
\* again without its DOI.
Throw ==
  IF call.retry
  THEN pc' = "lookup" /\ call' = [call EXCEPT !.retry = FALSE, !.doi = None, !.stage = "import"]
  ELSE Return

Goto(stage, row) == pc' = stage /\ call' = [call EXCEPT !.row = row]

\* The import has returned row.
Ready(row) ==
  IF call.op = "read" THEN Goto("extract", row)
  ELSE IF call.cand = 0 THEN Return
  ELSE LET work == Candidate(call.cand).work
           open == IF work.open THEN {work} ELSE {}
       IN /\ pc' = "append"
          /\ call' = [call EXCEPT !.stage = "close", !.retry = FALSE,
                                  !.row = [row EXCEPT !.open = @ \cup open]]

\* _extract_text_if_requested
Imported(row) == IF call.text /\ row.pdf # None THEN Goto("pdftext", row) ELSE Ready(row)

-----------------------------------------------------------------------------
(***************************************************************************)
(* The index                                                               *)
(***************************************************************************)
Put(f, x, y) == [z \in DOMAIN f \cup {x} |-> IF z = x THEN y ELSE f[z]]

\* Mutant: the last paper that names an alias takes it over.
ClaimLast(owner, aliases) ==
  ixAlias' = [a \in DOMAIN ixAlias \cup aliases |->
                IF a \in aliases THEN owner ELSE ixAlias[a]]

\* The first owner of an alias keeps it.
Claim(owner, aliases) ==
  ixAlias' = [a \in DOMAIN ixAlias \cup aliases |->
                IF a \in DOMAIN ixAlias THEN ixAlias[a] ELSE owner]

\* The paper that owns the first of the aliases that is known.
Find(aliases) ==
  LET known == {i \in DOMAIN aliases : aliases[i] \in DOMAIN ixAlias}
      first == CHOOSE i \in known : \A j \in known : i <= j
  IN IF known = {} THEN None ELSE ixPaper[ixAlias[aliases[first]]]

\* Mutant: only the citation key is recorded.
UpsertKeyOnly(row) ==
  /\ ixPaper' = Put(ixPaper, row.id, row)
  /\ Claim(row.id, {<<"key", row.key>>})
  /\ UNCHANGED <<ixText, ixStmt>>

UpsertPaper(row) ==
  /\ ixPaper' = Put(ixPaper, row.id, row)
  /\ Claim(row.id, Aliases(row))
  /\ UNCHANGED <<ixText, ixStmt>>

IndexText(row) ==
  /\ ixText' = IF row.text = None \/ txt[row.text] = None THEN ixText
               ELSE Put(ixText, row.id, [key |-> row.key, src |-> txt[row.text]])
  /\ UNCHANGED <<ixPaper, ixAlias, ixStmt>>

\* _validate_or_locate_quote: the span is compared with its white space collapsed.
Located(text, quote) == text # None /\ Collapsed(text) = quote

\* Mutant: the hash of the text is not recorded.
IndexExtractUnhashed(g, text) ==
  /\ ixStmt' = [p \in DOMAIN ixStmt \cup {g.id} |->
                  IF p = g.id
                  THEN [key |-> g.key, quote |-> g.quote, sha |-> None, ok |-> Located(text, g.quote)]
                  ELSE ixStmt[p]]
  /\ UNCHANGED <<ixPaper, ixAlias, ixText>>

\* The statements of group g, checked against a text; the same statement under the
\* same key moves to the paper that was indexed last.
IndexExtract(g, text) ==
  LET kept == {p \in DOMAIN ixStmt \ {g.id} :
                 ~(ixStmt[p].key = g.key /\ ixStmt[p].quote = g.quote)}
      new == IF g.quote \in Quotes THEN {g.id} ELSE {}
  IN /\ ixStmt' = [p \in kept \cup new |->
                     IF p \in new THEN [key |-> g.key, quote |-> g.quote, sha |-> text,
                                        ok |-> Located(text, g.quote)] ELSE ixStmt[p]]
     /\ UNCHANGED <<ixPaper, ixAlias, ixText>>

IndexEmpty == DOMAIN ixPaper = {} /\ DOMAIN ixText = {} /\ DOMAIN ixStmt = {}

\* Constructing the service rebuilds an empty index; rebuild-index always does.
Begin(c) ==
  /\ pc = "idle" /\ calls < MaxCalls
  /\ calls' = calls + 1 /\ call' = c
  /\ pc' = IF c.op = "idle" \/ (IndexEmpty /\ (papers # << >> \/ statements # {}))
           THEN "clear" ELSE c.op
  /\ UNCHANGED <<ledgers, files, index, scan, records, crashes, torn>>

Clear ==
  /\ pc = "clear"
  /\ ixPaper' = << >> /\ ixAlias' = << >> /\ ixText' = << >> /\ ixStmt' = << >>
  /\ cursor' = 1 /\ todo' = statements /\ pc' = "replay"
  /\ UNCHANGED <<ledgers, files, call, records, counts>>

ReplayPaper ==
  /\ pc = "replay" /\ cursor <= Len(papers)
  /\ UpsertPaper(papers[cursor])
  /\ pc' = "replaytext"
  /\ UNCHANGED <<ledgers, files, call, scan, records, counts>>

ReplayText ==
  /\ pc = "replaytext"
  /\ IndexText(papers[cursor])
  /\ cursor' = cursor + 1 /\ pc' = "replay"
  /\ UNCHANGED <<ledgers, files, call, todo, records, counts>>

ReplayStatements ==
  /\ pc = "replay" /\ cursor > Len(papers)
  /\ \E g \in todo :
       LET row == Find(<< <<"key", g.key>> >>)
       IN /\ IndexExtract(g, IF row = None \/ row.text = None THEN None ELSE txt[row.text])
          /\ todo' = todo \ {g}
  /\ UNCHANGED <<ledgers, files, pc, call, cursor, records, counts>>

Rebuilt ==
  /\ pc = "replay" /\ cursor > Len(papers) /\ todo = {}
  /\ torn' = FALSE /\ cursor' = 0
  /\ pc' = call.op /\ UNCHANGED call
  /\ UNCHANGED <<ledgers, files, index, todo, records, calls, crashes>>

-----------------------------------------------------------------------------
(***************************************************************************)
(* Importing a source                                                      *)
(***************************************************************************)
Known ==
  CASE call.src \in Arxiv -> Find(<< <<"arxiv", call.src>> >>)
    [] call.src \in Doi -> Find(<< <<"doi", call.src>> >>)
    [] OTHER -> IF call.doi # None THEN Find(<< <<"doi", call.doi>> >>)
                ELSE IF call.key # None THEN Find(<< <<"key", call.key>> >>) ELSE None

\* The index answers before the network does.
Lookup ==
  /\ pc = "lookup"
  /\ IF Known = None
     THEN pc' = "fetch" /\ UNCHANGED <<call, ixAlias>>
     ELSE IF ~Expected(Known.title) THEN Return /\ UNCHANGED ixAlias
     ELSE /\ Imported(Known)
          /\ Claim(Known.id, IF call.key = None THEN {} ELSE {<<"key", call.key>>})
  /\ UNCHANGED <<ledgers, files, ixPaper, ixText, ixStmt, scan, records, counts>>

\* What the fetcher reports: a URL with a DOI is imported through the DOI, an
\* arXiv candidate and a URL keep the title they were asked for with.
Named == IF call.src \in Url /\ call.doi # None THEN call.doi ELSE call.src
Reported ==
  LET key == IF call.key = None THEN KeyOf[Named] ELSE call.key
      asked == call.title # None /\ Named \notin Doi
  IN [id |-> 0, key |-> key, title |-> IF asked THEN call.title ELSE TitleOf[Named],
      doi |-> IF Named \in Doi THEN Named ELSE None,
      arxiv |-> IF Named \in Arxiv THEN Named ELSE None,
      open |-> {}, pdf |-> None, text |-> None]

\* The PDF that may be served: an arXiv paper has one; a DOI may come without, or
\* leave it to the page it was found at; a URL may serve a page.
ArxivServes(id) == {id}
DoiServes(doi, url) == {None, doi, url}
UrlServes(url) == {None, url}
Served ==
  CASE Named \in Arxiv -> ArxivServes(Named)
    [] Named \in Doi -> DoiServes(Named, call.src)
    [] OTHER -> UrlServes(Named)

\* Metadata that does not match is refused before anything is written, except
\* behind a URL, where the files are written first.
Fetch ==
  /\ pc = "fetch"
  /\ \E content \in Served :
       LET row == [Reported EXCEPT !.pdf = IF content = None THEN None ELSE Reported.key]
       IN IF ~Expected(row.title) /\ call.src \notin Url
          THEN Return /\ UNCHANGED pdf
          ELSE /\ pdf' = IF content = None THEN pdf ELSE [pdf EXCEPT ![row.key] = content]
               /\ IF Expected(row.title) THEN Goto("register", row) ELSE Return
  /\ UNCHANGED <<ledgers, txt, index, scan, records, counts>>

FetchFails ==
  /\ pc = "fetch"
  /\ Throw
  /\ UNCHANGED <<ledgers, files, index, scan, records, counts>>

\* A field that is there stays.
Fill(old, new) == IF old = None THEN new ELSE old

\* Mutant: what was imported last wins.
MergeNewer(old, new) ==
  [old EXCEPT !.doi = Fill(new.doi, @), !.arxiv = Fill(new.arxiv, @),
              !.pdf = new.pdf, !.text = new.text]

\* Mutant: the text is recorded before it has been extracted.
MergeTextEarly(old, new) ==
  [old EXCEPT !.doi = Fill(@, new.doi), !.arxiv = Fill(@, new.arxiv),
              !.pdf = Fill(@, new.pdf), !.text = Fill(@, new.pdf)]

\* _merge_duplicate_paper_metadata: only what is missing is filled in.
Merge(old, new) ==
  [old EXCEPT !.doi = Fill(@, new.doi), !.arxiv = Fill(@, new.arxiv),
              !.pdf = Fill(@, new.pdf), !.text = Fill(@, new.text)]

\* _find_existing_paper_for_metadata
Existing(row) == Find(Identifiers(row))

\* import_paper: a new paper, or more about one the index knows.  A merged row that
\* looks the same here may differ in what the model leaves out.
Register ==
  /\ pc = "register"
  /\ LET old == Existing(call.row)
     IN IF old = None
        THEN Goto("append", [call.row EXCEPT !.id = FreshId]) /\ UNCHANGED ixAlias
        ELSE /\ Claim(old.id, {<<"key", call.row.key>>})
             /\ \/ Goto("append", Merge(old, call.row))
                \/ Merge(old, call.row) = old /\ Imported(old)
  /\ UNCHANGED <<ledgers, files, ixPaper, ixText, ixStmt, scan, records, counts>>

\* Mutant: the index is written first.
AppendLater ==
  /\ pc = "append"
  /\ pc' = "upsert"
  /\ UNCHANGED <<ledgers, files, index, call, scan, records, counts>>

\* The ledger first, then the index.
AppendPaper ==
  /\ pc = "append"
  /\ papers' = Append(papers, call.row)
  /\ pc' = "upsert"
  /\ UNCHANGED <<candidates, statements, files, index, call, scan, records, counts>>

Upsert ==
  /\ pc = "upsert"
  /\ UpsertPaper(call.row)
  /\ pc' = "passages"
  /\ UNCHANGED <<ledgers, files, call, scan, records, counts>>

Passages ==
  /\ pc = "passages"
  /\ IndexText(call.row)
  /\ CASE call.stage = "import" -> Imported(call.row)
       [] call.stage = "text" -> Ready(Latest(call.row.key))
       [] call.stage = "close" -> pc' = "close" /\ UNCHANGED call
  /\ UNCHANGED <<ledgers, files, scan, records, counts>>

\* extract_pdf_text, for the paper the ledger has under the key.
PdfText ==
  /\ pc = "pdftext"
  /\ LET paper == Latest(call.row.key)
     IN /\ paper.pdf # None
        /\ txt' = [txt EXCEPT ![paper.pdf] = pdf[paper.pdf]]
        /\ pc' = "append"
        /\ call' = [call EXCEPT !.row = [paper EXCEPT !.text = paper.pdf], !.stage = "text"]
  /\ UNCHANGED <<ledgers, pdf, index, scan, records, counts>>

PdfTextFails ==
  /\ pc = "pdftext"
  /\ Throw
  /\ UNCHANGED <<ledgers, files, index, scan, records, counts>>

-----------------------------------------------------------------------------
(***************************************************************************)
(* Candidates                                                              *)
(***************************************************************************)
\* _queue_candidates, one row at a time; an action imports the first of them.
Queue ==
  /\ pc = "queue" /\ call.found # << >>
  /\ LET w == Head(call.found)
         id == Cardinality({candidates[i].cand : i \in DOMAIN candidates}) + 1
         seen == ImportedKeys \cup {WorkKey(candidates[i].work) : i \in DOMAIN candidates}
     IN /\ candidates' = Append(candidates,
             [cand |-> id, work |-> w, paper |-> 0,
              status |-> IF WorkKey(w) \in seen THEN "duplicate" ELSE "queued"])
        /\ call' = [call EXCEPT !.found = Tail(@),
                      !.next = IF call.act /\ Len(@) < MaxImports THEN Append(@, id) ELSE @]
  /\ UNCHANGED <<papers, statements, files, index, pc, scan, records, counts>>

Queued ==
  /\ pc = "queue" /\ call.found = << >>
  /\ Return
  /\ UNCHANGED <<ledgers, files, index, scan, records, counts>>

\* import_candidate: arXiv, then the PDF, the DOI and the landing page.
ImportCandidate ==
  /\ pc = "candidate"
  /\ LET c == Candidate(call.cand)
         w == c.work
         Take(stage, src, doi) ==
           /\ pc' = stage /\ UNCHANGED candidates
           /\ call' = [call EXCEPT !.src = src, !.doi = doi, !.title = w.title,
                         !.expect = w.title, !.retry = doi # None, !.stage = "import"]
     IN IF c.status = "duplicate" THEN Return /\ UNCHANGED candidates
        ELSE IF WorkKey(w) \in ImportedKeys
        THEN /\ candidates' = Append(candidates, [c EXCEPT !.status = "duplicate"])
             /\ Return
        ELSE IF w.arxiv # None THEN Take("fetch", w.arxiv, None)
        ELSE IF w.pdf # None THEN Take("lookup", w.pdf, w.doi)
        ELSE IF w.doi # None THEN Take("lookup", w.doi, None)
        ELSE IF w.landing # None THEN Take("lookup", w.landing, None)
        ELSE Return /\ UNCHANGED candidates
  /\ UNCHANGED <<papers, statements, files, index, scan, records, counts>>

\* The candidate is marked imported; the action extracts what has a text.
CloseCandidate ==
  /\ pc = "close"
  /\ candidates' = Append(candidates, [Candidate(call.cand) EXCEPT !.status = "imported",
                                                                   !.paper = call.row.id])
  /\ IF call.act /\ call.row.text # None
     THEN /\ pc' = "read"
          /\ call' = [call EXCEPT !.op = "read", !.key = call.row.key]
     ELSE Return
  /\ UNCHANGED <<papers, statements, files, index, scan, records, counts>>

-----------------------------------------------------------------------------
(***************************************************************************)
(* Statements and quotes                                                   *)
(***************************************************************************)
Read ==
  /\ pc = "read"
  /\ IF RowsUnder(call.key) = {} THEN Return
     ELSE LET paper == Latest(call.key)
          IN IF paper.text # None THEN Goto("extract", paper)
             ELSE IF paper.pdf # None THEN Goto("pdftext", paper) ELSE Return
  /\ UNCHANGED <<ledgers, files, index, scan, records, counts>>

\* Every statement is cut out of the text and put on one line (_iter_statement_matches).
Group(row) == [id |-> row.id, key |-> row.key, quote |-> Collapsed(txt[row.text])]

\* The statements found in the text of a paper.
Found(row) == {g \in {Group(row)} : g.quote \in Quotes}

\* The index first, then the ledger.
Extract ==
  /\ pc = "extract"
  /\ IndexExtract(Group(call.row), txt[call.row.text])
  /\ pc' = "statements"
  /\ UNCHANGED <<ledgers, files, call, scan, records, counts>>

\* _append_flat_statement_rows replaces the rows of the paper and of its key.
Retained(row) == {g \in statements : g.id # row.id /\ g.key # row.key}

WriteStatements ==
  /\ pc = "statements"
  /\ statements' = Retained(call.row) \cup Found(call.row)
  /\ Return
  /\ UNCHANGED <<papers, candidates, files, index, scan, records, counts>>

\* What a local query finds, each with a fresh reference to the text of the paper
\* its key leads to.  A passage is indexed as it stands and checked against that text
\* again.
Results ==
  {[key |-> ixStmt[p].key, quote |-> ixStmt[p].quote, source |-> ixStmt[p].sha,
    validated |-> ixStmt[p].ok] : p \in DOMAIN ixStmt}
  \cup {LET row == Find(<< <<"key", ixText[p].key>> >>)
        IN [key |-> ixText[p].key, quote |-> ixText[p].src, source |-> ixText[p].src,
            validated |-> row # None /\ row.text # None /\ txt[row.text] = ixText[p].src]
        : p \in DOMAIN ixText}

References(key) ==
  LET row == Find(<< <<"key", key>> >>)
  IN IF row = None \/ row.text = None THEN {} ELSE {[path |-> row.text, sha |-> txt[row.text]]}

Texts == [k \in {k \in Key : txt[k] # None} |-> txt[k]]

Receipt(result) ==
  [key |-> result.key, quote |-> result.quote, source |-> result.source,
   validated |-> result.validated, refs |-> References(result.key)]

\* query_local and the admission of its records.
Query ==
  /\ pc = "query"
  /\ LET admitted == {r \in Results :
                        QuoteStatus(Receipt(r), Texts) # Refused}
         known == {QuoteIdentity(r) : r \in records}
     IN records' = records \cup
          {[key |-> r.key, quote |-> r.quote, source |-> r.source] :
           r \in {x \in admitted : QuoteIdentity(x) \notin known}}
  /\ Return
  /\ UNCHANGED <<ledgers, files, index, scan, counts>>

-----------------------------------------------------------------------------
Crash ==
  /\ pc # "idle" /\ crashes < MaxCrashes
  /\ crashes' = crashes + 1 /\ torn' = TRUE
  /\ pc' = "idle" /\ call' = Blank /\ cursor' = 0 /\ todo' = {}
  /\ UNCHANGED <<ledgers, files, index, records, calls>>

LibraryInit ==
  /\ papers = << >> /\ candidates = << >> /\ statements = {}
  /\ pdf = [k \in Key |-> None] /\ txt = [k \in Key |-> None]
  /\ ixPaper = << >> /\ ixAlias = << >> /\ ixText = << >> /\ ixStmt = << >>
  /\ pc = "idle" /\ call = Blank /\ cursor = 0 /\ todo = {}
  /\ records = {} /\ calls = 0 /\ crashes = 0 /\ torn = FALSE

Start == \E r \in Request : Begin([Blank EXCEPT !.op = r.op, !.src = r.src, !.key = r.key,
                                     !.text = r.text, !.found = r.found, !.act = r.act])
StartCandidate ==
  \E i \in DOMAIN candidates :
    Begin([Blank EXCEPT !.op = "candidate", !.cand = candidates[i].cand, !.text = TRUE])

LibraryNext ==
  \/ Start \/ StartCandidate \/ Crash
  \/ Clear \/ ReplayPaper \/ ReplayText \/ ReplayStatements \/ Rebuilt
  \/ Lookup \/ Fetch \/ FetchFails \/ Register \/ AppendPaper \/ Upsert \/ Passages
  \/ PdfText \/ PdfTextFails
  \/ Queue \/ Queued \/ ImportCandidate \/ CloseCandidate
  \/ Read \/ Extract \/ WriteStatements \/ Query

LibrarySpec == LibraryInit /\ [][LibraryNext]_vars

-----------------------------------------------------------------------------
(***************************************************************************)
(* Properties                                                              *)
(***************************************************************************)
\* Every variable has its type.
LibraryTypeOK ==
  /\ papers \in Seq(Row)
  /\ \A i \in DOMAIN candidates :
       candidates[i].work \in Work /\ candidates[i].status \in {"queued", "imported", "duplicate"}
  /\ \A g \in statements : g.id \in PaperIds /\ g.key \in Key /\ g.quote \in Quotes
  /\ pdf \in [Key -> Source \cup {None}] /\ txt \in [Key -> Source \cup {None}]
  /\ \A i \in DOMAIN papers :
       /\ papers[i].pdf # None => pdf[papers[i].pdf] # None
       /\ papers[i].text # None => txt[papers[i].text] # None
  /\ DOMAIN ixPaper \subseteq PaperIds
  /\ \A a \in DOMAIN ixAlias : ixAlias[a] \in DOMAIN ixPaper
  /\ call.row # None => call.row \in Row

LastRow(p) ==
  LET rows == {i \in DOMAIN papers : papers[i].id = p}
  IN papers[CHOOSE i \in rows : \A j \in rows : j <= i]

\* As long as no call has died, no two papers share a DOI, an arXiv id, a citation
\* key, a title or a discovered work (import_paper: duplicates resolve to one paper).
OneRecordPerIdentity ==
  crashes = 0 =>
    \A p, q \in PaperIds : p # q =>
      /\ Aliases(LastRow(p)) \cap Aliases(LastRow(q)) = {}
      /\ LastRow(p).open \cap LastRow(q).open = {}

\* Between calls, and unless one has died since the last rebuild, the index has what
\* a rebuild would put there: the last row of every paper, the first owner of every
\* recorded identifier, the passages of every text that one paper has, and the
\* statements.  (A rebuild forgets the citation keys of merged papers, so a later
\* import may share the files of one.)
IndexMirrorsLedger ==
  pc = "idle" /\ ~torn =>
    /\ ixPaper = [p \in PaperIds |-> LastRow(p)]
    /\ \A i \in DOMAIN papers : \A a \in Aliases(papers[i]) :
         /\ a \in DOMAIN ixAlias
         /\ \E j \in 1..i : papers[j].id = ixAlias[a] /\ a \in Aliases(papers[j])
                            /\ \A k \in 1..(j - 1) : a \notin Aliases(papers[k])
    /\ \A p \in PaperIds :
         LastRow(p).text # None /\ (\A q \in PaperIds \ {p} : LastRow(q).pdf # LastRow(p).text)
           => p \in DOMAIN ixText /\ ixText[p].src = txt[LastRow(p).text]
    /\ crashes = 0 =>
         {[id |-> p, key |-> ixStmt[p].key, quote |-> ixStmt[p].quote] : p \in DOMAIN ixStmt}
           = statements

\* Unless a call has died since the last rebuild, a paper never loses the identifiers
\* or the files its last row names (_merge_duplicate_paper_metadata).
NothingForgotten ==
  [][~torn => \A p \in PaperIds :
       LET old == LastRow(p)
           new == LastRow(p)'
       IN \A f \in {"doi", "arxiv", "pdf", "text"} : old[f] # None => new[f] = old[f]]_vars

\* The papers whose statements have just been indexed, by an extraction or by a rebuild.
JustIndexed ==
  CASE pc = "statements" /\ ~torn -> {call.row.id}
    [] pc = "replay" /\ cursor > Len(papers) -> DOMAIN ixStmt
    [] OTHER -> {}

\* What is indexed by an extraction, unless a call has died since the last rebuild, or
\* by a rebuild is validated if it is from the present text of the paper its citation
\* key leads to, and its hash, its alias and its text then satisfy the evidence policy -
\* but for statements over a line break, which stay validated and are always refused:
\* index.py:665 compares with white space collapsed, policy.py:119 without.
CitableUnlessWrapped ==
  \A p \in JustIndexed \cap DOMAIN ixStmt :
    LET text == LastRow(p).text
        result == [key |-> ixStmt[p].key, quote |-> ixStmt[p].quote, source |-> ixStmt[p].sha,
                   validated |-> ixStmt[p].ok]
    IN ixAlias[<<"key", ixStmt[p].key>>] = p /\ text # None /\ Located(txt[text], ixStmt[p].quote)
         => /\ result.validated
            /\ QuoteStatus(Receipt(result), Texts) = "observed" <=> txt[text] \notin Wrapped

\* The papers ledger is never behind the index, whenever a call dies: what the index
\* answers with is a row of the ledger, and its aliases lead to recorded papers.
IndexFromLedger ==
  /\ \A p \in DOMAIN ixPaper : \E i \in DOMAIN papers : papers[i] = ixPaper[p] /\ papers[i].id = p
  /\ \A a \in DOMAIN ixAlias : ixAlias[a] \in DOMAIN ixPaper

\* Violated.  "An exact quote means 'this source says these words'" (README.md:99): the
\* text a quote is from is that of the source whose identifiers its paper has.
QuoteOfItsSource ==
  \A r \in records : \A i \in DOMAIN papers :
    papers[i].key = r.key =>
      /\ r.quote \in Doi => papers[i].doi = r.quote
      /\ r.quote \in Arxiv => papers[i].arxiv = r.quote
=============================================================================
