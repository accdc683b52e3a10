-------------------------- MODULE ProofAttemptProofs --------------------------
(***************************************************************************)
(* Proofs about ProofAttempt, for every value of its constants.            *)
(***************************************************************************)
EXTENDS ProofAttempt, TLAPS, FiniteSetTheorems, SequenceTheorems

-----------------------------------------------------------------------------
(***************************************************************************)
(* What is known where                                                     *)
(***************************************************************************)
Goods == {"chosen", "formal", "candidate", "plan", "review"}
Bads == {"failed", "direct", "blueprints", "over"}
Escapes == {"failed", "over"}
Afters == {"register", "verdict", "assembled"}
Asking == {"deterministic", "direct", "sketch"}
Labels == Goods \cup Bads \cup Afters
          \cup {"idle", "ask", "lean", "fingerprint", "tactics", "commit", "unproved"}

Bound == MaxDirect + MaxBlueprints + Len(Portfolio)

Frame ==
  [by : {None, "action", "command"}, env : BOOLEAN, tries : 0..Bound, revs : 0..MaxRevisions,
   mode : Asking \cup {None, "statement", "final"}, body : Body \cup {None},
   repair : BOOLEAN, good : Goods \cup {"idle"}, bad : Bads \cup {"idle"}, escape : Escapes,
   after : Afters \cup {"idle"}, verdict : {None, "accepted", "rejected", "unavailable"}]

\* The attempts a mode allows.
Limit(mode) ==
  IF mode = "deterministic" THEN Len(Portfolio)
  ELSE IF mode = "direct" THEN MaxDirect ELSE MaxBlueprints

\* What holds of a frame that control takes to a label.
At(l, fr) ==
  /\ l = "tactics" => fr.tries <= Len(Portfolio)
  /\ l \in {"direct", "formal"} => fr.tries <= MaxDirect
  /\ l = "formal" => fr.mode = "direct"
  /\ l \in {"blueprints", "plan", "review"} => fr.tries <= MaxBlueprints
  /\ l = "candidate" => fr.mode \in {"direct", "sketch"} /\ fr.tries <= Limit(fr.mode)
  /\ l = "verdict" => /\ fr.mode \in Asking /\ fr.body \in Body /\ fr.tries <= Limit(fr.mode)
                      /\ fr.verdict = "accepted" => fr.body \in Sound
  /\ l \in {"review", "commit"} => fr.body \in Sound

AskOK(fr) == fr.good \in Goods /\ fr.bad \in Bads /\ At(fr.good, fr) /\ At(fr.bad, fr)

LeanOK(fr) ==
  \/ fr.after = "register" /\ fr.mode = "statement"
  \/ fr.after = "assembled" /\ fr.mode = "final"
  \/ /\ fr.after = "verdict" /\ fr.mode \in Asking /\ fr.body \in Body
     /\ fr.tries <= Limit(fr.mode)

Control(l, fr) ==
  /\ l \in Labels /\ fr \in Frame /\ At(l, fr)
  /\ l = "ask" => AskOK(fr)
  /\ l = "lean" => LeanOK(fr)

Rows == [env : BOOLEAN, mode : {"deterministic", "direct", "sketch", "blueprint"},
         body : Body \cup Plan]

\* The graph and the artifacts hold sound proofs only.
Kept ==
  /\ rows \subseteq Rows
  /\ proof \in [BOOLEAN -> Sound \cup {None}] /\ final \in Sound \cup {None}
  /\ records \subseteq Sound
  /\ pc = "assembled" \/ (pc = "lean" /\ f.after = "assembled") => final \in Sound

\* What was sent and what is left make up the budget of the step.
Budget ==
  IF pc = "idle" THEN left = None /\ posted = 0
  ELSE left \in Nat /\ posted \in Nat /\ posted + left <= MaxCalls

\* What Lean has been asked and nobody will know: no row, and no row on its way.
OnItsWay == IF pc = "verdict" THEN {Row(f.mode, f.body)} ELSE {}
Lost == compiled \ (rows \cup OnItsWay)

\* Every lost answer is the work of a crash, and asking again finds it.
Asked ==
  /\ IsFiniteSet(compiled) /\ again \in Nat /\ crashes \in Nat
  /\ again + Cardinality(Lost) <= crashes
  /\ pc = "lean" /\ f.after = "verdict" => Row(f.mode, f.body) \notin rows

\* Without faults the manifest is always there when the environment is read.
OneManifest ==
  /\ faults \in Nat /\ manifest \in BOOLEAN
  /\ faults = 0 => /\ environments \subseteq {TRUE}
                   /\ pc = "register" \/ (pc = "lean" /\ f.after = "register") => f.env

AttemptInv == Control(pc, f) /\ Kept /\ Budget /\ Asked /\ OneManifest

USE AttemptAssumption

-----------------------------------------------------------------------------
(***************************************************************************)
(* Control                                                                 *)
(***************************************************************************)
LEMMA Sizes ==
  /\ MaxDirect \in Nat /\ MaxRevisions \in Nat /\ MaxBlueprints \in Nat /\ MaxCalls \in Nat
  /\ Len(Portfolio) \in Nat
  /\ Bound \in Nat /\ MaxDirect <= Bound /\ MaxBlueprints <= Bound /\ Len(Portfolio) <= Bound
  /\ \A i \in 1..Len(Portfolio) : Portfolio[i] \in Body
<1>1. /\ MaxDirect \in Nat /\ MaxRevisions \in Nat /\ MaxBlueprints \in Nat /\ MaxCalls \in Nat
      /\ Len(Portfolio) \in Nat
      /\ \A i \in 1..Len(Portfolio) : Portfolio[i] \in Body
  OBVIOUS
<1> QED
  BY <1>1 DEF Bound

\* A frame that differs in nothing At looks at.
LEMMA AtSame ==
  ASSUME NEW l, NEW fr, NEW g, At(l, fr),
         g.tries = fr.tries, g.mode = fr.mode, g.body = fr.body, g.verdict = fr.verdict
  PROVE  At(l, g)
BY DEF At

LEMMA RequestControl ==
  ASSUME NEW fr \in Frame, NEW repair \in BOOLEAN, NEW good \in Goods, NEW bad \in Bads,
         At(good, fr), At(bad, fr), Request(fr, repair, good, bad)
  PROVE  Control(pc', f')
<1> DEFINE g == [fr EXCEPT !.repair = repair, !.good = good, !.bad = bad]
<1>1. pc' = "ask" /\ f' = g
  BY DEF Request, GoWith
<1>2. g \in Frame /\ g.good = good /\ g.bad = bad /\ g.tries = fr.tries /\ g.mode = fr.mode
      /\ g.body = fr.body /\ g.verdict = fr.verdict
  BY DEF Frame
<1>3. At(good, g) /\ At(bad, g)
  BY <1>2, AtSame
<1>4. Control("ask", g)
  BY <1>2, <1>3 DEF Control, AskOK, At, Labels
<1> QED
  BY <1>1, <1>4

\* A check of a candidate.
LEMMA CheckControl ==
  ASSUME NEW fr \in Frame, NEW mode \in Asking, NEW body \in Body, fr.tries <= Limit(mode),
         Check(fr, mode, body, "verdict")
  PROVE  Control(pc', f')
<1> DEFINE g == [fr EXCEPT !.mode = mode, !.body = body, !.after = "verdict"]
<1>1. pc' = "lean" /\ f' = g
  BY DEF Check, GoWith
<1>2. g \in Frame /\ g.tries = fr.tries /\ g.mode = mode /\ g.body = body /\ g.after = "verdict"
  BY DEF Frame, Afters
<1>3. Control("lean", g)
  BY <1>2 DEF Control, LeanOK, At, Labels
<1> QED
  BY <1>1, <1>3

\* The answer of Lean.
LEMMA VerdictControl ==
  ASSUME Control(pc, f), pc = "lean", NEW v \in {"accepted", "rejected", "unavailable"},
         Verdict(v), v = "accepted" /\ f.after = "verdict" => f.body \in Sound
  PROVE  Control(pc', f')
<1> DEFINE g == [f EXCEPT !.verdict = v]
<1>1. pc' = f.after /\ f' = g
  BY DEF Verdict, GoWith
<1>2. f \in Frame /\ LeanOK(f)
  BY DEF Control
<1>3. g \in Frame /\ g.tries = f.tries /\ g.mode = f.mode /\ g.body = f.body /\ g.verdict = v
  BY <1>2 DEF Frame
<1>4. Control(f.after, g)
  BY <1>2, <1>3 DEF Control, LeanOK, At, Labels, Goods, Bads, Afters
<1> QED
  BY <1>1, <1>4

\* A step to a label with the frame as it is.
LEMMA GoControl ==
  ASSUME Control(pc, f), NEW l \in Labels \ {"ask", "lean"}, Go(l), At(l, f)
  PROVE  Control(pc', f')
BY DEF Control, Go

LEMMA ReviseControl ==
  ASSUME Control(pc, f), NEW bad \in Bads, Revise(bad),
         f.mode \in Asking \ {"deterministic"}, f.tries <= Limit(f.mode), At(bad, f)
  PROVE  Control(pc', f')
<1>1. f \in Frame
  BY DEF Control
<1>2. CASE f.revs = MaxRevisions
  <2>1. Go(NextTry)
    BY <1>2 DEF Revise
  <2>2. NextTry \in {"blueprints", "direct"} /\ At(NextTry, f)
    BY DEF NextTry, At, Asking, Limit
  <2> QED
    BY <2>1, <2>2, GoControl DEF Labels, Bads
<1>3. CASE f.revs # MaxRevisions
  <2> DEFINE g == [f EXCEPT !.revs = @ + 1]
  <2>1. Request(g, FALSE, "candidate", bad)
    BY <1>3 DEF Revise
  <2>2. f.revs + 1 \in 0..MaxRevisions
    BY <1>1, <1>3, Sizes DEF Frame
  <2>3. g \in Frame /\ g.tries = f.tries /\ g.mode = f.mode /\ g.body = f.body
        /\ g.verdict = f.verdict
    BY <1>1, <2>2 DEF Frame
  <2>4. At("candidate", g)
    BY <2>3 DEF At, Asking
  <2>5. At(bad, g)
    BY <2>3, AtSame
  <2> HIDE DEF g
  <2> QED
    BY <2>1, <2>3, <2>4, <2>5, RequestControl DEF Goods
<1> QED
  BY <1>2, <1>3

LEMMA BlankFrame ==
  /\ Blank \in Frame
  /\ Control("idle", Blank)
  /\ \A l, by : [Blank EXCEPT !.by = by].tries = 0
<1>1. Blank \in Frame
  BY Sizes DEF Blank, Frame, Escapes
<1> QED
  BY <1>1 DEF Blank, Control, At, Labels

\* An invocation begins, chooses a goal, ends or dies.
LEMMA InvocationControl ==
  ASSUME Control(pc, f), Begin \/ Choose \/ Crash \/ Fail \/ Finish
  PROVE  Control(pc', f')
<1>1. CASE Begin
  <2> DEFINE g(by) == [Blank EXCEPT !.by = by]
  <2>1. \A by \in {"action", "command"} : g(by) \in Frame
    BY BlankFrame DEF Frame
  <2>2. CASE Request(g("action"), TRUE, "chosen", "failed")
    <3>1. At("chosen", g("action")) /\ At("failed", g("action"))
      BY DEF At
    <3> HIDE DEF g
    <3> QED
      BY <2>1, <2>2, <3>1, RequestControl DEF Goods, Bads
  <2>3. CASE GoWith("fingerprint", g("command"))
    <3>1. Control("fingerprint", g("command"))
      BY <2>1 DEF Control, At, Labels
    <3> QED
      BY <2>3, <3>1 DEF GoWith
  <2> QED
    BY <1>1, <2>2, <2>3 DEF Begin
<1>2. CASE Choose
  <2>1. CASE Return
    BY <2>1, BlankFrame DEF Return, GoWith
  <2>2. CASE Go("fingerprint")
    BY <2>2, GoControl DEF At, Labels
  <2> QED
    BY <1>2, <2>1, <2>2 DEF Choose
<1>3. CASE Crash \/ Fail \/ Finish
  BY <1>3, BlankFrame DEF Crash, Fail, Finish, Return, GoWith
<1> QED
  BY <1>1, <1>2, <1>3

LEMMA AskControl ==
  ASSUME Control(pc, f), Ask
  PROVE  Control(pc', f')
<1>1. pc = "ask" /\ f \in Frame /\ AskOK(f)
  BY DEF Ask, Control
<1>2. CASE Go(f.escape)
  BY <1>1, <1>2 DEF Go, Control, Frame, Escapes, At, Labels, Bads
<1>3. CASE Go(f.good)
  BY <1>1, <1>3 DEF Go, Control, AskOK, Goods, Labels
<1>4. CASE Go(f.bad)
  BY <1>1, <1>4 DEF Go, Control, AskOK, Bads, Labels
<1>5. CASE GoWith("ask", [f EXCEPT !.repair = FALSE])
  <2> DEFINE g == [f EXCEPT !.repair = FALSE]
  <2>1. g \in Frame /\ g.good = f.good /\ g.bad = f.bad /\ g.tries = f.tries
        /\ g.mode = f.mode /\ g.body = f.body /\ g.verdict = f.verdict
    BY <1>1 DEF Frame
  <2>2. AskOK(g)
    BY <1>1, <2>1, AtSame DEF AskOK
  <2>3. Control("ask", g)
    BY <2>1, <2>2 DEF Control, At, Labels
  <2> QED
    BY <1>5, <2>3 DEF GoWith
<1> QED
  BY <1>2, <1>3, <1>4, <1>5 DEF Ask

\* What Lean accepts is sound.
LEMMA LeanControl ==
  ASSUME Control(pc, f), manifest \in BOOLEAN,
         Refuse \/ Compile \/ LeanFails \/ Fingerprint
  PROVE  Control(pc', f')
<1>1. CASE Refuse
  BY <1>1, VerdictControl DEF Refuse
<1>2. CASE Compile
  <2>1. pc = "lean" /\ (f.after = "verdict" => f.mode # "statement")
    BY <1>2 DEF Compile, Control, LeanOK, Asking
  <2> QED
    BY <1>2, <2>1, VerdictControl DEF Compile, Accepts
<1>3. CASE LeanFails
  <2>1. PICK v \in {"rejected", "unavailable"} : Verdict(v)
    BY <1>3 DEF LeanFails
  <2> QED
    BY <1>3, <2>1, VerdictControl DEF LeanFails
<1>4. CASE Fingerprint
  <2> DEFINE g == [f EXCEPT !.env = manifest', !.mode = "statement", !.body = None,
                            !.after = "register"]
  <2>1. pc' = "lean" /\ f' = g
    BY <1>4 DEF Fingerprint, GoWith
  <2>2. manifest' \in BOOLEAN
    BY <1>4 DEF Fingerprint
  <2>3. f \in Frame
    BY DEF Control
  <2>4. g \in Frame /\ g.mode = "statement" /\ g.after = "register"
    BY <2>2, <2>3 DEF Frame, Afters
  <2>5. Control("lean", g)
    BY <2>4 DEF Control, LeanOK, At, Labels
  <2> QED
    BY <2>1, <2>5
<1> QED
  BY <1>1, <1>2, <1>3, <1>4

\* A frame that starts a new kind of attempt.
LEMMA ResetControl ==
  ASSUME Control(pc, f), NEW l \in {"direct", "blueprints"}, GoWith(l, [f EXCEPT !.tries = 0])
  PROVE  Control(pc', f')
<1> DEFINE g == [f EXCEPT !.tries = 0]
<1>0. f \in Frame /\ 0 \in 0..Bound
  BY Sizes DEF Control
<1>1. g \in Frame /\ g.tries = 0
  BY <1>0 DEF Frame
<1>2. Control(l, g)
  BY <1>1, Sizes DEF Control, At, Labels, Bads
<1>3. pc' = l /\ f' = g
  BY DEF GoWith
<1> HIDE DEF g
<1> QED
  BY <1>2, <1>3

LEMMA RegisterControl ==
  ASSUME Control(pc, f), Register
  PROVE  Control(pc', f')
<1>1. CASE Go("unproved")
  BY <1>1, GoControl DEF At, Labels
<1>2. CASE Go("over")
  BY <1>2, GoControl DEF At, Labels, Bads
<1>3. CASE GoWith("tactics", [f EXCEPT !.escape = "over", !.tries = 0])
  <2> DEFINE g == [f EXCEPT !.escape = "over", !.tries = 0]
  <2>0. f \in Frame /\ 0 \in 0..Bound
    BY Sizes DEF Control
  <2>1. g \in Frame /\ g.tries = 0
    BY <2>0 DEF Frame, Escapes
  <2>2. Control("tactics", g)
    BY <2>1, Sizes DEF Control, At, Labels
  <2>3. pc' = "tactics" /\ f' = g
    BY <1>3 DEF GoWith
  <2> HIDE DEF g
  <2> QED
    BY <2>2, <2>3
<1> QED
  BY <1>1, <1>2, <1>3 DEF Register

LEMMA TacticsControl ==
  ASSUME Control(pc, f), Tactics
  PROVE  Control(pc', f')
<1>1. f \in Frame /\ f.tries \in Nat /\ f.tries <= Len(Portfolio)
  BY Sizes DEF Control, Frame, At, Tactics
<1>2. CASE f.tries = Len(Portfolio)
  BY <1>2, ResetControl DEF Tactics
<1>3. CASE f.tries # Len(Portfolio)
  <2> DEFINE body == Portfolio[f.tries + 1]
             g == [f EXCEPT !.tries = @ + 1]
  <2>1. f.tries + 1 \in 1..Len(Portfolio) /\ f.tries + 1 \in 0..Bound
    BY <1>1, <1>3, Sizes
  <2>2. body \in Body
    BY <2>1, Sizes
  <2>3. g \in Frame /\ g.tries = f.tries + 1
    BY <1>1, <2>1 DEF Frame
  <2>4. g.tries <= Len(Portfolio)
    BY <2>1, <2>3, Sizes
  <2>5. CASE GoWith("tactics", g)
    <3>1. Control("tactics", g)
      BY <2>3, <2>4 DEF Control, At, Labels
    <3> QED
      BY <2>5, <3>1 DEF GoWith
  <2>6. CASE Check(g, "deterministic", body, "verdict")
    <3>1. g.tries <= Limit("deterministic")
      BY <2>4 DEF Limit
    <3> HIDE DEF g, body
    <3> QED
      BY <2>2, <2>3, <2>6, <3>1, CheckControl DEF Asking
  <2> QED
    BY <1>3, <2>5, <2>6 DEF Tactics
<1> QED
  BY <1>2, <1>3

LEMMA DirectControl ==
  ASSUME Control(pc, f), Direct
  PROVE  Control(pc', f')
<1>1. f \in Frame /\ f.tries \in Nat /\ f.tries <= MaxDirect
  BY Sizes DEF Control, Frame, At, Direct
<1>2. CASE f.tries = MaxDirect
  BY <1>2, ResetControl DEF Direct
<1>3. CASE f.tries # MaxDirect
  <2> DEFINE g == [f EXCEPT !.tries = @ + 1, !.revs = 0, !.mode = "direct"]
  <2>1. f.tries + 1 \in 0..Bound /\ f.tries + 1 <= MaxDirect /\ 0 \in 0..MaxRevisions
    BY <1>1, <1>3, Sizes
  <2>2. g \in Frame /\ g.tries = f.tries + 1 /\ g.mode = "direct"
    BY <1>1, <2>1 DEF Frame, Asking
  <2>3. At("formal", g) /\ At("direct", g)
    BY <2>1, <2>2 DEF At
  <2>4. Request(g, TRUE, "formal", "direct")
    BY <1>3 DEF Direct
  <2> HIDE DEF g
  <2> QED
    BY <2>2, <2>3, <2>4, RequestControl DEF Goods, Bads
<1> QED
  BY <1>2, <1>3

LEMMA BlueprintsControl ==
  ASSUME Control(pc, f), Blueprints
  PROVE  Control(pc', f')
<1>1. f \in Frame /\ f.tries \in Nat /\ f.tries <= MaxBlueprints
  BY Sizes DEF Control, Frame, At, Blueprints
<1>2. CASE f.tries = MaxBlueprints
  BY <1>2, GoControl DEF Blueprints, At, Labels, Bads
<1>3. CASE f.tries # MaxBlueprints
  <2> DEFINE g == [f EXCEPT !.tries = @ + 1, !.revs = 0]
  <2>1. f.tries + 1 \in 0..Bound /\ f.tries + 1 <= MaxBlueprints /\ 0 \in 0..MaxRevisions
    BY <1>1, <1>3, Sizes
  <2>2. g \in Frame /\ g.tries = f.tries + 1
    BY <1>1, <2>1 DEF Frame
  <2>3. At("plan", g) /\ At("blueprints", g)
    BY <2>1, <2>2 DEF At
  <2>4. Request(g, TRUE, "plan", "blueprints")
    BY <1>3 DEF Blueprints
  <2> HIDE DEF g
  <2> QED
    BY <2>2, <2>3, <2>4, RequestControl DEF Goods, Bads
<1> QED
  BY <1>2, <1>3

LEMMA CandidateControl ==
  ASSUME Control(pc, f), Formal \/ Candidate \/ Sketch
  PROVE  Control(pc', f')
<1>1. f \in Frame
  BY DEF Control
<1>2. CASE Formal
  <2>1. At("candidate", f) /\ At("direct", f)
    BY <1>2 DEF Formal, Control, At, Limit
  <2>2. Request(f, FALSE, "candidate", "direct")
    BY <1>2 DEF Formal
  <2> QED
    BY <1>1, <2>1, <2>2, RequestControl DEF Goods, Bads
<1>3. CASE Candidate
  <2>1. f.mode \in {"direct", "sketch"} /\ f.tries <= Limit(f.mode)
    BY <1>3 DEF Candidate, Control, At
  <2>2. PICK body \in Body :
          IF Seen(f.mode, body)
          THEN Revise(IF f.mode = "direct" THEN f.escape ELSE "blueprints")
          ELSE \/ Check(f, f.mode, body, "verdict")
               \/ f.mode = "sketch"
                  /\ GoWith("verdict", [f EXCEPT !.body = body, !.verdict = "rejected"])
    BY <1>3 DEF Candidate
  <2>3. CASE Seen(f.mode, body)
    <3> DEFINE bad == IF f.mode = "direct" THEN f.escape ELSE "blueprints"
    <3>1. bad \in Bads
      BY <1>1 DEF Frame, Escapes, Bads
    <3>2. At(bad, f)
      BY <1>1, <2>1 DEF At, Limit, Frame, Escapes
    <3> QED
      BY <2>1, <2>2, <2>3, <3>1, <3>2, ReviseControl DEF Asking
  <2>4. CASE Check(f, f.mode, body, "verdict")
    BY <1>1, <2>1, <2>4, CheckControl DEF Asking
  <2>5. CASE f.mode = "sketch"
             /\ GoWith("verdict", [f EXCEPT !.body = body, !.verdict = "rejected"])
    <3> DEFINE g == [f EXCEPT !.body = body, !.verdict = "rejected"]
    <3>1. g \in Frame /\ g.body = body /\ g.verdict = "rejected" /\ g.mode = f.mode
          /\ g.tries = f.tries
      BY <1>1 DEF Frame
    <3>2. Control("verdict", g)
      BY <2>1, <2>5, <3>1 DEF Control, At, Labels, Afters, Asking
    <3> QED
      BY <2>5, <3>2 DEF GoWith
  <2> QED
    BY <2>2, <2>3, <2>4, <2>5
<1>4. CASE Sketch
  <2>1. f.tries <= MaxBlueprints
    BY <1>4 DEF Sketch, Control, At
  <2>2. CASE Go("blueprints")
    BY <2>1, <2>2, GoControl DEF At, Labels, Bads
  <2>3. CASE Request([f EXCEPT !.mode = "sketch"], FALSE, "candidate", "blueprints")
    <3> DEFINE g == [f EXCEPT !.mode = "sketch"]
    <3>1. g \in Frame /\ g.tries = f.tries /\ g.mode = "sketch"
      BY <1>1 DEF Frame, Asking
    <3>2. At("candidate", g) /\ At("blueprints", g)
      BY <2>1, <3>1 DEF At, Limit
    <3>3. Request(g, FALSE, "candidate", "blueprints")
      BY <2>3
    <3> HIDE DEF g
    <3> QED
      BY <3>1, <3>2, <3>3, RequestControl DEF Goods, Bads
  <2> QED
    BY <1>4, <2>2, <2>3 DEF Sketch
<1> QED
  BY <1>2, <1>3, <1>4

LEMMA JudgeControl ==
  ASSUME Control(pc, f), Judge
  PROVE  Control(pc', f')
<1>1. /\ f \in Frame /\ f.mode \in Asking /\ f.body \in Body /\ f.tries <= Limit(f.mode)
      /\ f.verdict = "accepted" => f.body \in Sound
  BY DEF Judge, Control, At
<1>2. CASE f.verdict = "accepted"
  <2>1. CASE f.mode = "sketch"
    <3>1. At("review", f) /\ At("blueprints", f)
      BY <1>1, <1>2, <2>1 DEF At, Limit
    <3>2. Request(f, TRUE, "review", "blueprints")
      BY <1>2, <2>1 DEF Judge
    <3> QED
      BY <1>1, <3>1, <3>2, RequestControl DEF Goods, Bads
  <2>2. CASE f.mode # "sketch"
    <3>1. Go("commit") /\ At("commit", f)
      BY <1>1, <1>2, <2>2 DEF Judge, At
    <3> QED
      BY <3>1, GoControl DEF Labels
  <2> QED
    BY <2>1, <2>2
<1>3. CASE f.verdict # "accepted" /\ f.mode = "deterministic"
  <2>1. CASE GoWith("direct", [f EXCEPT !.tries = 0])
    BY <2>1, ResetControl
  <2>2. CASE Go("tactics")
    BY <1>1, <1>3, <2>2, GoControl DEF At, Limit, Labels
  <2> QED
    BY <1>3, <2>1, <2>2 DEF Judge
<1>4. CASE f.verdict # "accepted" /\ f.mode # "deterministic"
  <2>1. CASE GoWith("blueprints", [f EXCEPT !.tries = 0])
    BY <2>1, ResetControl
  <2>2. CASE f.mode = "sketch" /\ Go("blueprints")
    BY <1>1, <2>2, GoControl DEF At, Limit, Labels, Bads
  <2>3. CASE Revise(NextTry)
    <3>1. NextTry \in Bads /\ At(NextTry, f)
      BY <1>1, <1>4 DEF NextTry, At, Asking, Limit, Bads
    <3> QED
      BY <1>1, <1>4, <2>3, <3>1, ReviseControl
  <2> QED
    BY <1>1, <1>4, <2>1, <2>2, <2>3 DEF Judge, Asking
<1> QED
  BY <1>2, <1>3, <1>4

LEMMA EndControl ==
  ASSUME Control(pc, f), Kept, Commit \/ Review \/ Assemble
  PROVE  Control(pc', f')
<1>1. CASE Commit
  BY <1>1, GoControl DEF Commit, At, Labels, Bads
<1>2. CASE Review
  <2>1. pc = "review" /\ At("blueprints", f) /\ At("commit", f)
    BY <1>2 DEF Review, Control, At
  <2> QED
    BY <1>2, <2>1, GoControl DEF Review, Labels, Bads
<1>3. CASE Assemble
  <2>1. CASE Go("unproved")
    BY <2>1, GoControl DEF At, Labels
  <2>2. CASE Check(f, "final", proof[f.env], "assembled") /\ proof[f.env] \in Body
    <3> DEFINE g == [f EXCEPT !.mode = "final", !.body = proof[f.env], !.after = "assembled"]
    <3>1. pc' = "lean" /\ f' = g
      BY <2>2 DEF Check, GoWith
    <3>2. g \in Frame /\ g.mode = "final" /\ g.after = "assembled"
      BY <2>2 DEF Control, Frame, Afters
    <3>3. Control("lean", g)
      BY <3>2 DEF Control, LeanOK, At, Labels
    <3> QED
      BY <3>1, <3>3
  <2>3. f.env \in BOOLEAN /\ Sound \subseteq Body
    BY DEF Control, Frame
  <2>4. proof[f.env] # None => proof[f.env] \in Body
    BY <2>3 DEF Kept
  <2> QED
    BY <1>3, <2>1, <2>2, <2>4 DEF Assemble
<1> QED
  BY <1>1, <1>2, <1>3

\* Whatever is done next, control arrives with a frame that the label allows.
LEMMA ControlStep ==
  ASSUME Control(pc, f), Kept, manifest \in BOOLEAN, AttemptNext
  PROVE  Control(pc', f')
<1>1. CASE Begin \/ Choose \/ Crash \/ Fail \/ Finish
  BY <1>1, InvocationControl
<1>2. CASE Ask
  BY <1>2, AskControl
<1>3. CASE Refuse \/ Compile \/ LeanFails \/ Fingerprint
  BY <1>3, LeanControl
<1>4. CASE Register
  BY <1>4, RegisterControl
<1>5. CASE Tactics
  BY <1>5, TacticsControl
<1>6. CASE Direct
  BY <1>6, DirectControl
<1>7. CASE Formal \/ Candidate \/ Sketch
  BY <1>7, CandidateControl
<1>8. CASE Judge
  BY <1>8, JudgeControl
<1>9. CASE Blueprints
  BY <1>9, BlueprintsControl
<1>10. CASE Commit \/ Review \/ Assemble
  BY <1>10, EndControl
<1> QED
  BY <1>1, <1>2, <1>3, <1>4, <1>5, <1>6, <1>7, <1>8, <1>9, <1>10 DEF AttemptNext

-----------------------------------------------------------------------------
(***************************************************************************)
(* Who takes control to Lean, and with what                                *)
(***************************************************************************)
Away == pc \notin {"lean"} \cup Afters

LEMMA Elsewhere ==
  ASSUME Control(pc, f),
         Begin \/ Choose \/ Crash \/ Fail \/ Finish \/ Ask \/ Register \/ Direct \/ Formal
         \/ Blueprints \/ Sketch \/ Judge \/ Commit \/ Review
  PROVE  Away'
<1>1. CASE Begin \/ Choose \/ Crash \/ Fail \/ Finish
  BY <1>1 DEF Begin, Choose, Crash, Fail, Finish, Return, Request, Go, GoWith, Away, Afters
<1>2. CASE Ask
  <2>1. f.good \in Goods /\ f.bad \in Bads /\ f.escape \in Escapes
    BY <1>2 DEF Ask, Control, AskOK, Frame
  <2>2. pc' \in Goods \cup Bads \cup {"ask"}
    BY <1>2, <2>1 DEF Ask, Go, GoWith, Escapes, Bads
  <2> QED
    BY <2>2 DEF Away, Afters, Goods, Bads
<1>3. CASE Register \/ Direct \/ Formal \/ Blueprints
  BY <1>3 DEF Register, Direct, Formal, Blueprints, Request, Go, GoWith, Away, Afters
<1>4. CASE Sketch \/ Commit \/ Review
  BY <1>4 DEF Sketch, Commit, Review, Request, Go, GoWith, Away, Afters
<1>5. CASE Judge
  <2>1. pc' \in {"ask", "commit", "direct", "tactics", "blueprints"}
    BY <1>5 DEF Judge, Revise, NextTry, Request, Go, GoWith
  <2> QED
    BY <2>1 DEF Away, Afters
<1> QED
  BY <1>1, <1>2, <1>3, <1>4, <1>5

\* A candidate that is checked has no row yet.
LEMMA Candidates ==
  ASSUME Control(pc, f), Tactics \/ Candidate
  PROVE  \/ Away'
         \/ pc' = "verdict"
         \/ pc' = "lean" /\ f'.after = "verdict" /\ Row(f.mode, f.body)' \notin rows
<1>1. f \in Frame
  BY DEF Control
<1>2. CASE Tactics
  <2> DEFINE g == [f EXCEPT !.tries = @ + 1]
             body == Portfolio[f.tries + 1]
  <2>1. CASE ~Seen("deterministic", body) /\ Check(g, "deterministic", body, "verdict")
    <3> DEFINE h == [g EXCEPT !.mode = "deterministic", !.body = body, !.after = "verdict"]
    <3>1. pc' = "lean" /\ f' = h
      BY <2>1 DEF Check, GoWith
    <3>2. h.after = "verdict" /\ h.mode = "deterministic" /\ h.body = body /\ h.env = f.env
      BY <1>1 DEF Frame
    <3> HIDE DEF h, g, body
    <3>3. Row(f.mode, f.body)' = Row("deterministic", body)
      BY <3>1, <3>2 DEF Row
    <3> QED
      BY <2>1, <3>1, <3>2, <3>3 DEF Seen
  <2>2. CASE pc' \in {"direct", "tactics"}
    BY <2>2 DEF Away, Afters
  <2> QED
    BY <1>2, <2>1, <2>2 DEF Tactics, GoWith
<1>3. CASE Candidate
  <2>1. PICK body \in Body :
          IF Seen(f.mode, body)
          THEN Revise(IF f.mode = "direct" THEN f.escape ELSE "blueprints")
          ELSE \/ Check(f, f.mode, body, "verdict")
               \/ f.mode = "sketch"
                  /\ GoWith("verdict", [f EXCEPT !.body = body, !.verdict = "rejected"])
    BY <1>3 DEF Candidate
  <2>2. CASE Seen(f.mode, body)
    <3>1. pc' \in {"ask", "direct", "blueprints"}
      BY <2>1, <2>2 DEF Revise, NextTry, Request, Go, GoWith
    <3> QED
      BY <3>1 DEF Away, Afters
  <2>3. CASE ~Seen(f.mode, body) /\ Check(f, f.mode, body, "verdict")
    <3> DEFINE h == [f EXCEPT !.mode = f.mode, !.body = body, !.after = "verdict"]
    <3>1. pc' = "lean" /\ f' = h
      BY <2>3 DEF Check, GoWith
    <3>2. h.after = "verdict" /\ h.mode = f.mode /\ h.body = body /\ h.env = f.env
      BY <1>1 DEF Frame
    <3> HIDE DEF h
    <3>3. Row(f.mode, f.body)' = Row(f.mode, body)
      BY <3>1, <3>2 DEF Row
    <3> QED
      BY <2>3, <3>1, <3>2, <3>3 DEF Seen
  <2>4. CASE GoWith("verdict", [f EXCEPT !.body = body, !.verdict = "rejected"])
    BY <2>4 DEF GoWith
  <2> QED
    BY <2>1, <2>2, <2>3, <2>4
<1> QED
  BY <1>2, <1>3

\* Lean answers about what it was asked.
LEMMA Answers ==
  ASSUME Control(pc, f), Refuse \/ Compile \/ LeanFails
  PROVE  /\ pc = "lean" /\ pc' = f.after /\ f.after \in Afters
         /\ f'.env = f.env /\ Row(f.mode, f.body)' = Row(f.mode, f.body)
<1>1. PICK v : Verdict(v)
  BY DEF Refuse, Compile, LeanFails
<1>2. pc = "lean" /\ f \in Frame /\ LeanOK(f)
  BY DEF Refuse, Compile, LeanFails, Control
<1> DEFINE g == [f EXCEPT !.verdict = v]
<1>3. pc' = f.after /\ f' = g
  BY <1>1 DEF Verdict, GoWith
<1>4. g.env = f.env /\ g.mode = f.mode /\ g.body = f.body
  BY <1>2 DEF Frame
<1> HIDE DEF g
<1> QED
  BY <1>2, <1>3, <1>4 DEF LeanOK, Row, Afters

-----------------------------------------------------------------------------
(***************************************************************************)
(* The parts of the invariant, step by step                                *)
(***************************************************************************)
LEMMA KeptStep ==
  ASSUME Control(pc, f), Kept, AttemptNext
  PROVE  Kept'
<1>1. f \in Frame /\ f.env \in BOOLEAN
  BY DEF Control, Frame
<1>2. rows' \subseteq Rows
  <2>1. CASE Judge
    <3>1. f.mode \in Asking /\ f.body \in Body
      BY <2>1 DEF Judge, Control, At
    <3>2. Row(f.mode, f.body) \in Rows
      BY <1>1, <3>1 DEF Row, Rows, Asking
    <3> QED
      BY <2>1, <3>2 DEF Judge, Kept
  <2>2. CASE Sketch
    <3>1. \A plan \in Plan : Row("blueprint", plan) \in Rows
      BY <1>1 DEF Row, Rows
    <3> QED
      BY <2>2, <3>1 DEF Sketch, Kept
  <2>3. CASE ~Judge /\ ~Sketch
    <3>1. rows' = rows
      BY <2>3 DEF AttemptNext, Begin, Choose, Crash, Fail, Ask, Fingerprint, Refuse, Compile,
         LeanFails, Register, Tactics, Direct, Formal, Candidate, Commit, Blueprints, Review,
         Assemble, Finish, graph
    <3> QED
      BY <3>1 DEF Kept
  <2> QED
    BY <2>1, <2>2, <2>3
<1>3. proof' \in [BOOLEAN -> Sound \cup {None}]
  <2>1. CASE Commit
    <3>1. f.body \in Sound
      BY <2>1 DEF Commit, Control, At
    <3> QED
      BY <1>1, <2>1, <3>1 DEF Commit, Kept
  <2>2. CASE ~Commit
    <3>1. proof' = proof
      BY <2>2 DEF AttemptNext, Begin, Choose, Crash, Fail, Ask, Fingerprint, Refuse, Compile,
         LeanFails, Register, Tactics, Direct, Formal, Candidate, Judge, Blueprints, Sketch,
         Review, Assemble, Finish, graph
    <3> QED
      BY <3>1 DEF Kept
  <2> QED
    BY <2>1, <2>2
<1>4. CASE Assemble
  <2>1. proof[f.env] \in Sound \cup {None}
    BY <1>1 DEF Kept
  <2>2. final' \in Sound \/ (pc' = "unproved" /\ final' = final)
    BY <1>4, <2>1 DEF Assemble, Go
  <2>3. records' = records
    BY <1>4 DEF Assemble
  <2> QED
    BY <1>2, <1>3, <2>2, <2>3 DEF Kept
<1>5. CASE ~Assemble
  <2>1. final' = final
    BY <1>5 DEF AttemptNext, Begin, Choose, Crash, Fail, Ask, Fingerprint, Refuse, Compile,
       LeanFails, Register, Tactics, Direct, Formal, Candidate, Judge, Commit, Blueprints,
       Sketch, Review, Finish, kept
  <2>2. records' \subseteq Sound
    <3>1. CASE Finish
      <4>1. pc = "assembled" => final \in Sound
        BY DEF Kept
      <4>2. records' \in {records, records \cup {final}}
            /\ (pc # "assembled" => records' = records)
        BY <3>1 DEF Finish
      <4> QED
        BY <4>1, <4>2 DEF Kept
    <3>2. CASE ~Finish
      <4>1. records' = records
        BY <1>5, <3>2 DEF AttemptNext, Begin, Choose, Crash, Fail, Ask, Fingerprint, Refuse,
           Compile, LeanFails, Register, Tactics, Direct, Formal, Candidate, Judge, Commit,
           Blueprints, Sketch, Review, kept
      <4> QED
        BY <4>1 DEF Kept
    <3> QED
      BY <3>1, <3>2
  <2>3. (pc = "assembled" \/ (pc = "lean" /\ f.after = "assembled"))' => final \in Sound
    <3>1. CASE Refuse \/ Compile \/ LeanFails
      BY <3>1, Answers DEF Kept, Afters
    <3>2. CASE Fingerprint
      <4>1. pc' = "lean" /\ f'.after = "register"
        BY <1>1, <3>2 DEF Fingerprint, GoWith, Frame
      <4> QED
        BY <4>1
    <3>3. CASE Tactics \/ Candidate
      BY <3>3, Candidates DEF Away, Afters
    <3> QED
      BY <1>5, <3>1, <3>2, <3>3, Elsewhere DEF AttemptNext, Away, Afters
  <2> QED
    BY <1>2, <1>3, <2>1, <2>2, <2>3 DEF Kept
<1> QED
  BY <1>4, <1>5

\* Only Ask takes from the budget, and what it takes it has or sends.
LEMMA BudgetStep ==
  ASSUME Control(pc, f), Budget, AttemptNext
  PROVE  Budget'
<1>1. CASE Begin
  <2>1. left' = MaxCalls /\ posted' = 0 /\ pc' # "idle"
    BY <1>1 DEF Begin, Request, GoWith
  <2> QED
    BY <2>1, Sizes DEF Budget
<1>2. CASE Return
  BY <1>2 DEF Return, GoWith, Budget
<1>3. CASE Ask
  <2>1. pc = "ask" /\ left \in Nat /\ posted \in Nat /\ posted + left <= MaxCalls
    BY <1>3 DEF Ask, Budget
  <2>2. pc' # "idle"
    <3>1. f.good \in Goods /\ f.bad \in Bads /\ f.escape \in Escapes
      BY <1>3 DEF Ask, Control, AskOK, Frame
    <3> QED
      BY <1>3, <3>1 DEF Ask, Go, GoWith, Goods, Bads, Escapes
  <2>3. \/ left' = left /\ posted' = posted
        \/ left > 0 /\ left' = left - 1 /\ posted' \in {posted, posted + 1}
    BY <1>3, <2>1 DEF Ask, Consume, Post, calls
  <2> QED
    BY <2>1, <2>2, <2>3, Sizes DEF Budget
<1>4. CASE ~Begin /\ ~Return /\ ~Ask
  <2>1. left' = left /\ posted' = posted /\ pc # "idle"
    BY <1>4 DEF AttemptNext, Choose, Crash, Fail, Fingerprint, Refuse, Compile, LeanFails,
       Register, Tactics, Direct, Formal, Candidate, Judge, Commit, Blueprints, Sketch, Review,
       Assemble, Finish, calls
  <2>2. CASE Refuse \/ Compile \/ LeanFails
    BY <2>1, <2>2, Answers DEF Budget, Afters
  <2>3. CASE Candidate
    <3>1. f \in Frame
      BY DEF Control
    <3>2. pc' # "idle"
      BY <2>3, <3>1 DEF Candidate, Revise, NextTry, Check, Request, Go, GoWith
    <3> QED
      BY <2>1, <3>2 DEF Budget
  <2>4. CASE Judge
    <3>1. pc' # "idle"
      BY <2>4 DEF Judge, Revise, NextTry, Request, Go, GoWith
    <3> QED
      BY <2>1, <3>1 DEF Budget
  <2>5. CASE Fingerprint \/ Register \/ Tactics \/ Direct \/ Formal \/ Commit \/ Blueprints
             \/ Sketch \/ Review \/ Assemble \/ Choose
    <3>1. pc' # "idle"
      BY <1>4, <2>5 DEF Fingerprint, Register, Tactics, Direct, Formal, Commit, Blueprints,
         Sketch, Review, Assemble, Choose, Check, Request, Go, GoWith
    <3> QED
      BY <2>1, <3>1 DEF Budget
  <2> QED
    BY <1>4, <2>2, <2>3, <2>4, <2>5 DEF AttemptNext, Crash, Fail, Finish
<1> QED
  BY <1>1, <1>2, <1>3, <1>4

LEMMA OneMore ==
  ASSUME NEW S, NEW x, IsFiniteSet(S)
  PROVE  IsFiniteSet(S \cup {x}) /\ Cardinality(S \cup {x}) <= Cardinality(S) + 1
<1>1. Cardinality(S) \in Nat
  BY FS_CardinalityType
<1>2. IsFiniteSet(S \cup {x})
      /\ Cardinality(S \cup {x}) \in {Cardinality(S), Cardinality(S) + 1}
  BY FS_AddElement
<1> QED
  BY <1>1, <1>2

LEMMA OneLess ==
  ASSUME NEW S, NEW x \in S, IsFiniteSet(S)
  PROVE  Cardinality(S \ {x}) = Cardinality(S) - 1
BY FS_RemoveElement

\* The ledger of lost answers, for a step that asks nothing.
LEMMA NothingNewLost ==
  ASSUME Asked, compiled' = compiled, again' = again, rows \subseteq rows',
         crashes' \in Nat, crashes <= crashes',
         pc = "verdict" => \/ Row(f.mode, f.body) \in rows'
                           \/ crashes' = crashes + 1,
         pc' = "lean" /\ f'.after = "verdict" => Row(f.mode, f.body)' \notin rows'
  PROVE  Asked'
<1>1. IsFiniteSet(Lost) /\ Cardinality(Lost) \in Nat
  BY FS_Subset, FS_CardinalityType DEF Lost, Asked
<1>2. CASE pc = "verdict" /\ Row(f.mode, f.body) \notin rows'
  <2>1. Lost' \subseteq Lost \cup {Row(f.mode, f.body)}
    BY <1>2 DEF Lost, OnItsWay
  <2>2. Cardinality(Lost \cup {Row(f.mode, f.body)}) <= Cardinality(Lost) + 1
        /\ IsFiniteSet(Lost \cup {Row(f.mode, f.body)})
    BY <1>1, OneMore
  <2>3. Cardinality(Lost') <= Cardinality(Lost) + 1 /\ Cardinality(Lost') \in Nat
    BY <1>1, <2>1, <2>2, FS_Subset, FS_CardinalityType
  <2> QED
    BY <1>1, <1>2, <2>3 DEF Asked
<1>3. CASE pc # "verdict" \/ Row(f.mode, f.body) \in rows'
  <2>1. Lost' \subseteq Lost
    BY <1>3 DEF Lost, OnItsWay
  <2>2. Cardinality(Lost') <= Cardinality(Lost) /\ Cardinality(Lost') \in Nat
    BY <1>1, <2>1, FS_Subset, FS_CardinalityType
  <2> QED
    BY <1>1, <2>2 DEF Asked
<1> QED
  BY <1>2, <1>3

\* Asking about a candidate: it is new, or its answer was lost and is now on its way.
LEMMA CompileAsked ==
  ASSUME Control(pc, f), Asked, Compile
  PROVE  Asked'
<1>1. /\ pc = "lean" /\ pc' = f.after /\ f.after \in Afters
      /\ f'.env = f.env /\ Row(f.mode, f.body)' = Row(f.mode, f.body)
  BY Answers
<1>2. rows' = rows /\ crashes' = crashes /\ pc' # "lean"
  BY <1>1 DEF Compile, graph, counts, Afters
<1>3. IsFiniteSet(Lost) /\ Cardinality(Lost) \in Nat
  BY FS_Subset, FS_CardinalityType DEF Lost, Asked
<1>4. CASE f.mode \in {"statement", "final"}
  <2>1. compiled' = compiled /\ again' = again
    BY <1>4 DEF Compile, asked
  <2> QED
    BY <1>1, <1>2, <2>1, NothingNewLost DEF Asked
<1>5. CASE f.mode \notin {"statement", "final"}
  <2> DEFINE q == Row(f.mode, f.body)
  <2>1. f.after = "verdict"
    BY <1>1, <1>5 DEF Control, LeanOK
  <2>2. q \notin rows
    BY <1>1, <2>1 DEF Asked
  <2>3. compiled' = compiled \cup {q} /\ again' = IF q \in compiled THEN again + 1 ELSE again
    BY <1>5 DEF Compile, Row
  <2>4. OnItsWay = {} /\ OnItsWay' = {q}
    BY <1>1, <2>1 DEF OnItsWay
  <2>5. IsFiniteSet(compiled')
    BY <2>3, FS_AddElement DEF Asked
  <2>6. Lost' = Lost \ {q}
    BY <1>2, <2>3, <2>4 DEF Lost
  <2>7. CASE q \in compiled
    <3>1. q \in Lost
      BY <2>2, <2>4, <2>7 DEF Lost
    <3>2. Cardinality(Lost') = Cardinality(Lost) - 1
      BY <1>3, <2>6, <3>1, OneLess
    <3> QED
      BY <1>2, <1>3, <2>3, <2>5, <2>7, <3>2 DEF Asked
  <2>8. CASE q \notin compiled
    <3>1. Lost' = Lost
      BY <2>6, <2>8 DEF Lost
    <3> QED
      BY <1>2, <2>3, <2>5, <2>8, <3>1 DEF Asked
  <2> QED
    BY <2>7, <2>8
<1> QED
  BY <1>4, <1>5

LEMMA AskedStep ==
  ASSUME Control(pc, f), Asked, AttemptNext
  PROVE  Asked'
<1>0. crashes \in Nat
  BY DEF Asked
<1>1. CASE Compile
  BY <1>1, CompileAsked
<1>2. CASE ~Compile
  <2>1. compiled' = compiled /\ again' = again
    BY <1>2 DEF AttemptNext, Begin, Choose, Crash, Fail, Ask, Fingerprint, Refuse, LeanFails,
       Register, Tactics, Direct, Formal, Candidate, Judge, Commit, Blueprints, Sketch, Review,
       Assemble, Finish, asked
  <2>2. CASE Crash
    <3>1. rows' = rows /\ crashes' = crashes + 1 /\ pc' = "idle"
      BY <2>2 DEF Crash, Return, GoWith, graph
    <3> QED
      BY <1>0, <2>1, <3>1, NothingNewLost
  <2>3. CASE Judge
    <3>1. rows' = rows \cup {Row(f.mode, f.body)} /\ crashes' = crashes
      BY <2>3 DEF Judge, counts
    <3>2. pc' # "lean"
      BY <2>3, Elsewhere DEF Away
    <3> QED
      BY <1>0, <2>1, <3>1, <3>2, NothingNewLost
  <2>4. CASE Sketch
    <3>1. rows \subseteq rows' /\ crashes' = crashes /\ pc = "plan"
      BY <2>4 DEF Sketch, counts
    <3>2. pc' # "lean"
      BY <2>4, Elsewhere DEF Away
    <3> QED
      BY <1>0, <2>1, <3>1, <3>2, NothingNewLost
  <2>5. CASE ~Crash /\ ~Judge /\ ~Sketch
    <3>1. rows' = rows /\ crashes' = crashes /\ pc # "verdict"
      BY <1>2, <2>5 DEF AttemptNext, Begin, Choose, Fail, Ask, Fingerprint, Refuse, LeanFails,
         Register, Tactics, Direct, Formal, Candidate, Commit, Blueprints, Review, Assemble,
         Finish, graph, counts
    <3>2. pc' = "lean" /\ f'.after = "verdict" => Row(f.mode, f.body)' \notin rows
      <4>1. CASE Refuse \/ LeanFails
        BY <4>1, Answers DEF Afters
      <4>2. CASE Fingerprint
        <5>1. f'.after = "register"
          BY <4>2 DEF Fingerprint, GoWith, Control, Frame
        <5> QED
          BY <5>1
      <4>3. CASE Tactics \/ Candidate
        BY <4>3, Candidates DEF Away
      <4>4. CASE Assemble
        <5>1. pc' = "unproved" \/ f'.after = "assembled"
          BY <4>4 DEF Assemble, Check, Go, GoWith, Control, Frame
        <5> QED
          BY <5>1
      <4> QED
        BY <1>2, <2>5, <4>1, <4>2, <4>3, <4>4, Elsewhere DEF AttemptNext, Away
    <3> QED
      BY <1>0, <2>1, <3>1, <3>2, NothingNewLost
  <2> QED
    BY <2>2, <2>3, <2>4, <2>5
<1> QED
  BY <1>1, <1>2

LEMMA ManifestStep ==
  ASSUME Control(pc, f), OneManifest, AttemptNext
  PROVE  OneManifest'
<1>1. f \in Frame /\ f.env \in BOOLEAN
  BY DEF Control, Frame
<1>a. faults' \in {faults, faults + 1}
  <2>1. CASE Fingerprint \/ LeanFails
    BY <2>1 DEF Fingerprint, LeanFails, Fault
  <2>2. CASE ~Fingerprint /\ ~LeanFails
    BY <2>2 DEF AttemptNext, Begin, Choose, Crash, Fail, Ask, Refuse, Compile, Register, Tactics,
       Direct, Formal, Candidate, Judge, Commit, Blueprints, Sketch, Review, Assemble, Finish,
       counts
  <2> QED
    BY <2>1, <2>2
<1>b. manifest' \in {manifest, TRUE}
  <2>1. CASE Fingerprint
    BY <2>1 DEF Fingerprint
  <2>2. CASE Compile \/ LeanFails
    BY <2>2 DEF Compile, LeanFails
  <2>3. CASE ~Fingerprint /\ ~Compile /\ ~LeanFails
    BY <2>3 DEF AttemptNext, Begin, Choose, Crash, Fail, Ask, Refuse, Register, Tactics, Direct,
       Formal, Candidate, Judge, Commit, Blueprints, Sketch, Review, Assemble, Finish, lake
  <2> QED
    BY <2>1, <2>2, <2>3
<1>c. faults \in Nat /\ manifest \in BOOLEAN
  BY Zenon DEF OneManifest
<1>d. faults' \in Nat /\ (faults' = 0 => faults = 0)
  BY <1>a, <1>c
<1>e. manifest' \in BOOLEAN
  BY <1>b, <1>c, Zenon
<1>2. faults' \in Nat /\ (faults' = 0 => faults = 0) /\ manifest' \in BOOLEAN
  BY <1>d, <1>e, Zenon
<1>3. SUFFICES ASSUME faults' = 0
               PROVE  /\ environments' \subseteq {TRUE}
                      /\ (pc = "register" \/ (pc = "lean" /\ f.after = "register"))' => f'.env
  BY <1>2 DEF OneManifest
<1>4. faults = 0 /\ environments \subseteq {TRUE}
  BY <1>2, <1>3 DEF OneManifest
<1>5. environments' \subseteq {TRUE}
  <2>1. CASE Register
    BY <1>4, <2>1 DEF Register, OneManifest
  <2>2. CASE ~Register
    <3>1. environments' = environments
      BY <2>2 DEF AttemptNext, Begin, Choose, Crash, Fail, Ask, Fingerprint, Refuse, Compile,
         LeanFails, Tactics, Direct, Formal, Candidate, Judge, Commit, Blueprints, Sketch,
         Review, Assemble, Finish, graph
    <3> QED
      BY <1>4, <3>1
  <2> QED
    BY <2>1, <2>2
<1>6. (pc = "register" \/ (pc = "lean" /\ f.after = "register"))' => f'.env
  <2>1. CASE Refuse \/ Compile \/ LeanFails
    BY <1>4, <2>1, Answers DEF OneManifest, Afters
  <2>2. CASE Fingerprint
    <3>1. manifest' = TRUE
      BY <1>3, <1>4, <2>2 DEF Fingerprint, Fault
    <3>2. f'.env = manifest'
      BY <1>1, <2>2 DEF Fingerprint, GoWith, Frame
    <3> QED
      BY <3>1, <3>2
  <2>3. CASE Tactics \/ Candidate
    BY <2>3, Candidates DEF Away, Afters
  <2>4. CASE Assemble
    <3>1. pc' = "unproved" \/ (pc' = "lean" /\ f'.after = "assembled")
      BY <1>1, <2>4 DEF Assemble, Check, Go, GoWith, Frame
    <3> QED
      BY <3>1
  <2> QED
    BY <2>1, <2>2, <2>3, <2>4, Elsewhere DEF AttemptNext, Away, Afters
<1> QED
  BY <1>5, <1>6

-----------------------------------------------------------------------------
(***************************************************************************)
(* The theorems                                                            *)
(***************************************************************************)
\* The inductive invariant: control, the graph, the budget, the lost answers of Lean and the
\* manifest (controller.py, llm.py, lean.py).
THEOREM AttemptInvariant == AttemptSpec => []AttemptInv
<1>1. AttemptInit => AttemptInv
  <2> SUFFICES ASSUME AttemptInit PROVE AttemptInv
    OBVIOUS
  <2>1. Control(pc, f)
    BY BlankFrame DEF AttemptInit
  <2>2. Lost = {}
    BY DEF AttemptInit, Lost
  <2>3. Asked
    BY <2>2, FS_EmptySet DEF AttemptInit, Asked
  <2> QED
    BY <2>1, <2>3 DEF AttemptInit, AttemptInv, Kept, Budget, OneManifest
<1>2. AttemptInv /\ [AttemptNext]_vars => AttemptInv'
  <2> SUFFICES ASSUME AttemptInv, [AttemptNext]_vars PROVE AttemptInv'
    OBVIOUS
  <2> USE DEF AttemptInv
  <2>1. CASE AttemptNext
    <3>1. Control(pc', f')
      BY <2>1, ControlStep DEF OneManifest
    <3> QED
      BY <2>1, <3>1, KeptStep, BudgetStep, AskedStep, ManifestStep
  <2>2. CASE UNCHANGED vars
    BY <2>2 DEF vars, lake, graph, asked, calls, kept, counts, Kept, Budget, Asked, Lost,
       OnItsWay, Row, OneManifest
  <2> QED
    BY <2>1, <2>2
<1> QED
  BY <1>1, <1>2, PTL DEF AttemptSpec

\* Every variable of an invocation keeps its type.
THEOREM AttemptTyping == AttemptSpec => []AttemptTypeOK
<1>1. AttemptInv => AttemptTypeOK
  <2> SUFFICES ASSUME AttemptInv PROVE AttemptTypeOK
    OBVIOUS
  <2>1. f \in Frame /\ pc \in Labels
    BY DEF AttemptInv, Control
  <2>2. pc \in Stage
    BY <2>1 DEF Labels, Goods, Bads, Afters, Stage
  <2>3. left \in 0..MaxCalls \cup {None} /\ (pc = "idle" <=> left = None)
    BY Sizes DEF AttemptInv, Budget
  <2>4. proof \in [BOOLEAN -> Body \cup {None}] /\ final \in Body \cup {None}
    BY DEF AttemptInv, Kept
  <2>5. rows \subseteq Rows
    BY DEF AttemptInv, Kept
  <2> QED
    BY <2>1, <2>2, <2>3, <2>4, <2>5 DEF AttemptTypeOK, Frame, Bound, Rows
<1> QED
  BY <1>1, AttemptInvariant, PTL

\* No step sends more model calls than its budget has (llm.py, step_budget).
THEOREM CallsBounded == AttemptSpec => []CallsWithinBudget
<1>1. AttemptInv => CallsWithinBudget
  BY Sizes DEF AttemptInv, Budget, CallsWithinBudget
<1> QED
  BY <1>1, AttemptInvariant, PTL

\* What is committed or admitted as a proof is one Lean accepts (controller.py, proof.py).
THEOREM OnlySoundProofs == AttemptSpec => []ProvedIsChecked
<1>1. AttemptInv => ProvedIsChecked
  BY DEF AttemptInv, Kept, ProvedIsChecked
<1> QED
  BY <1>1, AttemptInvariant, PTL

\* Lean is asked a second time only where a crash has lost the first answer
\* (controller.py:277).
THEOREM CheckedOnceHolds == AttemptSpec => []CheckedOnce
<1>1. AttemptInv => CheckedOnce
  <2> SUFFICES ASSUME AttemptInv PROVE CheckedOnce
    OBVIOUS
  <2>1. Cardinality(Lost) \in Nat
    BY FS_Subset, FS_CardinalityType DEF AttemptInv, Asked, Lost
  <2> QED
    BY <2>1 DEF AttemptInv, Asked, CheckedOnce
<1> QED
  BY <1>1, AttemptInvariant, PTL

\* As long as Lean and Lake work, the goal has one environment (lean.py:98-99).
THEOREM EnvironmentStable == AttemptSpec => []OneEnvironment
<1>1. AttemptInv => OneEnvironment
  <2> SUFFICES ASSUME AttemptInv, faults = 0 PROVE Cardinality(environments) <= 1
    BY DEF OneEnvironment
  <2>1. environments \subseteq {TRUE}
    BY DEF AttemptInv, OneManifest
  <2>2. IsFiniteSet({TRUE}) /\ Cardinality({TRUE}) = 1
    BY FS_Singleton
  <2>3. Cardinality(environments) <= Cardinality({TRUE})
    BY <2>1, <2>2, FS_Subset
  <2> QED
    BY <2>2, <2>3
<1> QED
  BY <1>1, AttemptInvariant, PTL
=============================================================================
