------------------------------ MODULE ScreensProofs ------------------------------
(***************************************************************************)
(* What follows, for any pages that keep the rules of PageRules, any number *)
(* of records, and any number of moves, clicks and errors.                 *)
(***************************************************************************)
EXTENDS Screens, TLAPS

Whose    == Records \cup {Nil, Empty.of}
Versions == [of: Whose, version: Nat]
RunType  ==
    [task: DOMAIN Tasks, key: Records, nr: Nat, live: BOOLEAN, step: Nat,
     at: {"sent", "answered", "failed"}, got: Versions, stored: BOOLEAN]

\* What is watched is a part of one page.
SceneOK ==
    /\ scene.page \in DOMAIN Pages /\ DOMAIN Tasks \subseteq DOMAIN Pages[scene.page]
    /\ \A t \in DOMAIN Tasks : Tasks[t] = Pages[scene.page][t]
    /\ Parts \subseteq Views[scene.page]
    /\ Saves \subseteq DOMAIN Tasks
    /\ \A t \in Saves : \E part \in Views[scene.page] :
          part.form = scene.form /\ part.form # Nil /\ t \in DOMAIN part.offers

RunsTyped ==
    /\ running \subseteq RunType
    /\ \A r \in running : r.step \in DOMAIN Of(r).steps

DataTyped ==
    /\ route \in Records
    /\ ver \in [Records -> Nat]
    /\ shown \in Versions
    /\ draft \in [of: Whose, typed: BOOLEAN]
    /\ used \in [moves: Nat, clicks: Nat, errors: Nat]
    /\ Nil \notin flags

ScreensTyped == SceneOK /\ RunsTyped /\ DataTyped

-------------------------------------------------------------------------------
\* The steps of the tasks under way: one of them goes on as q, or ends and calls others.
GoesOn(r, q) ==
    /\ q \in RunType /\ q.step \in DOMAIN Of(r).steps
    /\ q.task = r.task /\ q.key = r.key /\ q.nr = r.nr /\ q.live = r.live
    /\ running' = (running \ {r}) \cup {q} /\ flags' = flags

Answered(r, q) ==
    /\ q.step = r.step /\ r.at = "sent" /\ q.at = "answered"
    /\ q.stored <=> r.stored \/ StepOf(r).sends # Nil
    /\ IF scene.slot \in DOMAIN StepOf(r).gets
       THEN q.got.of = r.key /\ q.got.version = ver'[r.key]
       ELSE q.got = r.got

Stumbles(r, q) ==
    /\ q.step = r.step /\ q.stored = r.stored /\ r.at = "sent"
    /\ \/ q.at = "failed" /\ q.got = r.got /\ "fail" \in Outcomes(StepOf(r))
       \/ q.at = "answered" /\ q.got = Empty
       \/ q.at = "answered" /\ q.got = Unset /\ "keep" \in Outcomes(StepOf(r))

NextStep(r, q) ==
    /\ q.step = r.step + 1 /\ q.stored = r.stored /\ q.got = r.got
    /\ r.at = "answered" /\ q.at # "failed"
    /\ q.at = "answered" => Of(r).steps[q.step].gets = NoSlots

LEMMA SceneTaken == ScreensInit => SceneOK
<1> SUFFICES ASSUME ScreensInit PROVE SceneOK
  OBVIOUS
<1>1. PICK w \in Watches : scene = SceneOf(w)
  BY DEF ScreensInit
<1>2. w.page \in DOMAIN Pages
  <2>1. PICK p \in DOMAIN Pages : w \in WatchesOf(p)
    BY DEF Watches
  <2>2. w.page = p
    BY <2>1 DEF WatchesOf
  <2>3. QED
    BY <2>1, <2>2
<1>3. /\ scene.page = w.page
      /\ Tasks = [t \in DOMAIN Tasks |-> Pages[w.page][t]]
      /\ DOMAIN Tasks \subseteq DOMAIN Pages[w.page]
  BY <1>1 DEF SceneOf, Tasks
<1>4. Parts \subseteq Views[w.page]
  BY <1>1 DEF SceneOf, Parts
<1>5. Saves \subseteq DOMAIN Tasks
  BY <1>1 DEF SceneOf, Saves, Tasks
<1>6. ASSUME NEW t \in Saves
      PROVE  \E part \in Views[scene.page] :
                 part.form = scene.form /\ part.form # Nil /\ t \in DOMAIN part.offers
  <2>1. scene.form = w.form
    BY <1>1 DEF SceneOf
  <2>2. t \in UNION {DOMAIN x.offers :
                        x \in {y \in Views[w.page] : y.form = w.form /\ w.form # Nil}}
    BY <1>1, <1>6 DEF SceneOf, Saves
  <2>3. QED
    BY <1>3, <2>1, <2>2
<1>7. QED
  BY <1>2, <1>3, <1>4, <1>5, <1>6 DEF SceneOK

\* A task that starts.
LEMMA Started ==
    ASSUME StepsInOrder, SceneOK, NEW t \in DOMAIN Tasks, NEW k \in Records, NEW n \in Nat
    PROVE  /\ Start(t, k, n) \in RunType /\ Start(t, k, n).step \in DOMAIN Tasks[t].steps
           /\ Start(t, k, n).task = t /\ Start(t, k, n).key = k /\ Start(t, k, n).live
           /\ ~Start(t, k, n).stored /\ Start(t, k, n).at = "sent"
           /\ Start(t, k, n).step = 1 /\ Start(t, k, n).got = Unset
<1>1. 1 \in DOMAIN Tasks[t].steps
  BY DEF StepsInOrder, SceneOK
<1>2. Unset \in Versions
  BY DEF Unset, Versions, Whose
<1>3. QED
  BY <1>1, <1>2 DEF Start, RunType

LEMMA FirstIsRecord == First \in Records
  BY RecordsAssumption DEF First

LEMMA ScreensTypedInit ==
    ASSUME StepsInOrder PROVE ScreensInit => ScreensTyped
<1> SUFFICES ASSUME ScreensInit PROVE ScreensTyped
  OBVIOUS
<1>1. SceneOK
  BY SceneTaken
<1>2. DataTyped
  BY FirstIsRecord DEF ScreensInit, DataTyped, Versions, Whose, Empty, NoDraft, Flags
<1>3. RunsTyped
  <2>1. route \in Records /\ 0 \in Nat /\ OnRoute \subseteq DOMAIN Tasks
    BY FirstIsRecord DEF ScreensInit, OnRoute
  <2>2. ASSUME NEW r \in running
        PROVE  r \in RunType /\ r.step \in DOMAIN Of(r).steps
    <3>1. PICK t \in OnRoute : r = Start(t, route, 0)
      BY DEF ScreensInit
    <3>2. QED
      BY <1>1, <2>1, <3>1, Started DEF Of
  <2>3. QED
    BY <2>2 DEF RunsTyped
<1>4. QED
  BY <1>1, <1>2, <1>3 DEF ScreensTyped

LEMMA ReplyGoesOn ==
    ASSUME StepsInOrder, ScreensTyped, NEW r \in running, Reply(r)
    PROVE  \E q : GoesOn(r, q) /\ Answered(r, q)
<1> DEFINE s   == StepOf(r)
           new == [ver EXCEPT ![r.key] = @ + (IF Reaches(s, scene.kinds) THEN 1 ELSE 0)]
           got == IF scene.slot \in DOMAIN s.gets
                  THEN [of |-> r.key, version |-> new[r.key]] ELSE r.got
           q   == [r EXCEPT !.at = "answered", !.stored = r.stored \/ s.sends # Nil, !.got = got]
<1>1. r \in RunType /\ r.step \in DOMAIN Of(r).steps
  BY DEF ScreensTyped, RunsTyped
<1>2. got \in Versions
  <2>1. ver \in [Records -> Nat] /\ r.key \in Records /\ r.got \in Versions
    BY <1>1 DEF ScreensTyped, DataTyped, RunType
  <2>2. new[r.key] \in Nat
    BY <2>1
  <2>3. QED
    BY <2>1, <2>2 DEF Versions, Whose
<1>3. running' = (running \ {r}) \cup {q} /\ flags' = flags
  BY DEF Reply
<1> HIDE DEF got, s
<1>4. /\ q \in RunType /\ q.step = r.step /\ q.at = "answered"
      /\ q.task = r.task /\ q.key = r.key /\ q.nr = r.nr /\ q.live = r.live
      /\ q.stored <=> r.stored \/ s.sends # Nil
      /\ q.got = got
  BY <1>1, <1>2 DEF RunType
<1>5. IF scene.slot \in DOMAIN s.gets
      THEN got.of = r.key /\ got.version = ver'[r.key] ELSE got = r.got
  BY DEF got, Reply, s
<1>6. r.at = "sent"
  BY DEF Reply
<1>7. QED
  BY <1>1, <1>3, <1>4, <1>5, <1>6 DEF GoesOn, Answered, s

LEMMA ErrorGoesOn ==
    ASSUME StepsInOrder, ScreensTyped, NEW r \in running, Error(r)
    PROVE  \E q : GoesOn(r, q) /\ Stumbles(r, q)
<1>1. r \in RunType /\ r.step \in DOMAIN Of(r).steps /\ r.task \in DOMAIN Tasks
  BY DEF ScreensTyped, RunsTyped, RunType
<1>2. PICK out \in Outcomes(StepOf(r)) :
          running' = (running \ {r}) \cup
              {CASE out = "fail"  -> [r EXCEPT !.at = "failed"]
                 [] out = "blank" -> [r EXCEPT !.at = "answered", !.got = Empty]
                 [] out = "keep"  -> [r EXCEPT !.at = "answered", !.got = Unset]}
  BY DEF Error
<1>3. out \in {"fail", "blank", "keep"}
  BY <1>1, <1>2 DEF Outcomes, StepsInOrder, ScreensTyped, SceneOK, StepOf, Of
<1>4. Empty \in Versions /\ Unset \in Versions
  BY DEF Versions, Whose, Empty, Unset
<1>5. r.at = "sent" /\ flags' = flags
  BY DEF Error
<1>6. CASE out = "fail"
  <2> DEFINE q == [r EXCEPT !.at = "failed"]
  <2>1. running' = (running \ {r}) \cup {q}
    BY <1>2, <1>6
  <2>2. q \in RunType /\ q.step = r.step /\ q.stored = r.stored /\ q.at = "failed"
        /\ q.task = r.task /\ q.key = r.key /\ q.nr = r.nr /\ q.live = r.live /\ q.got = r.got
    BY <1>1 DEF RunType
  <2>3. QED
    BY <1>1, <1>2, <1>5, <1>6, <2>1, <2>2 DEF GoesOn, Stumbles
<1>7. CASE out = "blank"
  <2> DEFINE q == [r EXCEPT !.at = "answered", !.got = Empty]
  <2>1. running' = (running \ {r}) \cup {q}
    BY <1>2, <1>7
  <2>2. q \in RunType /\ q.step = r.step /\ q.stored = r.stored /\ q.at = "answered"
        /\ q.task = r.task /\ q.key = r.key /\ q.nr = r.nr /\ q.live = r.live /\ q.got = Empty
    BY <1>1, <1>4 DEF RunType
  <2>3. QED
    BY <1>1, <1>5, <2>1, <2>2 DEF GoesOn, Stumbles
<1>8. CASE out = "keep"
  <2> DEFINE q == [r EXCEPT !.at = "answered", !.got = Unset]
  <2>1. running' = (running \ {r}) \cup {q}
    BY <1>2, <1>8
  <2>2. q \in RunType /\ q.step = r.step /\ q.stored = r.stored /\ q.at = "answered"
        /\ q.task = r.task /\ q.key = r.key /\ q.nr = r.nr /\ q.live = r.live /\ q.got = Unset
    BY <1>1, <1>4 DEF RunType
  <2>3. QED
    BY <1>1, <1>2, <1>5, <1>8, <2>1, <2>2 DEF GoesOn, Stumbles
<1>9. QED
  BY <1>3, <1>6, <1>7, <1>8

LEMMA ResumeGoesOn ==
    ASSUME StepsInOrder, ScreensTyped, NEW r \in running, Resume(r),
           ~(StepOf(r).guarded /\ ~r.live), r.step # Len(Of(r).steps)
    PROVE  \E q : GoesOn(r, q) /\ NextStep(r, q)
<1> DEFINE at == IF Of(r).steps[r.step + 1].gets = NoSlots
                    /\ Of(r).steps[r.step + 1].sends = Nil
                 THEN "answered" ELSE "sent"
           q  == [r EXCEPT !.step = r.step + 1, !.at = at]
<1>1. /\ r \in RunType /\ r.step \in DOMAIN Of(r).steps /\ r.task \in DOMAIN Tasks
      /\ Len(Of(r).steps) \in Nat /\ DOMAIN Of(r).steps = 1 .. Len(Of(r).steps)
  BY DEF ScreensTyped, RunsTyped, RunType, SceneOK, StepsInOrder, Of
<1>2. running' = (running \ {r}) \cup {q} /\ flags' = flags
  BY DEF Resume
<1>3. r.step + 1 \in DOMAIN Of(r).steps /\ r.step + 1 \in Nat
  BY <1>1
<1>4. at \in {"answered", "sent"} /\ (at = "answered" => Of(r).steps[r.step + 1].gets = NoSlots)
  OBVIOUS
<1> HIDE DEF at
<1>5. q \in RunType /\ q.step = r.step + 1 /\ q.stored = r.stored /\ q.at = at
      /\ q.task = r.task /\ q.key = r.key /\ q.nr = r.nr /\ q.live = r.live /\ q.got = r.got
  BY <1>1, <1>3, <1>4 DEF RunType
<1>6. r.at = "answered" /\ q.at # "failed"
  BY <1>4, <1>5 DEF Resume
<1>7. QED
  BY <1>2, <1>3, <1>4, <1>5, <1>6 DEF GoesOn, NextStep

LEMMA ResumeShapes ==
    ASSUME StepsInOrder, ScreensTyped, NEW r \in running, Resume(r)
    PROVE  \/ \E q : GoesOn(r, q) /\ NextStep(r, q)
           \/ \E called \in SUBSET (Of(r).calls \cap DOMAIN Tasks) : Finish(r, called)
<1> DEFINE dropped == StepOf(r).guarded /\ ~r.live
           called  == IF dropped THEN {} ELSE Of(r).calls \cap DOMAIN Tasks
<1>1. CASE dropped \/ r.step = Len(Of(r).steps)
  <2>1. Finish(r, called) /\ called \in SUBSET (Of(r).calls \cap DOMAIN Tasks)
    BY <1>1 DEF Resume
  <2>2. QED
    BY <2>1
<1>2. CASE ~(dropped \/ r.step = Len(Of(r).steps))
  BY <1>2, ResumeGoesOn
<1>3. QED
  BY <1>1, <1>2

\* A task that another one calls, and what the end of a task does.
Begun(t, r) == [Start(t, r.key, r.nr) EXCEPT !.live = r.live]

Ends(r, begun) ==
    /\ begun \subseteq Of(r).calls \cap DOMAIN Tasks
    /\ \A q \in running' : q \in running \ {r} \/ \E t \in begun : q = Begun(t, r)
    /\ \A q \in running \ {r} :
          q \in running' \/ (q.task \in begun /\ Tasks[q.task].again # "beside")
    /\ \A t \in begun : Begun(t, r) \in running'
    /\ flags' = (IF WillLower(r) THEN flags \ {Of(r).flag} ELSE flags) \cup Flags(begun)

LEMMA BegunTyped ==
    ASSUME StepsInOrder, ScreensTyped, NEW r \in running, NEW t \in DOMAIN Tasks
    PROVE  /\ Begun(t, r) \in RunType /\ Begun(t, r).step \in DOMAIN Tasks[t].steps
           /\ Begun(t, r).task = t /\ Begun(t, r).live = r.live /\ Begun(t, r).key = r.key
           /\ ~Begun(t, r).stored /\ Begun(t, r).at = "sent" /\ Begun(t, r).step = 1
           /\ Begun(t, r).got = Unset
<1> DEFINE s == Start(t, r.key, r.nr)
<1>1. r.key \in Records /\ r.nr \in Nat /\ r.live \in BOOLEAN
  BY DEF ScreensTyped, RunsTyped, RunType
<1>2. /\ s \in RunType /\ s.step \in DOMAIN Tasks[t].steps
      /\ s.task = t /\ s.key = r.key /\ s.live
      /\ ~s.stored /\ s.at = "sent" /\ s.step = 1 /\ s.got = Unset
  BY <1>1, Started DEF ScreensTyped
<1> HIDE DEF s
<1>3. Begun(t, r) = [s EXCEPT !.live = r.live]
  BY DEF Begun, s
<1>4. QED
  BY <1>1, <1>2, <1>3 DEF RunType

LEMMA FinishEnds ==
    ASSUME ScreensTyped, NEW r \in running,
           NEW called \in SUBSET (Of(r).calls \cap DOMAIN Tasks), Finish(r, called)
    PROVE  \E begun : Ends(r, begun)
<1> DEFINE begun == {t \in called : ~Joined(t)}
           over  == UNION {Runs(t) : t \in {x \in begun : Tasks[x].again # "beside"}}
<1>1. /\ running' = (running \ ({r} \cup over)) \cup {Begun(t, r) : t \in begun}
      /\ flags' = (IF WillLower(r) THEN flags \ {Of(r).flag} ELSE flags) \cup Flags(begun)
  BY DEF Finish, Begun
<1>2. \A q \in over : q.task \in begun /\ Tasks[q.task].again # "beside"
  BY DEF Runs
<1>3. begun \subseteq Of(r).calls \cap DOMAIN Tasks
  OBVIOUS
<1> HIDE DEF begun, over
<1>4. QED
  BY <1>1, <1>2, <1>3 DEF Ends

LEMMA FailEnds ==
    ASSUME ScreensTyped, NEW r \in running, Fail(r)
    PROVE  \E begun : Ends(r, begun)
<1>1. Finish(r, {}) /\ {} \in SUBSET (Of(r).calls \cap DOMAIN Tasks)
  BY DEF Fail
<1>2. QED
  BY <1>1, FinishEnds

\* The actions that leave the tasks under way alone; of these, one lowers flags.
Beside == Rest \/ (\E t \in DOMAIN Tasks : Change(t)) \/ OpenForm \/ TypeIn \/ CloseForm

LEMMA BesideKeeps ==
    ASSUME ScreensTyped, Beside
    PROVE  /\ running' = running /\ flags' \subseteq flags
           /\ \A f \in flags \ flags' : \E part \in Parts : f \in part.frees
<1>1. CASE Rest \/ (\E t \in DOMAIN Tasks : Change(t)) \/ TypeIn \/ CloseForm
  BY <1>1 DEF Rest, Change, TypeIn, CloseForm, screenVars
<1>2. CASE OpenForm
  BY <1>2 DEF OpenForm
<1>3. QED
  BY <1>1, <1>2 DEF Beside

\* Every step, by what it does to the tasks under way.
LEMMA StepShapes ==
    ASSUME StepsInOrder, ScreensTyped, [ScreensNext]_screenVars
    PROVE  /\ scene' = scene
           /\ \/ UNCHANGED screenVars \/ Beside
              \/ \E k \in Records : Move(k)
              \/ \E t \in DOMAIN Tasks : Press(t)
              \/ \E r \in running :
                     \/ \E q : GoesOn(r, q)
                     \/ \E begun : Ends(r, begun)
<1>1. CASE UNCHANGED screenVars
  BY <1>1 DEF screenVars
<1>2. CASE ScreensNext
  <2>1. CASE Rest \/ OpenForm \/ TypeIn \/ CloseForm
    BY <2>1 DEF Beside, Rest, OpenForm, TypeIn, CloseForm, screenVars
  <2>2. ASSUME NEW k \in Records, Move(k) PROVE scene' = scene
    BY <2>2 DEF Move
  <2>3. ASSUME NEW t \in DOMAIN Tasks, Press(t) PROVE scene' = scene
    BY <2>3 DEF Press
  <2>4. ASSUME NEW t \in DOMAIN Tasks, Change(t) PROVE scene' = scene /\ Beside
    BY <2>4 DEF Change, Beside
  <2>5. ASSUME NEW r \in running, Reply(r) PROVE scene' = scene /\ \E q : GoesOn(r, q)
    BY <2>5, ReplyGoesOn DEF Reply
  <2>6. ASSUME NEW r \in running, Error(r) PROVE scene' = scene /\ \E q : GoesOn(r, q)
    BY <2>6, ErrorGoesOn DEF Error
  <2>7. ASSUME NEW r \in running, Resume(r)
        PROVE  scene' = scene /\ ((\E q : GoesOn(r, q)) \/ \E begun : Ends(r, begun))
    <3>1. scene' = scene
      BY <2>7 DEF Resume
    <3>2. QED
      BY <2>7, <3>1, ResumeShapes, FinishEnds
  <2>8. ASSUME NEW r \in running, Fail(r) PROVE scene' = scene /\ \E begun : Ends(r, begun)
    BY <2>8, FailEnds DEF Fail
  <2>9. QED
    BY <1>2, <2>1, <2>2, <2>3, <2>4, <2>5, <2>6, <2>7, <2>8 DEF ScreensNext
<1>3. QED
  BY <1>1, <1>2

\* The tasks under way after a change of the address.
Cut(r) == [r EXCEPT !.live = FALSE]

LEMMA CutTyped ==
    ASSUME NEW r \in RunType
    PROVE  /\ Cut(r) \in RunType /\ ~Cut(r).live /\ Cut(r).task = r.task
           /\ Cut(r).key = r.key /\ Cut(r).step = r.step /\ Cut(r).at = r.at
           /\ Cut(r).stored = r.stored /\ Cut(r).got = r.got
  BY DEF Cut, RunType

LEMMA MoveRuns ==
    ASSUME ScreensTyped, NEW k \in Records, Move(k)
    PROVE  /\ used.moves + 1 \in Nat
           /\ running' = {Cut(r) : r \in running}
                         \cup {Start(t, k, used.moves + 1) : t \in OnRoute}
           /\ flags' = flags \cup Flags(OnRoute)
           /\ OnRoute \subseteq DOMAIN Tasks
           /\ \A t \in OnRoute : Tasks[t].start = "route"
<1>1. used'.moves = used.moves + 1 /\ used.moves + 1 \in Nat
  BY DEF Move, ScreensTyped, DataTyped
<1>2. QED
  BY <1>1 DEF Move, Cut, OnRoute

LEMMA PressRuns ==
    ASSUME ScreensTyped, NEW t \in DOMAIN Tasks, Press(t)
    PROVE  /\ used.clicks \in Nat /\ route \in Records
           /\ running' = running \cup {Start(t, route, used.clicks)}
           /\ flags' = flags \cup Flags({t})
           /\ Tasks[t].start = "click" /\ CanUse(t)
  BY DEF Press, ScreensTyped, DataTyped

LEMMA PressStarts ==
    ASSUME StepsInOrder, ScreensTyped, NEW t \in DOMAIN Tasks, Press(t)
    PROVE  LET s == Start(t, route, used.clicks)
           IN  s \in RunType /\ s.task = t /\ s.key = route /\ s.live /\ Of(s) = Tasks[t]
<1>1. route \in Records /\ used.clicks \in Nat
  BY PressRuns
<1>2. QED
  BY <1>1, Started DEF Of, ScreensTyped

LEMMA RunsTypedNext ==
    ASSUME StepsInOrder, ScreensTyped, [ScreensNext]_screenVars
    PROVE  RunsTyped'
<1> DEFINE Fine(r) == r \in RunType /\ r.step \in DOMAIN Of(r).steps
<1>1. SceneOK /\ \A r \in running : Fine(r)
  BY DEF ScreensTyped, RunsTyped
<1>2. scene' = scene
  BY StepShapes
<1>3. (\A r \in running' : Fine(r)) => RunsTyped'
  BY <1>2 DEF RunsTyped, RunType, Of, Tasks
<1>4. CASE UNCHANGED screenVars \/ Beside
  <2>1. running' = running
    BY <1>4, BesideKeeps DEF screenVars
  <2>2. QED
    BY <1>1, <1>3, <2>1
<1>5. ASSUME NEW k \in Records, Move(k) PROVE RunsTyped'
  <2>1. ASSUME NEW r \in running PROVE Fine(Cut(r))
    BY <1>1, CutTyped DEF Of
  <2>2. ASSUME NEW t \in OnRoute PROVE Fine(Start(t, k, used.moves + 1))
    BY <1>1, <1>5, MoveRuns, Started DEF Of
  <2> HIDE DEF Fine
  <2>3. QED
    BY <1>3, <1>5, <2>1, <2>2, MoveRuns
<1>6. ASSUME NEW t \in DOMAIN Tasks, Press(t) PROVE RunsTyped'
  <2>1. Fine(Start(t, route, used.clicks))
    <3>1. route \in Records /\ used.clicks \in Nat
      BY <1>6, PressRuns
    <3>2. QED
      BY <1>1, <3>1, Started DEF Of
  <2> HIDE DEF Fine
  <2>2. QED
    BY <1>1, <1>3, <1>6, <2>1, PressRuns
<1>7. ASSUME NEW r \in running, NEW q, GoesOn(r, q) PROVE RunsTyped'
  <2>1. Fine(q) /\ running' = (running \ {r}) \cup {q}
    BY <1>7 DEF GoesOn, Of
  <2> HIDE DEF Fine
  <2>2. QED
    BY <1>1, <1>3, <2>1
<1>8. ASSUME NEW r \in running, NEW begun, Ends(r, begun) PROVE RunsTyped'
  <2>1. \A t \in begun : Fine(Begun(t, r))
    BY <1>8, BegunTyped DEF Of, Ends
  <2>2. \A q \in running' : q \in running \/ \E t \in begun : q = Begun(t, r)
    BY <1>8 DEF Ends
  <2> HIDE DEF Fine
  <2>3. QED
    BY <1>1, <1>3, <2>1, <2>2
<1>9. QED
  BY <1>4, <1>5, <1>6, <1>7, <1>8, StepShapes

LEMMA FlagsNamed ==
    ASSUME StepsInOrder, ScreensTyped, [ScreensNext]_screenVars
    PROVE  Nil \notin flags'
<1>1. Nil \notin flags /\ \A ts : Nil \notin Flags(ts)
  BY DEF ScreensTyped, DataTyped, Flags
<1>2. CASE UNCHANGED screenVars \/ Beside
  BY <1>1, <1>2, BesideKeeps DEF screenVars
<1>3. ASSUME NEW k \in Records, Move(k) PROVE Nil \notin flags'
  BY <1>1, <1>3, MoveRuns
<1>4. ASSUME NEW t \in DOMAIN Tasks, Press(t) PROVE Nil \notin flags'
  BY <1>1, <1>4, PressRuns
<1>5. ASSUME NEW r \in running, NEW q, GoesOn(r, q) PROVE Nil \notin flags'
  BY <1>1, <1>5 DEF GoesOn
<1>6. ASSUME NEW r \in running, NEW begun, Ends(r, begun) PROVE Nil \notin flags'
  BY <1>1, <1>6 DEF Ends
<1>7. QED
  BY <1>2, <1>3, <1>4, <1>5, <1>6, StepShapes

LEMMA ShownTyped ==
    ASSUME shown \in Versions, NEW r \in RunType, NEW ts
    PROVE  Shown(r) \in Versions /\ Cleared(ts, Shown(r)) \in Versions
<1>1. Shown(r) \in {shown, [shown EXCEPT !.of = r.key, !.version = @ + 1], r.got}
  BY DEF Shown
<1>2. Empty \in Versions /\ r.got \in Versions
  BY DEF Empty, Versions, Whose, RunType
<1>3. [shown EXCEPT !.of = r.key, !.version = @ + 1] \in Versions
  <2>1. r.key \in Whose /\ shown.version + 1 \in Nat
    BY DEF Versions, Whose, RunType
  <2>2. QED
    BY <2>1 DEF Versions
<1>4. QED
  BY <1>1, <1>2, <1>3 DEF Cleared

LEMMA DraftTypedNext ==
    ASSUME ScreensTyped, [ScreensNext]_screenVars
    PROVE  draft' \in [of: Whose, typed: BOOLEAN]
<1> DEFINE Drafts == [of: Whose, typed: BOOLEAN]
           Typed(b) == [draft EXCEPT !.typed = b]
<1>1. draft \in Drafts /\ NoDraft \in Drafts /\ route \in Whose
  BY DEF ScreensTyped, DataTyped, NoDraft, Whose
<1>2. \A k \in Whose : [NoDraft EXCEPT !.of = k] \in Drafts
  BY <1>1
<1>3. Typed(TRUE) \in Drafts /\ Typed(FALSE) \in Drafts
  BY <1>1
<1> SUFFICES draft' \in Drafts
  OBVIOUS
<1> HIDE DEF Drafts
<1>4. CASE UNCHANGED draft
  BY <1>1, <1>4
<1>5. ASSUME NEW k \in Records, Move(k) PROVE draft' \in Drafts
  BY <1>1, <1>5 DEF Move
<1>6. ASSUME NEW t \in DOMAIN Tasks, Press(t) PROVE draft' \in Drafts
  BY <1>1, <1>3, <1>6 DEF Press
<1>7. ASSUME NEW t \in DOMAIN Tasks, Change(t) PROVE draft' \in Drafts
  BY <1>1, <1>7 DEF Change
<1>8. CASE OpenForm
  <2>1. shown.of \in Whose
    BY DEF ScreensTyped, DataTyped, Versions
  <2>2. QED
    BY <1>1, <1>2, <1>8, <2>1 DEF OpenForm
<1>9. CASE TypeIn
  BY <1>3, <1>9 DEF TypeIn
<1>10. CASE CloseForm
  BY <1>1, <1>10 DEF CloseForm
<1>11. ASSUME NEW r \in running, Resume(r) PROVE draft' \in Drafts
  <2>1. r.key \in Whose
    BY DEF ScreensTyped, RunsTyped, RunType, Whose
  <2>2. DraftAfter(r) \in Drafts
    BY <1>1, <1>2, <2>1 DEF DraftAfter
  <2>3. QED
    BY <1>1, <1>11, <2>2 DEF Resume
<1>12. QED
  <2>1. \/ UNCHANGED draft \/ OpenForm \/ TypeIn \/ CloseForm
        \/ \E k \in Records : Move(k)
        \/ \E t \in DOMAIN Tasks : Press(t) \/ Change(t)
        \/ \E r \in running : Resume(r)
    BY DEF ScreensNext, screenVars, Rest, Reply, Error, Fail
  <2>2. QED
    BY <1>4, <1>5, <1>6, <1>7, <1>8, <1>9, <1>10, <1>11, <2>1

LEMMA DataTypedNext ==
    ASSUME StepsInOrder, ScreensTyped, [ScreensNext]_screenVars
    PROVE  DataTyped'
<1> DEFINE Uses == [moves: Nat, clicks: Nat, errors: Nat]
<1>1. /\ route \in Records /\ ver \in [Records -> Nat] /\ shown \in Versions /\ used \in Uses
      /\ running \subseteq RunType
  BY DEF ScreensTyped, DataTyped, RunsTyped
<1>2. Nil \notin flags' /\ draft' \in [of: Whose, typed: BOOLEAN]
  BY FlagsNamed, DraftTypedNext
<1> USE DEF DataTyped, Versions, Whose
<1>3. CASE UNCHANGED screenVars \/ Rest \/ OpenForm \/ TypeIn \/ CloseForm
  BY <1>1, <1>2, <1>3 DEF screenVars, Rest, OpenForm, TypeIn, CloseForm
<1>4. ASSUME NEW k \in Records, Move(k) PROVE DataTyped'
  <2>1. shown' \in Versions
    BY <1>1, <1>4 DEF Move, Cleared, Empty
  <2>2. used' \in Uses
    BY <1>1, <1>4 DEF Move
  <2>3. QED
    BY <1>1, <1>2, <1>4, <2>1, <2>2 DEF Move
<1>5. ASSUME NEW t \in DOMAIN Tasks, Press(t) PROVE DataTyped'
  BY <1>1, <1>2, <1>5 DEF Press
<1>6. ASSUME NEW t \in DOMAIN Tasks, Change(t) PROVE DataTyped'
  <2>1. Start(t, route, used.clicks) \in RunType
    BY <1>1, Started DEF ScreensTyped
  <2>2. shown' \in Versions
    BY <1>1, <1>6, <2>1, ShownTyped DEF Change
  <2>3. QED
    BY <1>1, <1>2, <1>6, <2>2 DEF Change
<1>7. ASSUME NEW r \in running, Reply(r) PROVE DataTyped'
  <2>1. r.key \in Records
    BY <1>1 DEF RunType
  <2>2. ver' \in [Records -> Nat]
    BY <1>1, <1>7, <2>1 DEF Reply
  <2>3. QED
    BY <1>1, <1>2, <1>7, <2>2 DEF Reply
<1>8. ASSUME NEW r \in running, Error(r) PROVE DataTyped'
  BY <1>1, <1>2, <1>8 DEF Error
<1>9. ASSUME NEW r \in running, Resume(r) PROVE DataTyped'
  <2>1. \E ts : shown' \in {shown, Cleared(ts, Shown(r))}
    BY <1>9 DEF Resume
  <2>2. shown' \in Versions
    BY <1>1, <2>1, ShownTyped
  <2>3. UNCHANGED <<route, ver, used>>
    BY <1>9 DEF Resume
  <2>4. QED
    BY <1>1, <1>2, <2>2, <2>3
<1>10. ASSUME NEW r \in running, Fail(r) PROVE DataTyped'
  BY <1>1, <1>2, <1>10 DEF Fail
<1>11. QED
  BY <1>3, <1>4, <1>5, <1>6, <1>7, <1>8, <1>9, <1>10 DEF ScreensNext

\* The types hold on any pages whose tasks have their steps in order.
THEOREM ScreensStayTyped ==
    ASSUME StepsInOrder PROVE ScreensSpec => []ScreensTyped
<1>1. ScreensInit => ScreensTyped
  BY ScreensTypedInit
<1>2. ScreensTyped /\ [ScreensNext]_screenVars => ScreensTyped'
  <2> SUFFICES ASSUME ScreensTyped, [ScreensNext]_screenVars PROVE ScreensTyped'
    OBVIOUS
  <2>1. scene' = scene
    BY StepShapes
  <2>2. SceneOK'
    BY <2>1 DEF ScreensTyped, SceneOK, Tasks, Parts, Saves
  <2>3. QED
    BY <2>2, RunsTypedNext, DataTypedNext DEF ScreensTyped
<1>3. QED
  BY <1>1, <1>2, PTL DEF ScreensSpec

-------------------------------------------------------------------------------
\* A flag that is up belongs to a task that will lower it, now or after any step.
LEMMA SpinnerNext ==
    ASSUME StepsInOrder, FlagsAreLowered, ScreensTyped, NoStuckSpinner,
           [ScreensNext]_screenVars
    PROVE  NoStuckSpinner'
<1> DEFINE Lowers(r, f) == Of(r).flag = f /\ (Of(r).lowers = "always" \/ r.live)
<1> SUFFICES ASSUME scene.page \notin LeftUp, NEW f \in flags'
             PROVE  \E q \in running' : Lowers(q, f)
  <2>1. scene' = scene
    BY StepShapes
  <2>2. QED
    BY <2>1 DEF NoStuckSpinner, Of, Tasks
<1>1. f \in flags => \E r \in running : Lowers(r, f)
  BY DEF NoStuckSpinner
<1>2. f # Nil
  BY FlagsNamed
<1>3. \A t \in DOMAIN Tasks : Tasks[t].flag = f =>
          \/ Tasks[t].lowers = "always"
          \/ /\ Tasks[t].lowers = "live" /\ Tasks[t].start = "route"
             /\ \A u \in DOMAIN Tasks : t \notin Tasks[u].calls
  BY <1>2 DEF FlagsAreLowered, ScreensTyped, SceneOK, CalledIn
<1>4. \A r \in running : r \in RunType /\ r.task \in DOMAIN Tasks
  BY DEF ScreensTyped, RunsTyped, RunType
<1>5. CASE UNCHANGED screenVars \/ Beside
  BY <1>1, <1>5, BesideKeeps DEF screenVars
<1>6. ASSUME NEW k \in Records, Move(k) PROVE \E q \in running' : Lowers(q, f)
  <2>1. CASE f \in Flags(OnRoute)
    <3>1. PICK t \in OnRoute : Tasks[t].flag = f
      BY <2>1 DEF Flags
    <3>2. Lowers(Start(t, k, used.moves + 1), f)
      BY <1>6, <3>1, MoveRuns, Started DEF Of, ScreensTyped
    <3>3. QED
      BY <1>6, <3>1, <3>2, MoveRuns
  <2>2. CASE f \in flags \ Flags(OnRoute)
    <3>1. PICK r \in running : Lowers(r, f)
      BY <1>1, <2>2
    <3>2. r.task \notin OnRoute
      BY <1>2, <2>2, <3>1 DEF Flags, Of
    <3>3. Of(r).lowers = "always"
      BY <1>3, <1>4, <3>1, <3>2 DEF Of, OnRoute
    <3>4. Lowers(Cut(r), f)
      BY <1>4, <3>1, <3>3, CutTyped DEF Of
    <3>5. QED
      BY <1>6, <3>4, MoveRuns
  <2>3. QED
    BY <1>6, <2>1, <2>2, MoveRuns
<1>7. ASSUME NEW t \in DOMAIN Tasks, Press(t) PROVE \E q \in running' : Lowers(q, f)
  <2>1. CASE f \in flags
    BY <1>1, <1>7, <2>1, PressRuns
  <2>2. CASE f \in Flags({t})
    <3>1. Tasks[t].flag = f /\ route \in Records /\ used.clicks \in Nat
      BY <1>7, <2>2, PressRuns DEF Flags
    <3>2. Lowers(Start(t, route, used.clicks), f)
      BY <3>1, Started DEF Of, ScreensTyped
    <3>3. QED
      BY <1>7, <3>2, PressRuns
  <2>3. QED
    BY <1>7, <2>1, <2>2, PressRuns
<1>8. ASSUME NEW r \in running, NEW q, GoesOn(r, q) PROVE \E x \in running' : Lowers(x, f)
  <2>1. f \in flags /\ q.task = r.task /\ q.live = r.live /\ running' = (running \ {r}) \cup {q}
    BY <1>8 DEF GoesOn
  <2>2. PICK x \in running : Lowers(x, f)
    BY <1>1, <2>1
  <2>3. x = r => Lowers(q, f)
    BY <2>1, <2>2 DEF Of
  <2>4. QED
    BY <2>1, <2>2, <2>3
<1>9. ASSUME NEW r \in running, NEW begun, Ends(r, begun) PROVE \E q \in running' : Lowers(q, f)
  <2>1. ASSUME NEW t \in begun, Tasks[t].flag = f PROVE \E q \in running' : Lowers(q, f)
    <3>1. t \in DOMAIN Tasks /\ t \in Of(r).calls /\ Begun(t, r) \in running'
      BY <1>9 DEF Ends
    <3>2. Tasks[t].lowers = "always"
      BY <1>3, <1>4, <2>1, <3>1 DEF Of
    <3>3. Lowers(Begun(t, r), f)
      BY <2>1, <3>1, <3>2, BegunTyped DEF Of
    <3>4. QED
      BY <3>1, <3>3
  <2>2. CASE f \in Flags(begun)
    BY <2>1, <2>2 DEF Flags
  <2>3. CASE f \notin Flags(begun)
    <3>1. f \in flags /\ (WillLower(r) => f # Of(r).flag)
      BY <1>9, <2>3 DEF Ends
    <3>2. PICK q \in running : Lowers(q, f)
      BY <1>1, <3>1
    <3>3. q # r
      <4>1. SUFFICES ASSUME q = r PROVE WillLower(r)
        BY <3>1, <3>2
      <4>2. Of(r).lowers = "always" \/ (Of(r).lowers = "live" /\ r.live)
        BY <1>3, <1>4, <3>2, <4>1 DEF Of
      <4>3. QED
        BY <4>2 DEF WillLower
    <3>4. q \in running' \/ q.task \in begun
      BY <1>9, <3>3 DEF Ends
    <3>5. QED
      BY <2>1, <3>2, <3>4 DEF Of
  <2>4. QED
    BY <2>2, <2>3
<1>10. QED
  BY <1>5, <1>6, <1>7, <1>8, <1>9, StepShapes

LEMMA SpinnerInit == ASSUME StepsInOrder, ScreensInit PROVE NoStuckSpinner
<1> SUFFICES ASSUME NEW f \in flags
             PROVE  \E r \in running : Of(r).flag = f /\ r.live
  BY DEF NoStuckSpinner
<1>1. PICK t \in OnRoute : Tasks[t].flag = f
  BY DEF ScreensInit, Flags
<1>2. SceneOK /\ t \in DOMAIN Tasks /\ route \in Records
  BY <1>1, SceneTaken, FirstIsRecord DEF OnRoute, ScreensInit
<1>3. Start(t, route, 0) \in running
  BY <1>1 DEF ScreensInit
<1>4. QED
  BY <1>1, <1>2, <1>3, Started DEF Of

\* NoStuckSpinner, on any pages whose tasks lower their flags.
THEOREM FlagsComeDown ==
    ASSUME StepsInOrder, FlagsAreLowered PROVE ScreensSpec => []NoStuckSpinner
<1>1. ScreensInit => NoStuckSpinner
  BY SpinnerInit
<1>2. ScreensTyped /\ NoStuckSpinner /\ [ScreensNext]_screenVars => NoStuckSpinner'
  BY SpinnerNext
<1>3. QED
  BY <1>1, <1>2, ScreensStayTyped, PTL DEF ScreensSpec

-------------------------------------------------------------------------------
\* A task that has stored its change has sent it in a step that was answered.
Sent(r) ==
    \E m \in DOMAIN Of(r).steps :
        /\ Of(r).steps[m].sends # Nil
        /\ m < r.step \/ (m = r.step /\ r.at # "sent")

Catches(r) ==
    Careful(scene.page, r.task) => (r.stored => Sent(r) /\ r.at # "failed")

ErrorsAreCaught == \A r \in running : Catches(r)

LEMMA CatchesNext ==
    ASSUME StepsInOrder, CarefulCatch, ScreensTyped, ErrorsAreCaught, FailedMeansNotSaved,
           [ScreensNext]_screenVars
    PROVE  ErrorsAreCaught' /\ FailedMeansNotSaved'
<1>1. scene' = scene
  BY StepShapes
<1>2. (\A r \in running' : Catches(r)) => ErrorsAreCaught'
  BY <1>1 DEF ErrorsAreCaught, Catches, Sent, Of, Tasks
<1>3. /\ \A r \in running : Catches(r)
      /\ \A r \in running :
            r \in RunType /\ r.task \in DOMAIN Tasks /\ r.step \in DOMAIN Of(r).steps
  BY DEF ErrorsAreCaught, ScreensTyped, RunsTyped, RunType
<1>4. \A r : ~r.stored => Catches(r)
  BY DEF Catches
<1>5. denied' \subseteq denied => FailedMeansNotSaved'
  BY <1>1 DEF FailedMeansNotSaved
<1>6. ASSUME UNCHANGED screenVars \/ Beside PROVE ErrorsAreCaught' /\ FailedMeansNotSaved'
  <2>1. running' = running
    BY <1>6, BesideKeeps DEF screenVars
  <2>2. denied' = denied
    BY <1>6 DEF Beside, Rest, Change, OpenForm, TypeIn, CloseForm, screenVars
  <2>3. QED
    BY <1>2, <1>3, <1>5, <2>1, <2>2
<1>7. ASSUME NEW k \in Records, Move(k) PROVE ErrorsAreCaught' /\ FailedMeansNotSaved'
  <2>1. ASSUME NEW r \in running PROVE Catches(Cut(r))
    BY <1>3, CutTyped DEF Catches, Sent, Of
  <2>2. ASSUME NEW t \in OnRoute PROVE Catches(Start(t, k, used.moves + 1))
    BY <1>4, <1>7, MoveRuns, Started DEF ScreensTyped
  <2>3. denied' = denied
    BY <1>7 DEF Move
  <2> HIDE DEF Catches
  <2>4. QED
    BY <1>2, <1>5, <1>7, <2>1, <2>2, <2>3, MoveRuns
<1>8. ASSUME NEW t \in DOMAIN Tasks, Press(t) PROVE ErrorsAreCaught' /\ FailedMeansNotSaved'
  <2>1. Catches(Start(t, route, used.clicks))
    BY <1>4, <1>8, PressRuns, Started DEF ScreensTyped
  <2>2. denied' = denied
    BY <1>8 DEF Press
  <2>3. QED
    BY <1>2, <1>3, <1>5, <1>8, <2>1, <2>2, PressRuns
<1>9. ASSUME NEW r \in running, NEW q, GoesOn(r, q), denied' = denied, Catches(q)
      PROVE  ErrorsAreCaught' /\ FailedMeansNotSaved'
  BY <1>2, <1>3, <1>5, <1>9 DEF GoesOn
<1>10. ASSUME NEW r \in running, Reply(r) PROVE ErrorsAreCaught' /\ FailedMeansNotSaved'
  <2>1. PICK q : GoesOn(r, q) /\ Answered(r, q)
    BY <1>10, ReplyGoesOn
  <2>2. /\ q.task = r.task /\ q.step = r.step /\ q.at = "answered"
        /\ q.stored <=> r.stored \/ Of(r).steps[r.step].sends # Nil
    BY <2>1 DEF GoesOn, Answered, StepOf
  <2>3. Catches(q)
    <3>1. Sent(r) => Sent(q)
      BY <2>2 DEF Sent, Of
    <3>2. Of(r).steps[r.step].sends # Nil => Sent(q)
      BY <1>3, <2>2 DEF Sent, Of
    <3>3. QED
      BY <1>3, <2>2, <3>1, <3>2 DEF Catches
  <2>4. QED
    BY <1>9, <1>10, <2>1, <2>3 DEF Reply
<1>11. ASSUME NEW r \in running, Error(r) PROVE ErrorsAreCaught' /\ FailedMeansNotSaved'
  <2>1. PICK q : GoesOn(r, q) /\ Stumbles(r, q)
    BY <1>11, ErrorGoesOn
  <2>2. /\ q.task = r.task /\ q.step = r.step /\ q.stored = r.stored /\ r.at = "sent"
        /\ q.at = "failed" => "fail" \in Outcomes(StepOf(r))
    BY <2>1 DEF GoesOn, Stumbles
  <2>3. Catches(q)
    <3>1. SUFFICES ASSUME Careful(scene.page, r.task), r.stored PROVE Sent(q) /\ q.at # "failed"
      BY <2>2 DEF Catches
    <3>2. PICK m \in DOMAIN Of(r).steps : Of(r).steps[m].sends # Nil /\ m < r.step
      BY <1>3, <2>2, <3>1 DEF Catches, Sent
    <3>3. Sent(q)
      BY <2>2, <3>2 DEF Sent, Of
    <3>4. NothingFailsAfter(Of(r))
      BY <1>3, <3>1 DEF CarefulCatch, ScreensTyped, SceneOK, Of
    <3>5. /\ StepOf(r).sends = Nil
          /\ \A s \in DOMAIN StepOf(r).gets : StepOf(r).gets[s].else # "fail"
      BY <1>3, <3>2, <3>4 DEF NothingFailsAfter, StepOf
    <3>6. "fail" \notin Outcomes(StepOf(r))
      BY <3>5 DEF Outcomes
    <3>7. QED
      BY <2>2, <3>3, <3>6
  <2>4. QED
    BY <1>9, <1>11, <2>1, <2>3 DEF Error
<1>12. ASSUME NEW r \in running, NEW begun, Ends(r, begun)
       PROVE  ErrorsAreCaught'
  <2>1. \A t \in begun : Catches(Begun(t, r))
    BY <1>4, <1>12, BegunTyped DEF Ends
  <2>2. \A q \in running' : q \in running \/ \E t \in begun : q = Begun(t, r)
    BY <1>12 DEF Ends
  <2> HIDE DEF Catches
  <2>3. QED
    BY <1>2, <1>3, <2>1, <2>2
<1>13. ASSUME NEW r \in running, Resume(r) PROVE ErrorsAreCaught' /\ FailedMeansNotSaved'
  <2>1. denied' = denied
    BY <1>13 DEF Resume
  <2>2. CASE \E begun : Ends(r, begun)
    BY <1>5, <1>12, <2>1, <2>2
  <2>3. CASE \E q : GoesOn(r, q) /\ NextStep(r, q)
    <3>1. PICK q : GoesOn(r, q) /\ NextStep(r, q)
      BY <2>3
    <3>2. /\ q.task = r.task /\ q.stored = r.stored /\ q.at # "failed" /\ q.step = r.step + 1
          /\ r.step \in Nat
      BY <1>3, <3>1 DEF GoesOn, NextStep, RunType
    <3>3. Sent(r) => Sent(q)
      <4>1. SUFFICES ASSUME NEW m \in DOMAIN Of(r).steps,
                            m < r.step \/ m = r.step
                     PROVE  m < q.step
        BY <3>2 DEF Sent, Of
      <4>2. m \in Nat
        BY <1>3 DEF StepsInOrder, ScreensTyped, SceneOK, Of
      <4>3. QED
        BY <3>2, <4>1, <4>2
    <3>4. Catches(q)
      BY <1>3, <3>2, <3>3 DEF Catches
    <3>5. QED
      BY <1>9, <2>1, <3>1, <3>4
  <2>4. QED
    BY <1>13, <2>2, <2>3, ResumeShapes, FinishEnds
<1>14. ASSUME NEW r \in running, Fail(r) PROVE ErrorsAreCaught' /\ FailedMeansNotSaved'
  <2>1. Careful(scene.page, r.task) => denied' = denied
    BY <1>3, <1>14 DEF Fail, Catches
  <2>2. denied' \subseteq denied \cup {r.task}
    BY <1>14 DEF Fail
  <2>3. FailedMeansNotSaved'
    BY <1>1, <2>1, <2>2 DEF FailedMeansNotSaved
  <2>4. QED
    BY <1>12, <1>14, <2>3, FailEnds
<1>15. QED
  BY <1>6, <1>7, <1>8, <1>10, <1>11, <1>13, <1>14 DEF ScreensNext, Beside

\* FailedMeansNotSaved, on any pages whose careful clicks catch what follows their change.
THEOREM FailureIsTrue ==
    ASSUME StepsInOrder, CarefulCatch PROVE ScreensSpec => []FailedMeansNotSaved
<1>1. ScreensInit => ErrorsAreCaught /\ FailedMeansNotSaved
  <2> SUFFICES ASSUME ScreensInit PROVE ErrorsAreCaught /\ FailedMeansNotSaved
    OBVIOUS
  <2>1. FailedMeansNotSaved
    BY DEF ScreensInit, FailedMeansNotSaved
  <2>2. \A r \in running : \E t : r = Start(t, route, 0)
    BY DEF ScreensInit
  <2>3. \A r \in running : ~r.stored
    BY <2>2 DEF Start
  <2>4. QED
    BY <2>1, <2>3 DEF ErrorsAreCaught, Catches
<1>2. ScreensTyped /\ (ErrorsAreCaught /\ FailedMeansNotSaved) /\ [ScreensNext]_screenVars
      => (ErrorsAreCaught /\ FailedMeansNotSaved)'
  BY CatchesNext
<1>3. QED
  BY <1>1, <1>2, ScreensStayTyped, PTL DEF ScreensSpec

-------------------------------------------------------------------------------
\* While a click whose flag is held is under way, the flag is up, and the click is the only one.
HeldOnce(f) ==
    /\ \A r \in running : Of(r).flag = f => f \in flags
    /\ \A r, q \in running : Of(r).flag = f /\ Of(q).flag = f => r = q

\* The same of tasks that share a flag, for the present address, until something was left
\* behind or came late.
SharedOnce(f) ==
    /\ \A r \in running : Of(r).flag = f /\ Of(r).start = "click" => r.live
    /\ \A r \in running : Of(r).flag = f /\ r.live => f \in flags
    /\ \A r, q \in running : Of(r).flag = f /\ r.live /\ Of(q).flag = f /\ q.live => r = q

RunsOnce ==
    \A f \in Flags(DOMAIN Tasks) :
        /\ Held(scene.page, f) => HeldOnce(f)
        /\ Shared(scene.page, f) /\ rush \cap {"left", "late"} = {} => SharedOnce(f)

LEMMA FlagOfRaiser ==
    ASSUME SceneOK, NEW f \in Flags(DOMAIN Tasks)
    PROVE  /\ scene.page \in DOMAIN Pages
           /\ \E t \in RaisedBy(scene.page, f) : TRUE
           /\ \A t \in DOMAIN Tasks : Tasks[t].flag = f => t \in RaisedBy(scene.page, f)
  BY DEF SceneOK, Flags, RaisedBy

\* A click that is disabled by its flag is not made while the flag is up.
LEMMA DisabledClick ==
    ASSUME SceneOK, NEW t, NEW f \in flags, Disabled(scene.page, t, f)
    PROVE  ~CanUse(t)
  BY DEF SceneOK, Disabled, CanUse, Drawn

\* What is called by no task of a page is called by none that matters for what is watched.
LEMMA NotCalled ==
    ASSUME ScreensTyped, NEW t, t \notin CalledIn(Pages[scene.page]), NEW r \in running
    PROVE  t \notin Of(r).calls
<1>1. r.task \in DOMAIN Tasks
  BY DEF ScreensTyped, RunsTyped, RunType
<1>2. r.task \in DOMAIN Pages[scene.page] /\ Of(r) = Pages[scene.page][r.task]
  BY <1>1 DEF ScreensTyped, SceneOK, Of
<1>3. QED
  BY <1>2 DEF CalledIn

LEMMA HeldNext ==
    ASSUME StepsInOrder, ScreensTyped, [ScreensNext]_screenVars,
           NEW f \in Flags(DOMAIN Tasks), Held(scene.page, f), HeldOnce(f)
    PROVE  HeldOnce(f)'
<1>1. scene' = scene
  BY StepShapes
<1>2. /\ \A r \in running : Of(r).flag = f => f \in flags
      /\ \A r, q \in running : Of(r).flag = f /\ Of(q).flag = f => r = q
  BY DEF HeldOnce
<1>3. /\ \A t \in DOMAIN Tasks : Tasks[t].flag = f =>
             /\ Tasks[t].start = "click" /\ t \notin CalledIn(Pages[scene.page])
             /\ Disabled(scene.page, t, f)
      /\ \A part \in Parts : f \notin part.frees
  <2>1. \A t \in RaisedBy(scene.page, f) : HeldClick(scene.page, t, f)
    BY DEF Held
  <2>2. PICK t \in RaisedBy(scene.page, f) : Disabled(scene.page, t, f)
    BY <2>1, FlagOfRaiser DEF ScreensTyped, HeldClick
  <2>3. \A part \in Parts : f \notin part.frees
    BY <2>2 DEF Disabled, ScreensTyped, SceneOK
  <2>4. QED
    BY <2>1, <2>3, FlagOfRaiser DEF ScreensTyped, SceneOK, HeldClick
<1>4. \A r \in running : r \in RunType /\ r.task \in DOMAIN Tasks
  BY DEF ScreensTyped, RunsTyped, RunType
<1> DEFINE Goal == /\ \A r \in running' : Of(r).flag = f => f \in flags'
                   /\ \A r, q \in running' : Of(r).flag = f /\ Of(q).flag = f => r = q
<1>5. SUFFICES Goal
  BY <1>1 DEF HeldOnce, Of, Tasks
<1>6. CASE UNCHANGED screenVars \/ Beside
  <2>1. running' = running /\ (f \in flags => f \in flags')
    BY <1>3, <1>6, BesideKeeps DEF screenVars
  <2>2. QED
    BY <1>2, <2>1
<1>7. ASSUME NEW k \in Records, Move(k) PROVE Goal
  <2>1. \A t \in OnRoute : Of(Start(t, k, used.moves + 1)).flag # f
    BY <1>3, <1>7, MoveRuns, Started DEF Of, ScreensTyped
  <2>2. \A q \in running' : Of(q).flag = f =>
            \E r \in running : q = Cut(r) /\ Of(r).flag = f
    BY <1>4, <1>7, <2>1, MoveRuns, CutTyped DEF Of
  <2>3. flags \subseteq flags'
    BY <1>7, MoveRuns
  <2>4. QED
    BY <1>2, <2>2, <2>3
<1>8. ASSUME NEW t \in DOMAIN Tasks, Press(t) PROVE Goal
  <2> DEFINE s == Start(t, route, used.clicks)
  <2>1. /\ Of(s) = Tasks[t] /\ CanUse(t)
        /\ running' = running \cup {s} /\ flags' = flags \cup Flags({t})
    <3>1. Of(s) = Tasks[t]
      BY <1>8, PressStarts
    <3>2. QED
      BY <1>8, <3>1, PressRuns
  <2> HIDE DEF s
  <2>2. CASE Tasks[t].flag # f
    BY <1>2, <2>1, <2>2
  <2>3. CASE Tasks[t].flag = f
    <3>1. f \notin flags
      BY <1>3, <2>1, <2>3, DisabledClick DEF ScreensTyped
    <3>2. \A r \in running : Of(r).flag # f
      BY <1>2, <3>1
    <3>3. f \in flags'
      BY <2>1, <2>3 DEF Flags
    <3>4. QED
      BY <2>1, <3>2, <3>3
  <2>4. QED
    BY <2>2, <2>3
<1>9. ASSUME NEW r \in running, NEW q, GoesOn(r, q) PROVE Goal
  <2>1. Of(q) = Of(r) /\ running' = (running \ {r}) \cup {q} /\ flags' = flags
    BY <1>9 DEF GoesOn, Of
  <2>2. QED
    BY <1>2, <2>1
<1>10. ASSUME NEW r \in running, NEW begun, Ends(r, begun) PROVE Goal
  <2>1. \A t \in begun : Of(Begun(t, r)).flag # f
    <3>1. ASSUME NEW t \in begun PROVE Tasks[t].flag # f /\ t \in DOMAIN Tasks
      BY <1>3, <1>10, NotCalled DEF Ends
    <3>2. QED
      BY <3>1, BegunTyped DEF Of
  <2>2. \A q \in running' : Of(q).flag = f => q \in running \ {r}
    BY <1>10, <2>1 DEF Ends
  <2>3. \A q \in running' : Of(q).flag = f => f \in flags'
    <3>1. SUFFICES ASSUME NEW q \in running \ {r}, Of(q).flag = f PROVE f \in flags'
      BY <2>2
    <3>2. f \in flags /\ Of(r).flag # f
      BY <1>2, <3>1
    <3>3. QED
      BY <1>10, <3>2 DEF Ends
  <2>4. QED
    BY <1>2, <2>2, <2>3
<1>11. QED
  BY <1>6, <1>7, <1>8, <1>9, <1>10, StepShapes

\* What has happened stays known.
LEMMA RushGrows ==
    ASSUME ScreensTyped, [ScreensNext]_screenVars
    PROVE  rush \subseteq rush'
<1>1. CASE UNCHANGED screenVars \/ Beside
  BY <1>1 DEF Beside, Rest, Change, OpenForm, TypeIn, CloseForm, screenVars
<1>2. ASSUME NEW k \in Records, Move(k) PROVE rush \subseteq rush'
  BY <1>2 DEF Move
<1>3. ASSUME NEW t \in DOMAIN Tasks, Press(t) PROVE rush \subseteq rush'
  BY <1>3 DEF Press
<1>4. ASSUME NEW r \in running, Reply(r) PROVE rush \subseteq rush'
  BY <1>4 DEF Reply
<1>5. ASSUME NEW r \in running, Error(r) PROVE rush \subseteq rush'
  BY <1>5 DEF Error
<1>6. ASSUME NEW r \in running, Resume(r) PROVE rush \subseteq rush'
  BY <1>6 DEF Resume
<1>7. ASSUME NEW r \in running, Fail(r) PROVE rush \subseteq rush'
  BY <1>7 DEF Fail
<1>8. QED
  BY <1>1, <1>2, <1>3, <1>4, <1>5, <1>6, <1>7 DEF ScreensNext, Beside

\* The end of a task for an older address that lowers a flag is known to be late, if the task
\* takes in whatever comes.
LEMMA LateEnd ==
    ASSUME ScreensTyped, NEW r \in running, Resume(r) \/ Fail(r), ~r.live,
           WillLower(r), Of(r).flag \in flags,
           \A n \in DOMAIN Of(r).steps : ~Of(r).steps[n].guarded
    PROVE  "late" \in rush'
  BY DEF Resume, Fail, Late, StepOf, ScreensTyped, RunsTyped

LEMMA SharedNext ==
    ASSUME StepsInOrder, ScreensTyped, [ScreensNext]_screenVars,
           NEW f \in Flags(DOMAIN Tasks), Shared(scene.page, f), SharedOnce(f),
           rush' \cap {"left", "late"} = {}
    PROVE  SharedOnce(f)'
<1>1. scene' = scene
  BY StepShapes
<1>2. /\ \A r \in running : Of(r).flag = f /\ Of(r).start = "click" => r.live
      /\ \A r \in running : Of(r).flag = f /\ r.live => f \in flags
      /\ \A r, q \in running : Of(r).flag = f /\ r.live /\ Of(q).flag = f /\ q.live => r = q
  BY DEF SharedOnce
<1>3. /\ \A t \in DOMAIN Tasks : Tasks[t].flag = f =>
             /\ t \notin CalledIn(Pages[scene.page])
             /\ \/ Tasks[t].start = "click" /\ Disabled(scene.page, t, f)
                \/ /\ Tasks[t].start = "route"
                   /\ \A n \in DOMAIN Tasks[t].steps : ~Tasks[t].steps[n].guarded
      /\ \A t, u \in OnRoute : Tasks[t].flag = f /\ Tasks[u].flag = f => t = u
      /\ \A part \in Parts : f \notin part.frees
  BY FlagOfRaiser DEF Shared, HeldClick, PlainLoad, ScreensTyped, SceneOK, OnRoute
<1>4. \A r \in running : r \in RunType /\ r.task \in DOMAIN Tasks
  BY DEF ScreensTyped, RunsTyped, RunType
<1> DEFINE Goal ==
               /\ \A r \in running' : Of(r).flag = f /\ Of(r).start = "click" => r.live
               /\ \A r \in running' : Of(r).flag = f /\ r.live => f \in flags'
               /\ \A r, q \in running' :
                     Of(r).flag = f /\ r.live /\ Of(q).flag = f /\ q.live => r = q
<1>5. SUFFICES Goal
  BY <1>1 DEF SharedOnce, Of, Tasks
<1>6. CASE UNCHANGED screenVars \/ Beside
  <2>1. running' = running /\ (f \in flags => f \in flags')
    BY <1>3, <1>6, BesideKeeps DEF screenVars
  <2>2. QED
    BY <1>2, <2>1
<1>7. ASSUME NEW k \in Records, Move(k) PROVE Goal
  <2> DEFINE s(t) == Start(t, k, used.moves + 1)
  <2>1. \A t \in OnRoute : s(t).task = t /\ Of(s(t)) = Tasks[t] /\ s(t).live
    BY <1>7, MoveRuns, Started DEF Of, ScreensTyped
  <2>2. \A r \in running : Of(r).start # "click"
    BY <1>7 DEF Move
  <2>3. \A r \in running : Of(Cut(r)) = Of(r) /\ ~Cut(r).live
    BY <1>4, CutTyped DEF Of
  <2>4. \A q \in running' :
            \/ \E r \in running : q = Cut(r)
            \/ \E t \in OnRoute : q = s(t)
    BY <1>7, MoveRuns
  <2> HIDE DEF s
  <2>5. \A q \in running' : Of(q).flag = f /\ q.live =>
            \E t \in OnRoute : q = s(t) /\ Tasks[t].flag = f
    BY <2>1, <2>3, <2>4
  <2>6. \A q \in running' : Of(q).start = "click" => q.live
    BY <2>1, <2>2, <2>3, <2>4
  <2>7. \A t \in OnRoute : Tasks[t].flag = f => f \in flags'
    BY <1>7, MoveRuns, FlagsNamed DEF Flags
  <2>8. QED
    BY <1>3, <2>5, <2>6, <2>7
<1>8. ASSUME NEW t \in DOMAIN Tasks, Press(t) PROVE Goal
  <2> DEFINE s == Start(t, route, used.clicks)
  <2>1. /\ Of(s) = Tasks[t] /\ s.live /\ Tasks[t].start = "click" /\ CanUse(t)
        /\ running' = running \cup {s} /\ flags' = flags \cup Flags({t})
    <3>1. Of(s) = Tasks[t] /\ s.live
      BY <1>8, PressStarts
    <3>2. QED
      BY <1>8, <3>1, PressRuns
  <2> HIDE DEF s
  <2>2. CASE Tasks[t].flag # f
    BY <1>2, <2>1, <2>2
  <2>3. CASE Tasks[t].flag = f
    <3>1. f \notin flags
      BY <1>3, <2>1, <2>3, DisabledClick DEF ScreensTyped
    <3>2. \A r \in running : Of(r).flag = f => ~r.live
      BY <1>2, <3>1
    <3>3. f \in flags'
      BY <2>1, <2>3 DEF Flags
    <3>4. QED
      BY <1>2, <2>1, <3>2, <3>3
  <2>4. QED
    BY <2>2, <2>3
<1>9. ASSUME NEW r \in running, NEW q, GoesOn(r, q) PROVE Goal
  <2>1. Of(q) = Of(r) /\ q.live = r.live /\ running' = (running \ {r}) \cup {q} /\ flags' = flags
    BY <1>9 DEF GoesOn, Of
  <2>2. QED
    BY <1>2, <2>1
<1>10. ASSUME NEW r \in running, NEW begun, Ends(r, begun), Resume(r) \/ Fail(r) PROVE Goal
  <2>1. \A t \in begun : Of(Begun(t, r)).flag # f
    <3>1. ASSUME NEW t \in begun PROVE Tasks[t].flag # f /\ t \in DOMAIN Tasks
      BY <1>3, <1>10, NotCalled DEF Ends
    <3>2. QED
      BY <3>1, BegunTyped DEF Of
  <2>2. \A q \in running' : Of(q).flag = f => q \in running \ {r}
    BY <1>10, <2>1 DEF Ends
  <2>3. \A q \in running' : Of(q).flag = f /\ q.live => f \in flags'
    <3>1. SUFFICES ASSUME NEW q \in running \ {r}, Of(q).flag = f, q.live PROVE f \in flags'
      BY <2>2
    <3>2. f \in flags /\ (Of(r).flag = f => ~r.live)
      BY <1>2, <3>1
    <3>3. ~(Of(r).flag = f /\ WillLower(r))
      <4>1. SUFFICES ASSUME Of(r).flag = f, WillLower(r) PROVE FALSE
        OBVIOUS
      <4>2. ~r.live /\ Of(r).start # "click"
        BY <1>2, <3>2, <4>1
      <4>3. \A n \in DOMAIN Of(r).steps : ~Of(r).steps[n].guarded
        BY <1>3, <1>4, <4>1, <4>2 DEF Of
      <4>4. "late" \in rush'
        BY <1>10, <3>2, <4>1, <4>2, <4>3, LateEnd
      <4>5. QED
        BY <4>4
    <3>4. QED
      BY <1>10, <3>2, <3>3 DEF Ends
  <2>4. QED
    BY <1>2, <2>2, <2>3
<1>11. ASSUME NEW r \in running, Resume(r) PROVE Goal
  BY <1>9, <1>10, <1>11, ResumeShapes, FinishEnds
<1>12. ASSUME NEW r \in running, Fail(r) PROVE Goal
  BY <1>10, <1>12, FailEnds
<1>13. ASSUME NEW r \in running, Reply(r) \/ Error(r) PROVE Goal
  BY <1>9, <1>13, ReplyGoesOn, ErrorGoesOn
<1>14. QED
  BY <1>6, <1>7, <1>8, <1>11, <1>12, <1>13 DEF ScreensNext, Beside

LEMMA RunsOnceNext ==
    ASSUME StepsInOrder, ScreensTyped, RunsOnce, [ScreensNext]_screenVars
    PROVE  RunsOnce'
<1>1. scene' = scene /\ rush \subseteq rush'
  BY StepShapes, RushGrows
<1> SUFFICES ASSUME NEW f \in Flags(DOMAIN Tasks)
             PROVE  /\ Held(scene.page, f) => HeldOnce(f)'
                    /\ Shared(scene.page, f) /\ rush' \cap {"left", "late"} = {} => SharedOnce(f)'
  <2>1. Flags(DOMAIN Tasks)' = Flags(DOMAIN Tasks)
    BY <1>1 DEF Flags, Tasks
  <2>2. QED
    BY <1>1, <2>1 DEF RunsOnce
<1>2. Held(scene.page, f) => HeldOnce(f)'
  BY HeldNext DEF RunsOnce
<1>3. ASSUME Shared(scene.page, f), rush' \cap {"left", "late"} = {} PROVE SharedOnce(f)'
  <2>1. SharedOnce(f)
    BY <1>1, <1>3 DEF RunsOnce
  <2>2. QED
    BY <1>3, <2>1, SharedNext
<1>4. QED
  BY <1>2, <1>3

LEMMA RunsOnceInit == ASSUME StepsInOrder, ScreensInit PROVE RunsOnce
<1> SUFFICES ASSUME NEW f \in Flags(DOMAIN Tasks)
             PROVE  /\ Held(scene.page, f) => HeldOnce(f)
                    /\ Shared(scene.page, f) => SharedOnce(f)
  BY DEF RunsOnce
<1>1. SceneOK /\ OnRoute \subseteq DOMAIN Tasks /\ route \in Records
      /\ \A t \in OnRoute : Tasks[t].start = "route"
  BY SceneTaken, FirstIsRecord DEF OnRoute, ScreensInit
<1>2. \A r \in running : \E t \in OnRoute : r = Start(t, route, 0) /\ Of(r) = Tasks[t] /\ r.live
  <2>1. SUFFICES ASSUME NEW r \in running
                 PROVE  \E t \in OnRoute : r = Start(t, route, 0) /\ Of(r) = Tasks[t] /\ r.live
    OBVIOUS
  <2>2. PICK t \in OnRoute : r = Start(t, route, 0)
    BY DEF ScreensInit
  <2>3. QED
    BY <1>1, <2>2, Started DEF Of
<1>3. Held(scene.page, f) => HeldOnce(f)
  <2>1. Held(scene.page, f) => \A t \in OnRoute : Tasks[t].flag # f
    BY <1>1, FlagOfRaiser DEF Held, HeldClick, SceneOK
  <2>2. QED
    BY <1>2, <2>1 DEF HeldOnce
<1>4. Shared(scene.page, f) => SharedOnce(f)
  <2>1. Shared(scene.page, f) =>
            \A t, u \in OnRoute : Tasks[t].flag = f /\ Tasks[u].flag = f => t = u
    BY <1>1, FlagOfRaiser DEF Shared, SceneOK
  <2>2. \A t \in OnRoute : Tasks[t].flag = f => f \in flags
    BY DEF ScreensInit, Flags
  <2>3. QED
    BY <1>1, <1>2, <2>1, <2>2 DEF SharedOnce
<1>5. QED
  BY <1>3, <1>4

\* The click that is made is not under way.
LEMMA PressedOnce ==
    ASSUME StepsInOrder, ClicksAreHeld, ScreensTyped, RunsOnce, [ScreensNext]_screenVars
    PROVE  SendsOnce
<1> SUFFICES ASSUME used'.clicks # used.clicks, NEW r \in running' \ running,
                    Of(r)'.flag # Nil, <<scene'.page, r.task>> \notin FreeClicks,
                    <<scene'.page, r.task>> \in SharedFlags => rush \cap {"left", "late"} = {},
                    NEW q \in running, <<q.task, q.key>> = <<r.task, r.key>>
             PROVE  FALSE
  BY StepShapes DEF SendsOnce, Of, Tasks
<1>1. scene' = scene /\ Of(r)' = Of(r)
  BY StepShapes DEF Of, Tasks
<1>2. PICK t \in DOMAIN Tasks : Press(t)
  <2>1. UNCHANGED used \/ (\E t \in DOMAIN Tasks : Press(t) \/ Change(t))
        \/ (\E k \in Records : Move(k)) \/ (\E x \in running : Error(x))
    BY DEF ScreensNext, screenVars, Rest, OpenForm, TypeIn, CloseForm, Reply, Resume, Fail
  <2>2. used \in [moves: Nat, clicks: Nat, errors: Nat]
    BY DEF ScreensTyped, DataTyped
  <2>3. ASSUME NEW k \in Records, Move(k) PROVE used'.clicks = used.clicks
    BY <2>2, <2>3 DEF Move
  <2>4. ASSUME NEW x \in running, Error(x) PROVE used'.clicks = used.clicks
    BY <2>2, <2>4 DEF Error
  <2>5. ASSUME NEW t \in DOMAIN Tasks, Change(t) PROVE running' = running
    BY <2>5 DEF Change
  <2>6. QED
    BY <2>1, <2>3, <2>4, <2>5
<1>3. /\ r.task = t /\ Of(r) = Tasks[t] /\ Tasks[t].start = "click" /\ CanUse(t)
      /\ q.task = t /\ Of(q) = Tasks[t]
  <2>1. route \in Records /\ used.clicks \in Nat /\ r = Start(t, route, used.clicks)
    BY <1>2, PressRuns
  <2>2. r.task = t
    BY <2>1, Started DEF ScreensTyped
  <2>3. QED
    BY <1>2, <2>2, PressRuns DEF Of
<1> DEFINE f == Tasks[t].flag
<1>4. f \in Flags(DOMAIN Tasks) /\ f # Nil
  BY <1>1, <1>3 DEF Flags
<1>5. IF <<scene.page, t>> \in SharedFlags THEN Shared(scene.page, f) ELSE Held(scene.page, f)
  BY <1>1, <1>3, <1>4 DEF ClicksAreHeld, ScreensTyped, SceneOK
<1>6. t \in RaisedBy(scene.page, f)
  BY DEF RaisedBy, ScreensTyped, SceneOK
<1>7. f \notin flags
  <2>1. Disabled(scene.page, t, f)
    <3>1. HeldClick(scene.page, t, f) \/ PlainLoad(scene.page, t)
      BY <1>5, <1>6 DEF Held, Shared
    <3>2. Pages[scene.page][t].start = "click"
      BY <1>3 DEF ScreensTyped, SceneOK
    <3>3. QED
      BY <3>1, <3>2 DEF HeldClick, PlainLoad
  <2>2. QED
    BY <1>3, <2>1, DisabledClick DEF ScreensTyped
<1>8. f \in flags
  <2>1. CASE <<scene.page, t>> \in SharedFlags
    <3>1. SharedOnce(f)
      BY <1>1, <1>3, <1>4, <1>5, <2>1 DEF RunsOnce
    <3>2. QED
      BY <1>3, <3>1 DEF SharedOnce
  <2>2. CASE <<scene.page, t>> \notin SharedFlags
    <3>1. HeldOnce(f)
      BY <1>4, <1>5, <2>2 DEF RunsOnce
    <3>2. QED
      BY <1>3, <3>1 DEF HeldOnce
  <2>3. QED
    BY <2>1, <2>2
<1>9. QED
  BY <1>7, <1>8

\* SentOnce, on any pages whose clicks, but for the free ones, are disabled by their flags.
THEOREM ClicksSendOnce ==
    ASSUME StepsInOrder, ClicksAreHeld PROVE ScreensSpec => SentOnce
<1>1. ScreensInit => RunsOnce
  BY RunsOnceInit
<1>2. ScreensTyped /\ RunsOnce /\ [ScreensNext]_screenVars => RunsOnce'
  BY RunsOnceNext
<1>3. ScreensTyped /\ RunsOnce /\ [ScreensNext]_screenVars => [SendsOnce]_screenVars
  BY PressedOnce
<1>4. QED
  BY <1>1, <1>2, <1>3, ScreensStayTyped, PTL DEF ScreensSpec, SentOnce

-------------------------------------------------------------------------------
\* The form that is watched is one that cannot be typed into while it is saved.
FormHeld == <<scene.page, scene.form>> \in HeldForms

\* What is typed into a form is not what is being sent.
SavesQuiet ==
    FormHeld /\ rush \cap {"left", "late"} = {} /\ draft.typed =>
        \A r \in running : r.task \notin Saves

\* A click that changes the page alone takes no time.
LocalsAtRest ==
    \A r \in running : Of(r).start = "local" => r.task \in CalledIn(Pages[scene.page])

LEMMA LocalsAtRestNext ==
    ASSUME StepsInOrder, ScreensTyped, LocalsAtRest, [ScreensNext]_screenVars
    PROVE  LocalsAtRest'
<1> DEFINE Fine(r) == Of(r).start = "local" => r.task \in CalledIn(Pages[scene.page])
<1>1. scene' = scene
  BY StepShapes
<1>2. (\A r \in running' : Fine(r)) => LocalsAtRest'
  BY <1>1 DEF LocalsAtRest, Of, Tasks
<1>3. \A r \in running : Fine(r) /\ r \in RunType
  BY DEF LocalsAtRest, ScreensTyped, RunsTyped
<1>4. CASE UNCHANGED screenVars \/ Beside
  BY <1>2, <1>3, <1>4, BesideKeeps DEF screenVars
<1>5. ASSUME NEW k \in Records, Move(k) PROVE LocalsAtRest'
  <2>1. \A t \in OnRoute : Fine(Start(t, k, used.moves + 1))
    BY <1>5, MoveRuns, Started DEF Of, ScreensTyped
  <2>2. \A r \in running : Fine(Cut(r))
    BY <1>3, CutTyped DEF Of
  <2> HIDE DEF Fine
  <2>3. QED
    BY <1>2, <1>5, <2>1, <2>2, MoveRuns
<1>6. ASSUME NEW t \in DOMAIN Tasks, Press(t) PROVE LocalsAtRest'
  <2>1. Fine(Start(t, route, used.clicks))
    BY <1>6, PressRuns, PressStarts
  <2> HIDE DEF Fine
  <2>2. QED
    BY <1>2, <1>3, <1>6, <2>1, PressRuns
<1>7. ASSUME NEW r \in running, NEW q, GoesOn(r, q) PROVE LocalsAtRest'
  BY <1>2, <1>3, <1>7 DEF GoesOn, Of
<1>8. ASSUME NEW r \in running, NEW begun, Ends(r, begun) PROVE LocalsAtRest'
  <2>1. ASSUME NEW t \in begun PROVE Fine(Begun(t, r))
    <3>1. t \in DOMAIN Tasks /\ t \in CalledIn(Pages[scene.page])
      BY <1>8, NotCalled DEF Ends
    <3>2. QED
      BY <3>1, BegunTyped
  <2>2. \A q \in running' : q \in running \/ \E t \in begun : q = Begun(t, r)
    BY <1>8 DEF Ends
  <2> HIDE DEF Fine
  <2>3. QED
    BY <1>2, <1>3, <2>1, <2>2
<1>9. QED
  BY <1>4, <1>5, <1>6, <1>7, <1>8, StepShapes

LEMMA HeldFormParts ==
    ASSUME FormsAreHeld, FormHeld, scene.page \in DOMAIN Pages
    PROVE  /\ Apart(scene.page, scene.form)
           /\ \A part \in Views[scene.page] :
                 part.form = scene.form => HeldPart(scene.page, part)
<1> DEFINE held == <<scene.page, scene.form>>
<1>1. held \in HeldForms /\ held[1] = scene.page /\ held[2] = scene.form
  BY DEF FormHeld
<1> HIDE DEF held
<1>2. QED
  BY <1>1 DEF FormsAreHeld

LEMMA SavesAreClicks ==
    ASSUME FormsAreHeld, SceneOK, FormHeld, NEW t \in Saves
    PROVE  /\ t \in DOMAIN Tasks /\ Tasks[t].start \in {"click", "local"}
           /\ t \notin CalledIn(Pages[scene.page])
<1>1. PICK part \in Views[scene.page] :
          part.form = scene.form /\ part.form # Nil /\ t \in DOMAIN part.offers
  BY DEF SceneOK
<1>2. t \in DOMAIN Tasks /\ t \in DOMAIN Pages[scene.page] /\ Tasks[t] = Pages[scene.page][t]
  BY DEF SceneOK
<1>3. t \in ClicksOf(scene.page, part)
  BY <1>1, <1>2 DEF ClicksOf
<1>4. HeldPart(scene.page, part)
  BY <1>1, HeldFormParts DEF SceneOK
<1>5. QED
  BY <1>2, <1>3, <1>4 DEF HeldPart

\* A field of a form is disabled while a click of the form is under way.
LEMMA FieldsWait ==
    ASSUME ClicksAreHeld, FormsAreHeld, ScreensTyped, RunsOnce, FormHeld,
           rush \cap {"left", "late"} = {}, TypeIn, NEW r \in running, r.task \in Saves,
           Of(r).start = "click"
    PROVE  FALSE
<1> DEFINE t == r.task
           f == Of(r).flag
<1>1. PICK part \in Parts :
          /\ "type" \in DOMAIN part.offers /\ part.form = scene.form /\ part.form # Nil
          /\ part.waits \cap flags = {} /\ part.offers["type"] \cap flags = {}
  BY DEF TypeIn, CanUse, Drawn, Watched
<1>2. part \in Views[scene.page] /\ scene.page \in DOMAIN Pages
  BY DEF ScreensTyped, SceneOK
<1>3. t \in DOMAIN Tasks /\ t \in DOMAIN Pages[scene.page] /\ Of(r) = Pages[scene.page][t]
  BY DEF ScreensTyped, SceneOK, Of
<1>4. t \in ClicksOf(scene.page, part)
  <2>1. PICK x \in Views[scene.page] : x.form = scene.form /\ t \in DOMAIN x.offers
    BY DEF ScreensTyped, SceneOK
  <2>2. QED
    BY <1>1, <1>3, <2>1 DEF ClicksOf
<1>5. f # Nil /\ <<scene.page, t>> \notin FreeClicks /\ f \notin flags
  <2>1. HeldPart(scene.page, part)
    BY <1>1, <1>2, HeldFormParts
  <2>2. QED
    BY <1>1, <1>3, <1>4, <2>1 DEF HeldPart
<1>6. IF <<scene.page, t>> \in SharedFlags THEN Shared(scene.page, f) ELSE Held(scene.page, f)
  BY <1>2, <1>3, <1>5 DEF ClicksAreHeld
<1>7. f \in Flags(DOMAIN Tasks)
  BY <1>3, <1>5 DEF Flags, Of
<1>8. HeldOnce(f) \/ SharedOnce(f)
  BY <1>6, <1>7 DEF RunsOnce
<1>9. QED
  BY <1>5, <1>8 DEF HeldOnce, SharedOnce

LEMMA SavesQuietNext ==
    ASSUME StepsInOrder, ClicksAreHeld, FormsAreHeld, ScreensTyped, RunsOnce, LocalsAtRest,
           SavesQuiet, [ScreensNext]_screenVars
    PROVE  SavesQuiet'
<1>1. scene' = scene /\ rush \subseteq rush'
  BY StepShapes, RushGrows
<1> SUFFICES ASSUME FormHeld, rush' \cap {"left", "late"} = {}, draft'.typed
             PROVE  \A r \in running' : r.task \notin Saves
  BY <1>1 DEF SavesQuiet, Saves, FormHeld
<1>2. rush \cap {"left", "late"} = {}
  BY <1>1
<1>3. draft.typed => \A r \in running : r.task \notin Saves
  BY <1>2 DEF SavesQuiet
<1> DEFINE Goal == \A r \in running' : r.task \notin Saves
<1>4. \A t \in Saves : Tasks[t].start # "route" /\ t \notin CalledIn(Pages[scene.page])
  BY SavesAreClicks DEF ScreensTyped
<1>5. CASE UNCHANGED screenVars \/ Rest \/ CloseForm \/ OpenForm
  BY <1>3, <1>5 DEF screenVars, Rest, CloseForm, OpenForm, NoDraft
<1>6. CASE TypeIn
  <2>1. running' = running
    BY <1>6 DEF TypeIn
  <2>2. SUFFICES ASSUME NEW r \in running, r.task \in Saves PROVE FALSE
    BY <2>1
  <2>3. Of(r).start = "click"
    BY <2>2, SavesAreClicks DEF LocalsAtRest, ScreensTyped, Of
  <2>4. QED
    BY <1>2, <1>6, <2>2, <2>3, FieldsWait
<1>7. ASSUME NEW k \in Records, Move(k) PROVE Goal
  <2>1. draft.typed
    BY <1>7 DEF Move, NoDraft
  <2>2. \A t \in OnRoute : Start(t, k, used.moves + 1).task \notin Saves
    BY <1>4, <1>7, MoveRuns, Started DEF ScreensTyped
  <2>3. \A r \in running : Cut(r).task \notin Saves
    BY <1>3, <2>1, CutTyped DEF ScreensTyped, RunsTyped
  <2>4. QED
    BY <1>7, <2>2, <2>3, MoveRuns
<1>8. ASSUME NEW t \in DOMAIN Tasks, Press(t) PROVE Goal
  <2>1. t \notin Saves /\ draft.typed
    BY <1>8 DEF Press, ScreensTyped, DataTyped
  <2>2. route \in Records /\ used.clicks \in Nat
    BY <1>8, PressRuns
  <2>3. Start(t, route, used.clicks).task = t
    BY <2>2, Started DEF ScreensTyped
  <2>4. QED
    BY <1>3, <1>8, <2>1, <2>3, PressRuns
<1>9. ASSUME NEW t \in DOMAIN Tasks, Change(t) PROVE Goal
  BY <1>3, <1>9 DEF Change, NoDraft
<1>10. ASSUME NEW r \in running, NEW q, GoesOn(r, q), draft.typed PROVE Goal
  BY <1>3, <1>10 DEF GoesOn
<1>11. ASSUME NEW r \in running, NEW begun, Ends(r, begun), draft.typed PROVE Goal
  <2>1. \A t \in begun : Begun(t, r).task \notin Saves
    BY <1>4, <1>11, BegunTyped, NotCalled DEF Ends
  <2>2. QED
    BY <1>3, <1>11, <2>1 DEF Ends
<1>12. ASSUME NEW r \in running, Resume(r) PROVE Goal
  <2>1. draft.typed
    BY <1>12 DEF Resume, DraftAfter, NoDraft
  <2>2. QED
    BY <1>10, <1>11, <1>12, <2>1, ResumeShapes, FinishEnds
<1>13. ASSUME NEW r \in running, Reply(r) \/ Error(r) \/ Fail(r) PROVE Goal
  <2>1. draft.typed
    BY <1>13 DEF Reply, Error, Fail
  <2>2. QED
    BY <1>10, <1>11, <1>13, <2>1, ReplyGoesOn, ErrorGoesOn, FailEnds
<1>14. QED
  BY <1>5, <1>6, <1>7, <1>8, <1>9, <1>12, <1>13 DEF ScreensNext

LEMMA KeptNext ==
    ASSUME FormsAreHeld, ScreensTyped, SavesQuiet, TypedIsKept, [ScreensNext]_screenVars
    PROVE  TypedIsKept'
<1>1. scene' = scene /\ rush \subseteq rush'
  BY RushGrows DEF ScreensNext, screenVars, Rest, Move, Press, Change, OpenForm, TypeIn,
                   CloseForm, Reply, Error, Resume, Fail
<1> SUFFICES ASSUME FormHeld, "lost" \in rush', rush' \cap {"left", "late"} = {}
             PROVE  FALSE
  BY <1>1 DEF TypedIsKept, FormHeld
<1>2. "lost" \notin rush /\ rush \cap {"left", "late"} = {}
  BY <1>1 DEF TypedIsKept, FormHeld
<1>3. PICK r \in running : Resume(r)
  BY <1>2 DEF ScreensNext, screenVars, Rest, Move, Press, Change, OpenForm, TypeIn,
              CloseForm, Reply, Error, Fail
<1>4. draft.typed /\ ~draft'.typed
  BY <1>2, <1>3 DEF Resume
<1>5. scene.form \notin Of(r).fills \cup Of(r).shuts
  <2>1. r.task \in DOMAIN Pages[scene.page] /\ Of(r) = Pages[scene.page][r.task]
    BY DEF ScreensTyped, SceneOK, RunsTyped, RunType, Of
  <2>2. Apart(scene.page, scene.form)
    BY HeldFormParts DEF ScreensTyped, SceneOK
  <2>3. QED
    BY <2>1, <2>2 DEF Apart
<1>6. r.task \in Saves
  BY <1>3, <1>4, <1>5 DEF Resume, DraftAfter
<1>7. QED
  BY <1>2, <1>4, <1>6 DEF SavesQuiet

\* TypedIsKept, of any forms that cannot be typed into while they are sent and that no
\* answer but their own closes or fills.
THEOREM WhatIsTypedIsKept ==
    ASSUME StepsInOrder, ClicksAreHeld, FormsAreHeld PROVE ScreensSpec => []TypedIsKept
<1>1. ScreensInit => RunsOnce
  BY RunsOnceInit
<1>2. ScreensInit => LocalsAtRest /\ SavesQuiet /\ TypedIsKept
  <2> SUFFICES ASSUME ScreensInit PROVE LocalsAtRest /\ SavesQuiet /\ TypedIsKept
    OBVIOUS
  <2>1. \A r \in running : Of(r).start = "route"
    <3>1. SUFFICES ASSUME NEW t \in OnRoute PROVE Of(Start(t, route, 0)).start = "route"
      BY DEF ScreensInit
    <3>2. QED
      BY DEF OnRoute, Of, Start
  <2>2. QED
    BY <2>1 DEF ScreensInit, LocalsAtRest, SavesQuiet, TypedIsKept, NoDraft
<1>3. ScreensTyped /\ RunsOnce /\ [ScreensNext]_screenVars => RunsOnce'
  BY RunsOnceNext
<1>4. ScreensTyped /\ RunsOnce /\ (LocalsAtRest /\ SavesQuiet /\ TypedIsKept)
          /\ [ScreensNext]_screenVars
      => (LocalsAtRest /\ SavesQuiet /\ TypedIsKept)'
  BY LocalsAtRestNext, SavesQuietNext, KeptNext
<1>5. QED
  BY <1>1, <1>2, <1>3, <1>4, ScreensStayTyped, PTL DEF ScreensSpec
-------------------------------------------------------------------------------
\* OwnRecordShown.  Only a change of the address can leave a slot with another record; then
\* the page is hidden, or a load of the new address is under way behind its flag, and shows
\* what it has fetched before its end.
SceneWhole ==
    /\ \A t \in DOMAIN Pages[scene.page] :
          LET task == Pages[scene.page][t]
          IN  \/ scene.slot \in SlotsOf(task) \/ task.flag = "loading"
              \/ scene.form \in task.clears \cup task.fills
              => t \in DOMAIN Tasks
    /\ scene.form # Nil =>
          \E part \in Views[scene.page] :
              /\ part.form = scene.form /\ part.fills = scene.slot
              /\ DOMAIN part.offers # {"type"}

\* What a task under way has for the slot is of its own record.
OwnAnswer(r) == r.got = Unset \/ r.got.of \in {r.key, Empty.of}

\* A task that fills the slot has something for it from the step that fetches it on.
Filled(r) ==
    Fills(Of(r), scene.slot) /\ r.at # "failed" =>
        \A n \in 1 .. r.step :
            scene.slot \in DOMAIN Of(r).steps[n].gets /\ (n = r.step => r.at = "answered")
            => r.got # Unset

Keyed(r, k) == (r.live => r.key = k) /\ OwnAnswer(r) /\ Filled(r)

RunsKeyed == \A r \in running : Keyed(r, route)

\* No click that is under way was made under an older address, unless one was left behind.
ClicksAreLive ==
    \A r \in running :
        \/ Of(r).start \in {"route", "called"}
        \/ Of(r).start = "click" /\ (r.live \/ "left" \in rush)

Watch == <<scene.page, scene.slot>>

\* Nothing old was shown, but on slots that are guarded and no click was left behind.
Calm == "late" \in rush => Watch \in GuardedSlots /\ "left" \notin rush

Stale == shown.of \notin {route, Empty.of}

\* A load of the present address that will renew the slot, behind its flag.
Renewing(r) ==
    r.live /\ Carries(scene.page, r.task, scene.slot) /\ Of(r).flag \in flags

\* What such a task fetches has still to be shown.
Unshown(r) ==
    r.live /\ Fills(Of(r), scene.slot) =>
        \E n \in r.step .. Len(Of(r).steps) : scene.slot \in Of(r).steps[n].shows

StaleIsRenewed ==
    Calm /\ Renewed(scene.page, scene.slot) /\ Stale =>
        /\ scene.page \notin Unrouted
        /\ \A t \in DOMAIN Pages[scene.page] : ~Empties(Pages[scene.page][t], scene.slot)
        /\ broken \/ \E r \in running : Renewing(r)
        /\ \A r \in running : Unshown(r)

LEMMA SceneWholeInit == ScreensInit => SceneWhole
<1> SUFFICES ASSUME ScreensInit PROVE SceneWhole
  OBVIOUS
<1>1. PICK w \in Watches : scene = SceneOf(w)
  BY DEF ScreensInit
<1>2. scene.page = w.page /\ scene.slot = w.slot
  BY <1>1 DEF SceneOf
<1>3. DOMAIN Tasks =
          {t \in DOMAIN Pages[w.page] :
              \/ w.slot \in SlotsOf(Pages[w.page][t]) \/ Pages[w.page][t].flag = "loading"
              \/ \E s \in StepsOf(Pages[w.page][t]) : Reaches(s, KindsOf(Pages[w.page], w.slot))
              \/ \E c \in Pages[w.page][t].calls : w.slot \in SlotsOf(Pages[w.page][c])
              \/ t \in (UNION {DOMAIN x.offers :
                         x \in {x \in Views[w.page] : x.form = w.form /\ w.form # Nil}})
                       \cap DOMAIN Pages[w.page]
              \/ w.form \in Pages[w.page][t].clears \cup Pages[w.page][t].fills
                            \cup Pages[w.page][t].shuts}
  BY <1>1 DEF SceneOf, Tasks
<1>4. w.form # Nil =>
          \E part \in Views[w.page] :
              part.form = w.form /\ part.fills = w.slot /\ DOMAIN part.offers # {"type"}
  <2>1. PICK p \in DOMAIN Pages : w \in WatchesOf(p)
    BY DEF Watches
  <2>2. CASE \E s \in SlotsOn(p) : w = [page |-> p, slot |-> s, form |-> Nil]
    BY <2>2
  <2>3. CASE \E part \in {x \in Views[p] : x.form # Nil /\ DOMAIN x.offers # {"type"}} :
                w = [page |-> p, slot |-> part.fills, form |-> part.form]
    BY <2>3
  <2>4. QED
    BY <2>1, <2>2, <2>3 DEF WatchesOf
<1>5. scene.form = w.form
  BY <1>1 DEF SceneOf
<1>6. QED
  BY <1>2, <1>3, <1>4, <1>5 DEF SceneWhole

LEMMA RouteStays ==
    ASSUME [ScreensNext]_screenVars
    PROVE  route' = route \/ \E k \in Records : Move(k)
BY DEF ScreensNext, screenVars, Rest, Press, Change, OpenForm, TypeIn, CloseForm, Reply,
       Error, Resume, Fail

LEMMA FreshKeyed ==
    ASSUME NEW r, NEW k, r.live => r.key = k, r.got = Unset, r.step = 1, r.at = "sent"
    PROVE  Keyed(r, k)
BY DEF Keyed, OwnAnswer, Filled

LEMMA NilIsNobody == Nil # Empty.of /\ Nil \notin Records /\ Empty # Unset /\ Unset.of = Nil
BY RecordsAssumption DEF Nil, Empty, Unset

\* A task that goes on keeps what it has, or has the answer to its step.
LEMMA AnsweredKeyed ==
    ASSUME StepsInOrder, ScreensTyped, NEW r \in running, Keyed(r, route), NEW q,
           GoesOn(r, q), Answered(r, q)
    PROVE  Keyed(q, route)
<1>1. /\ r.step \in Nat /\ Of(q) = Of(r) /\ q.key = r.key /\ q.live = r.live
      /\ q.step = r.step /\ q.at = "answered" /\ r.at = "sent" /\ r.key \in Records
  BY DEF ScreensTyped, RunsTyped, RunType, GoesOn, Answered, Of
<1>2. IF scene.slot \in DOMAIN StepOf(r).gets THEN q.got.of = r.key ELSE q.got = r.got
  BY DEF Answered
<1>3. OwnAnswer(q)
  BY <1>1, <1>2 DEF Keyed, OwnAnswer
<1>4. Filled(q)
  <2> SUFFICES ASSUME Fills(Of(r), scene.slot), NEW n \in 1 .. r.step,
                      scene.slot \in DOMAIN Of(r).steps[n].gets
               PROVE  q.got # Unset
    BY <1>1 DEF Filled
  <2>1. CASE scene.slot \in DOMAIN StepOf(r).gets
    BY <1>1, <1>2, <2>1, NilIsNobody
  <2>2. CASE scene.slot \notin DOMAIN StepOf(r).gets
    <3>1. n # r.step
      BY <2>2 DEF StepOf
    <3>2. r.got # Unset
      BY <1>1, <3>1 DEF Keyed, Filled
    <3>3. QED
      BY <1>2, <2>2, <3>2
  <2>3. QED
    BY <2>1, <2>2
<1>5. QED
  BY <1>1, <1>3, <1>4 DEF Keyed

LEMMA StumblesKeyed ==
    ASSUME StepsInOrder, ScreensTyped, NEW r \in running, Keyed(r, route), NEW q,
           GoesOn(r, q), Stumbles(r, q)
    PROVE  Keyed(q, route)
<1>1. /\ r.step \in DOMAIN Of(r).steps /\ Of(q) = Of(r) /\ q.key = r.key /\ q.live = r.live
      /\ q.step = r.step /\ r.at = "sent"
  BY DEF ScreensTyped, RunsTyped, RunType, GoesOn, Stumbles, Of
<1>2. CASE q.at = "failed" /\ q.got = r.got
  BY <1>1, <1>2 DEF Keyed, OwnAnswer, Filled
<1>3. CASE q.at = "answered" /\ q.got = Empty
  BY <1>1, <1>3, NilIsNobody DEF Keyed, OwnAnswer, Filled
<1>4. CASE q.at = "answered" /\ q.got = Unset /\ "keep" \in Outcomes(StepOf(r))
  <2>1. ~Fills(Of(r), scene.slot)
    BY <1>1, <1>4 DEF Outcomes, Fills, StepOf
  <2>2. QED
    BY <1>1, <1>4, <2>1 DEF Keyed, OwnAnswer, Filled
<1>5. QED
  BY <1>2, <1>3, <1>4 DEF Stumbles

LEMMA NextStepKeyed ==
    ASSUME StepsInOrder, ScreensTyped, NEW r \in running, Keyed(r, route), NEW q,
           GoesOn(r, q), NextStep(r, q)
    PROVE  Keyed(q, route)
<1>1. /\ r.step \in Nat /\ Of(q) = Of(r) /\ q.key = r.key /\ q.live = r.live
      /\ q.step = r.step + 1 /\ r.at = "answered" /\ q.got = r.got
  BY DEF ScreensTyped, RunsTyped, RunType, GoesOn, NextStep, Of
<1>2. q.at = "answered" => scene.slot \notin DOMAIN Of(r).steps[r.step + 1].gets
  BY <1>1 DEF NextStep, NoSlots
<1>3. Filled(q)
  <2> SUFFICES ASSUME Fills(Of(r), scene.slot), NEW n \in 1 .. (r.step + 1),
                      scene.slot \in DOMAIN Of(r).steps[n].gets,
                      n = r.step + 1 => q.at = "answered"
               PROVE  r.got # Unset
    BY <1>1 DEF Filled
  <2>1. n \in 1 .. r.step
    BY <1>1, <1>2
  <2>2. QED
    BY <1>1, <2>1 DEF Keyed, Filled
<1>4. QED
  BY <1>1, <1>3 DEF Keyed, OwnAnswer

LEMMA RunsKeyedNext ==
    ASSUME StepsInOrder, ScreensTyped, RunsKeyed, [ScreensNext]_screenVars
    PROVE  RunsKeyed'
<1>1. scene' = scene
  BY StepShapes
<1>2. (\A r \in running' : Keyed(r, route')) => RunsKeyed'
  BY <1>1 DEF RunsKeyed, Keyed, OwnAnswer, Filled, Of, Tasks
<1>3. \A r \in running : Keyed(r, route)
  BY DEF RunsKeyed
<1>4. ASSUME NEW k \in Records, Move(k) PROVE RunsKeyed'
  <2>1. route' = k
    BY <1>4 DEF Move
  <2>2. ASSUME NEW r \in running PROVE Keyed(Cut(r), k)
    <3>1. r \in RunType
      BY DEF ScreensTyped, RunsTyped
    <3>2. Of(Cut(r)) = Of(r)
      BY <3>1, CutTyped DEF Of
    <3>3. QED
      BY <1>3, <3>1, <3>2, CutTyped DEF Keyed, OwnAnswer, Filled
  <2>3. ASSUME NEW t \in OnRoute PROVE Keyed(Start(t, k, used.moves + 1), k)
    BY <1>4, MoveRuns, Started, FreshKeyed DEF ScreensTyped
  <2>4. QED
    BY <1>2, <1>4, <2>1, <2>2, <2>3, MoveRuns
<1>5. ASSUME NEW t \in DOMAIN Tasks, Press(t) PROVE RunsKeyed'
  <2>1. route' = route
    BY <1>5 DEF Press
  <2>2. Keyed(Start(t, route, used.clicks), route)
    <3>1. route \in Records /\ used.clicks \in Nat
      BY <1>5, PressRuns
    <3>2. QED
      BY <3>1, Started, FreshKeyed DEF ScreensTyped
  <2>3. QED
    BY <1>2, <1>3, <1>5, <2>1, <2>2, PressRuns
<1>6. CASE route' = route /\ running' = running
  BY <1>2, <1>3, <1>6
<1>7. ASSUME NEW r \in running, NEW q, GoesOn(r, q), route' = route,
             Answered(r, q) \/ Stumbles(r, q) \/ NextStep(r, q)
      PROVE  RunsKeyed'
  <2>1. Keyed(q, route)
    BY <1>3, <1>7, AnsweredKeyed, StumblesKeyed, NextStepKeyed
  <2>2. QED
    BY <1>2, <1>3, <1>7, <2>1 DEF GoesOn
<1>8. ASSUME NEW r \in running, NEW begun, Ends(r, begun), route' = route
      PROVE  RunsKeyed'
  <2>1. ASSUME NEW t \in begun PROVE Keyed(Begun(t, r), route)
    <3>1. t \in DOMAIN Tasks
      BY <1>8 DEF Ends
    <3>2. QED
      BY <1>3, <3>1, BegunTyped, FreshKeyed DEF Keyed
  <2>2. QED
    BY <1>2, <1>3, <1>8, <2>1 DEF Ends
<1>9. CASE \E r \in running : Reply(r) \/ Error(r) \/ Resume(r) \/ Fail(r)
  <2>1. PICK r \in running : Reply(r) \/ Error(r) \/ Resume(r) \/ Fail(r)
    BY <1>9
  <2>2. route' = route
    BY <2>1 DEF Reply, Error, Resume, Fail
  <2>3. QED
    BY <1>7, <1>8, <2>1, <2>2, ReplyGoesOn, ErrorGoesOn, ResumeShapes, FinishEnds, FailEnds
<1>10. CASE UNCHANGED screenVars \/ Beside
  <2>1. route' = route /\ running' = running
    BY <1>10 DEF Beside, Rest, Change, OpenForm, TypeIn, CloseForm, screenVars
  <2>2. QED
    BY <1>6, <2>1
<1>11. QED
  BY <1>4, <1>5, <1>9, <1>10 DEF ScreensNext, Beside

LEMMA ClicksAreLiveNext ==
    ASSUME StepsInOrder, LoadsAreCalled, ScreensTyped, ClicksAreLive, [ScreensNext]_screenVars
    PROVE  ClicksAreLive'
<1> DEFINE Load(r) == Of(r).start \in {"route", "called"}
           Fine(r) == Load(r) \/ (Of(r).start = "click" /\ (r.live \/ "left" \in rush'))
<1>1. scene' = scene /\ rush \subseteq rush'
  BY StepShapes, RushGrows
<1>2. (\A r \in running' : Fine(r)) => ClicksAreLive'
  BY <1>1 DEF ClicksAreLive, Of, Tasks
<1>3. \A r \in running : Fine(r) /\ r \in RunType
  BY <1>1 DEF ClicksAreLive, ScreensTyped, RunsTyped
<1>4. CASE UNCHANGED screenVars \/ Beside
  <2>1. running' = running
    BY <1>4, BesideKeeps DEF screenVars
  <2> HIDE DEF Fine
  <2>2. QED
    BY <1>2, <1>3, <2>1
<1>5. ASSUME NEW k \in Records, Move(k) PROVE ClicksAreLive'
  <2>1. \A t \in OnRoute : Load(Start(t, k, used.moves + 1))
    BY <1>5, MoveRuns, Started DEF Of, ScreensTyped
  <2>2. ASSUME NEW r \in running PROVE Fine(Cut(r))
    <3>1. Of(Cut(r)) = Of(r)
      BY <1>3, CutTyped DEF Of
    <3>2. Of(r).start = "click" => "left" \in rush'
      BY <1>5 DEF Move
    <3>3. QED
      BY <1>3, <3>1, <3>2
  <2>3. \A r \in running' :
            (\E q \in running : r = Cut(q)) \/ \E t \in OnRoute : r = Start(t, k, used.moves + 1)
    BY <1>5, MoveRuns
  <2>4. \A r \in running' : Fine(r)
    BY <2>1, <2>2, <2>3
  <2>5. QED
    BY <1>2, <2>4
<1>6. ASSUME NEW t \in DOMAIN Tasks, Press(t) PROVE ClicksAreLive'
  <2>1. Fine(Start(t, route, used.clicks))
    BY <1>6, PressRuns, PressStarts
  <2> HIDE DEF Fine
  <2>2. QED
    BY <1>2, <1>3, <1>6, <2>1, PressRuns
<1>7. ASSUME NEW r \in running, NEW q, GoesOn(r, q) PROVE ClicksAreLive'
  <2>1. Fine(q)
    BY <1>3, <1>7 DEF GoesOn, Of
  <2> HIDE DEF Fine
  <2>2. QED
    BY <1>2, <1>3, <1>7, <2>1 DEF GoesOn
<1>8. ASSUME NEW r \in running, NEW begun, Ends(r, begun) PROVE ClicksAreLive'
  <2>1. ASSUME NEW t \in begun PROVE Load(Begun(t, r))
    <3>1. t \in DOMAIN Tasks /\ t \in CalledIn(Pages[scene.page])
      BY <1>8, NotCalled DEF Ends
    <3>2. Of(Begun(t, r)) = Tasks[t]
      BY <3>1, BegunTyped DEF Of
    <3>3. QED
      BY <3>1, <3>2 DEF LoadsAreCalled, ScreensTyped, SceneOK
  <2>2. \A q \in running' : q \in running \/ \E t \in begun : q = Begun(t, r)
    BY <1>8 DEF Ends
  <2>3. QED
    BY <1>2, <1>3, <2>1, <2>2
<1>9. QED
  BY <1>4, <1>5, <1>6, <1>7, <1>8, StepShapes

\* What a task of the present address shows is of that address, if it shows anything.
LEMMA LiveShows ==
    ASSUME StepsInOrder, ScreensTyped, NEW r \in running, Keyed(r, route), r.live
    PROVE  /\ Shown(r) = shown \/ Shown(r).of \in {route, Empty.of}
           /\ r.at = "answered" /\ Fills(Of(r), scene.slot) /\ scene.slot \in StepOf(r).shows
              => Shown(r).of \in {route, Empty.of}
<1>1. /\ r.key = route /\ OwnAnswer(r) /\ Filled(r) /\ shown \in Versions
      /\ r.step \in DOMAIN Of(r).steps /\ r.step \in Nat
  BY DEF Keyed, ScreensTyped, DataTyped, RunsTyped, RunType
<1>2. StepOf(r).adds /\ scene.slot \in StepOf(r).shows => Shown(r).of = route
  BY <1>1 DEF Shown, Versions
<1>3. ~StepOf(r).adds /\ scene.slot \in StepOf(r).shows /\ r.got # Unset
      => Shown(r).of \in {route, Empty.of}
  BY <1>1 DEF Shown, OwnAnswer
<1>4. ~StepOf(r).adds /\ r.got = Unset => Shown(r) = shown
  BY DEF Shown
<1>5. scene.slot \notin StepOf(r).shows => Shown(r) = shown
  BY DEF Shown
<1>6. ASSUME r.at = "answered", Fills(Of(r), scene.slot), scene.slot \in StepOf(r).shows
      PROVE  r.got # Unset
  <2>1. PICK m \in 1 .. r.step : scene.slot \in DOMAIN Of(r).steps[m].gets
    BY <1>1, <1>6 DEF Fills, StepOf
  <2>2. QED
    BY <1>1, <1>6, <2>1 DEF Filled
<1>7. QED
  BY <1>2, <1>3, <1>4, <1>5, <1>6

\* Nothing older is shown on a page that is calm.
LEMMA LateShows ==
    ASSUME StepsInOrder, SlotsAreGuarded, ScreensTyped, ClicksAreLive, NEW r \in running,
           ~r.live, Resume(r), Calm'
    PROVE  Shown(r) = shown \/ (StepOf(r).guarded /\ ~r.live)
<1> SUFFICES ASSUME Shown(r) # shown, ~StepOf(r).guarded PROVE FALSE
  OBVIOUS
<1>1. scene' = scene /\ "late" \in rush'
  BY DEF Resume, Late
<1>2. "left" \notin rush /\ Watch \in GuardedSlots
  <2>1. rush \subseteq rush'
    BY DEF Resume
  <2>2. QED
    BY <1>1, <2>1 DEF Calm, Watch
<1>3. Of(r).start \in {"route", "called"}
  BY <1>2 DEF ClicksAreLive
<1>4. scene.slot \in StepOf(r).shows
  BY DEF Shown
<1>5. /\ r.task \in DOMAIN Pages[scene.page] /\ Of(r) = Pages[scene.page][r.task]
      /\ scene.page \in DOMAIN Pages /\ r.step \in DOMAIN Of(r).steps
  BY DEF ScreensTyped, SceneOK, RunsTyped, RunType, Of
<1>6. scene.slot \in SlotsOn(scene.page)
  BY <1>4, <1>5 DEF SlotsOn, SlotsOf, StepsOf, StepOf
<1>7. QED
  BY <1>2, <1>3, <1>4, <1>5, <1>6 DEF SlotsAreGuarded, Watch, StepOf

\* Outside of a change of the address, a slot that is old was old before.
LEMMA StaleStays ==
    ASSUME StepsInOrder, SlotsAreGuarded, ScreensTyped, RunsKeyed, ClicksAreLive,
           [ScreensNext]_screenVars, ~\E k \in Records : Move(k), Calm', Stale'
    PROVE  Calm /\ Stale
<1>1. scene' = scene /\ route' = route /\ rush \subseteq rush'
  BY StepShapes, RouteStays, RushGrows
<1>2. Calm
  BY <1>1 DEF Calm, Watch
<1>3. shown'.of \notin {route, Empty.of}
  BY <1>1 DEF Stale
<1>4. CASE shown' = shown
  BY <1>2, <1>3, <1>4 DEF Stale
<1>5. ASSUME NEW t \in DOMAIN Tasks, Change(t) PROVE shown' = shown
  <2> DEFINE s == Start(t, route, used.clicks)
  <2>1. s.got = Unset /\ s.key = route
    BY DEF Start
  <2>2. shown' = Shown(s) /\ shown \in Versions
    BY <1>5 DEF Change, ScreensTyped, DataTyped
  <2> HIDE DEF s
  <2>3. Shown(s) = shown \/ Shown(s).of = route
    BY <2>1, <2>2 DEF Shown, Versions
  <2>4. QED
    BY <1>3, <2>2, <2>3
<1>6. ASSUME NEW r \in running, Resume(r) PROVE shown' = shown
  <2>1. CASE StepOf(r).guarded /\ ~r.live
    BY <1>6, <2>1 DEF Resume
  <2>2. CASE ~(StepOf(r).guarded /\ ~r.live)
    <3>1. shown' = Empty \/ shown' = Shown(r)
      BY <1>6, <2>2 DEF Resume, Cleared
    <3>2. Shown(r) = shown \/ Shown(r).of \in {route, Empty.of}
      BY <1>6, <2>2, LiveShows, LateShows DEF RunsKeyed
    <3>3. QED
      BY <1>3, <3>1, <3>2
  <2>3. QED
    BY <2>1, <2>2
<1>7. QED
  BY <1>4, <1>5, <1>6 DEF ScreensNext, screenVars, Rest, Press, OpenForm, TypeIn, CloseForm,
                          Reply, Error, Fail

\* What is known of a load that alone raises its flag.
OnGuard(r) == r.live /\ Alone(scene.page, r.task) /\ Of(r).flag \in flags

LEMMA AloneTask ==
    ASSUME SceneOK, NEW r \in RunType, Alone(scene.page, r.task)
    PROVE  /\ r.task \in DOMAIN Pages[scene.page] /\ scene.page \in DOMAIN Pages
           /\ Of(r) = Pages[scene.page][r.task]
           /\ Of(r).start \in {"route", "called"} /\ Of(r).again = "beside" /\ Of(r).flag # Nil
           /\ Of(r).lowers = "live" \/ \A n \in DOMAIN Of(r).steps : ~Of(r).steps[n].guarded
           /\ \A part \in Parts : Of(r).flag \notin part.frees
           /\ \A q \in RunType : Of(q).flag = Of(r).flag => q.task = r.task
<1>1. /\ r.task \in DOMAIN Pages[scene.page] /\ scene.page \in DOMAIN Pages
      /\ Of(r) = Pages[scene.page][r.task]
  BY DEF SceneOK, RunType, Of
<1>2. /\ Of(r).start \in {"route", "called"} /\ Of(r).again = "beside" /\ Of(r).flag # Nil
      /\ RaisedBy(scene.page, Of(r).flag) = {r.task}
      /\ Of(r).lowers = "live" \/ \A n \in DOMAIN Of(r).steps : ~Of(r).steps[n].guarded
      /\ \A part \in Views[scene.page] : Of(r).flag \notin part.frees
  BY <1>1 DEF Alone
<1>3. ASSUME NEW q \in RunType, Of(q).flag = Of(r).flag PROVE q.task = r.task
  <2>1. q.task \in DOMAIN Pages[scene.page] /\ Of(q) = Pages[scene.page][q.task]
    BY <1>3 DEF SceneOK, RunType, Of
  <2>2. QED
    BY <1>2, <1>3, <2>1 DEF RaisedBy
<1>4. QED
  BY <1>1, <1>2, <1>3 DEF SceneOK

LEMMA GuardIsTyped ==
    ASSUME ScreensTyped, NEW r \in running PROVE r \in RunType /\ SceneOK
BY DEF ScreensTyped, RunsTyped

\* The end of another task leaves it under way.
LEMMA GuardStays ==
    ASSUME ScreensTyped, NEW r \in running, NEW w \in running, NEW begun, Ends(r, begun),
           OnGuard(w), w # r, WillLower(r) => Of(r).flag # Of(w).flag
    PROVE  w \in running' /\ Of(w).flag \in flags'
<1>1. Of(w).again = "beside" /\ Of(w).flag \in flags
  BY GuardIsTyped, AloneTask DEF OnGuard
<1>2. QED
  BY <1>1 DEF Ends, Of

\* If an older run lowers its flag, that leaves its trace.
LEMMA GuardLateEnd ==
    ASSUME ScreensTyped, NEW r \in running, NEW w \in running, OnGuard(w),
           ~r.live, Resume(r) \/ Fail(r), WillLower(r), Of(r).flag = Of(w).flag
    PROVE  "late" \in rush' /\ Of(r).lowers # "live"
<1>1. Of(r) = Of(w)
  BY GuardIsTyped, AloneTask DEF OnGuard, Of
<1>2. Of(r).lowers # "live"
  BY DEF WillLower
<1>3. \A n \in DOMAIN Of(r).steps : ~Of(r).steps[n].guarded
  BY <1>1, <1>2, GuardIsTyped, AloneTask DEF OnGuard
<1>4. Of(r).flag \in flags
  BY DEF OnGuard
<1>5. QED
  BY <1>2, <1>3, <1>4, LateEnd

\* While the tasks under way stay as they are, or one of them goes on, its flag stays up.
LEMMA GuardBeside ==
    ASSUME ScreensTyped, NEW w \in running, OnGuard(w), UNCHANGED screenVars \/ Beside
    PROVE  w \in running' /\ Of(w).flag \in flags'
<1>1. \A part \in Parts : Of(w).flag \notin part.frees
  BY GuardIsTyped, AloneTask DEF OnGuard
<1>2. QED
  BY <1>1, BesideKeeps DEF OnGuard, screenVars

\* The same of a load that renews the slot.
LEMMA RenewingTask ==
    ASSUME ScreensTyped, NEW r \in running, Renewing(r)
    PROVE  /\ OnGuard(r) /\ Hides(scene.page, r.task, scene.slot)
           /\ scene.slot \in SlotsOn(scene.page)
<1>1. OnGuard(r) /\ Hides(scene.page, r.task, scene.slot)
  BY DEF Renewing, Carries, Hides, OnGuard
<1>2. r.task \in DOMAIN Pages[scene.page]
  BY <1>1, GuardIsTyped, AloneTask DEF OnGuard
<1>3. CASE Fills(Pages[scene.page][r.task], scene.slot)
  <2>1. PICK n \in DOMAIN Pages[scene.page][r.task].steps :
            scene.slot \in Pages[scene.page][r.task].steps[n].shows
    BY <1>3 DEF Fills
  <2>2. scene.slot \in SlotsOf(Pages[scene.page][r.task])
    BY <2>1 DEF SlotsOf, StepsOf
  <2>3. QED
    BY <1>1, <1>2, <2>2 DEF SlotsOn
<1>4. CASE \E u \in DOMAIN Pages[scene.page] : scene.slot \in SlotsOf(Pages[scene.page][u])
  BY <1>1, <1>4 DEF SlotsOn
<1>5. QED
  BY <1>1, <1>3, <1>4 DEF Renewing, Carries

\* On a page that is calm no older run lowers its flag.
LEMMA LateEndLowersNot ==
    ASSUME SlotsAreGuarded, ScreensTyped, NEW r \in running, NEW w \in running, Renewing(w),
           ~r.live, Resume(r) \/ Fail(r), Calm', WillLower(r)
    PROVE  Of(r).flag # Of(w).flag
<1> SUFFICES ASSUME Of(r).flag = Of(w).flag PROVE FALSE
  OBVIOUS
<1>1. OnGuard(w) /\ scene.slot \in SlotsOn(scene.page)
  BY RenewingTask
<1>2. /\ r.task = w.task /\ Of(r) = Pages[scene.page][w.task]
      /\ Of(r).start \in {"route", "called"}
      /\ w.task \in DOMAIN Pages[scene.page] /\ scene.page \in DOMAIN Pages
  BY <1>1, GuardIsTyped, AloneTask DEF OnGuard, Of
<1>3. "late" \in rush' /\ Of(r).lowers # "live"
  BY <1>1, GuardLateEnd
<1>4. Watch \in GuardedSlots
  <2>1. scene' = scene
    BY DEF Resume, Fail
  <2>2. QED
    BY <1>3, <2>1 DEF Calm, Watch
<1>5. Of(r).lowers = "live"
  BY <1>1, <1>2, <1>4 DEF SlotsAreGuarded, Watch, Renewing
<1>6. QED
  BY <1>3, <1>5

LEMMA FinishBegins ==
    ASSUME NEW r \in running, NEW called, Finish(r, called), NEW u \in called,
           Tasks[u].again # "cached"
    PROVE  Begun(u, r) \in running' /\ (Tasks[u].flag # Nil => Tasks[u].flag \in flags')
<1> DEFINE begun == {t \in called : ~Joined(t)}
<1>1. u \in begun
  BY DEF Joined
<1>2. Begun(u, r) \in running' /\ Flags(begun) \subseteq flags'
  <2>1. {Begun(t, r) : t \in begun} \subseteq running' /\ Flags(begun) \subseteq flags'
    BY DEF Finish, Begun
  <2> HIDE DEF begun
  <2>2. QED
    BY <1>1, <2>1
<1>3. QED
  BY <1>1, <1>2 DEF Flags

\* At its end the slot is renewed, or the task that it calls goes on with it.
LEMMA RenewingEnds ==
    ASSUME StepsInOrder, ScreensTyped, SceneWhole, RunsKeyed, NEW r \in running, Resume(r),
           r.live, r.step = Len(Of(r).steps), Carries(scene.page, r.task, scene.slot),
           Unshown(r), shown'.of \notin {route, Empty.of}
    PROVE  \E q \in running' :
               /\ q.live /\ Carries(scene.page, q.task, scene.slot)
               /\ Of(q).flag \in flags'
<1> DEFINE called == Of(r).calls \cap DOMAIN Tasks
           page   == Pages[scene.page]
<1>1. /\ Finish(r, called) /\ shown' = Cleared(called, Shown(r)) /\ r.at = "answered"
      /\ Keyed(r, route)
  BY DEF Resume, RunsKeyed
<1>2. r \in RunType /\ SceneOK /\ r.step \in Nat /\ Of(r) = page[r.task]
  BY DEF ScreensTyped, RunsTyped, RunType, SceneOK, Of
<1>3. shown' # Empty
  OBVIOUS
<1>4. ~Fills(Of(r), scene.slot)
  <2> SUFFICES ASSUME Fills(Of(r), scene.slot) PROVE FALSE
    OBVIOUS
  <2>1. scene.slot \in StepOf(r).shows
    BY <1>2 DEF Unshown, StepOf
  <2>2. Shown(r).of \in {route, Empty.of}
    BY <1>1, <2>1, LiveShows
  <2>3. shown' = Shown(r)
    BY <1>1, <1>3 DEF Cleared
  <2>4. QED
    BY <2>2, <2>3
<1>5. PICK u \in Of(r).calls :
          /\ u \in DOMAIN page /\ scene.slot \in SlotsOf(page[u]) /\ page[u].again # "cached"
          /\ \/ scene.slot \in page[u].clears
             \/ Hides(scene.page, u, scene.slot) /\ Fills(page[u], scene.slot)
  BY <1>2, <1>4 DEF Carries
<1>6. u \in called /\ Tasks[u] = page[u]
  <2>1. u \in DOMAIN Tasks
    BY <1>5 DEF SceneWhole
  <2>2. QED
    BY <1>2, <1>5, <2>1 DEF SceneOK
<1>7. scene.slot \notin page[u].clears
  BY <1>1, <1>3, <1>6 DEF Cleared, Clears
<1>8. Carries(scene.page, u, scene.slot) /\ page[u].flag # Nil
  BY <1>5, <1>7 DEF Carries, Hides, Alone
<1>9. Begun(u, r) \in running' /\ page[u].flag \in flags'
  BY <1>1, <1>5, <1>6, <1>8, FinishBegins
<1>10. Begun(u, r).live /\ Begun(u, r).task = u
  BY <1>6, BegunTyped
<1>11. QED
  BY <1>6, <1>8, <1>9, <1>10 DEF Of

LEMMA FreshUnshown ==
    ASSUME StepsInOrder, SceneOK, NEW r, r.task \in DOMAIN Tasks, r.step = 1
    PROVE  Unshown(r)
BY DEF Unshown, Fills, StepsInOrder, SceneOK, Of

LEMMA StaleIsRenewedNext ==
    ASSUME StepsInOrder, SlotsAreGuarded, ScreensTyped, SceneWhole, RunsKeyed, ClicksAreLive,
           StaleIsRenewed, [ScreensNext]_screenVars
    PROVE  StaleIsRenewed'
<1> DEFINE page == Pages[scene.page]
           NoneEmpties == \A t \in DOMAIN page : ~Empties(page[t], scene.slot)
           Renews(r) == r.live /\ Carries(scene.page, r.task, scene.slot) /\ Of(r).flag \in flags'
           Hidden == broken' \/ \E r \in running' : Renews(r)
           AllUnshown == \A r \in running' : Unshown(r)
           Goal == scene.page \notin Unrouted /\ NoneEmpties /\ Hidden /\ AllUnshown
<1>1. scene' = scene /\ SceneOK /\ \A r \in running : r \in RunType
  BY StepShapes DEF ScreensTyped, RunsTyped
<1> SUFFICES ASSUME Calm', Renewed(scene.page, scene.slot), Stale' PROVE Goal
  BY <1>1 DEF StaleIsRenewed, Renewing, Unshown, Of, Tasks
<1>2. shown'.of \notin {route', Empty.of}
  BY DEF Stale
<1>3. ASSUME NEW k \in Records, Move(k) PROVE Goal
  <2>1. /\ scene.page \notin Unrouted /\ shown' = Cleared(OnRoute, shown)
        /\ running' = {Cut(r) : r \in running}
                      \cup {Start(t, k, used.moves + 1) : t \in OnRoute}
        /\ flags' = flags \cup Flags(OnRoute) /\ used.moves + 1 \in Nat
    BY <1>3, MoveRuns DEF Move
  <2>2. NoneEmpties
    <3> SUFFICES ASSUME NEW t \in DOMAIN page, Empties(page[t], scene.slot) PROVE FALSE
      OBVIOUS
    <3>1. t \in DOMAIN Tasks /\ Tasks[t] = page[t]
      BY <1>1 DEF Empties, SceneWhole, SceneOK
    <3>2. t \in OnRoute /\ scene.slot \in Tasks[t].clears
      BY <3>1 DEF Empties, OnRoute
    <3>3. shown' = Empty
      BY <2>1, <3>2 DEF Cleared, Clears
    <3>4. QED
      BY <1>2, <3>3
  <2>3. Hidden
    <3>1. PICK t \in DOMAIN page : page[t].start = "route" /\ Carries(scene.page, t, scene.slot)
      BY <2>1, <2>2 DEF Renewed
    <3>2. t \in DOMAIN Tasks /\ Tasks[t] = page[t] /\ page[t].flag # Nil
      BY <1>1, <3>1 DEF Carries, Hides, Alone, SceneWhole, SceneOK
    <3>3. t \in OnRoute /\ Tasks[t].flag \in flags'
      BY <2>1, <3>1, <3>2 DEF OnRoute, Flags
    <3>4. Start(t, k, used.moves + 1).live /\ Start(t, k, used.moves + 1).task = t
      BY DEF Start
    <3>5. QED
      BY <2>1, <3>1, <3>3, <3>4 DEF Of
  <2>4. AllUnshown
    <3>1. \A r \in running : Unshown(Cut(r))
      BY <1>1, CutTyped DEF Unshown
    <3>2. ASSUME NEW t \in OnRoute PROVE Unshown(Start(t, k, used.moves + 1))
      <4>1. t \in DOMAIN Tasks /\ Start(t, k, used.moves + 1).task = t
            /\ Start(t, k, used.moves + 1).step = 1
        BY DEF OnRoute, Start
      <4>2. QED
        BY <1>1, <4>1, FreshUnshown
    <3>3. QED
      BY <2>1, <3>1, <3>2
  <2>5. QED
    BY <2>1, <2>2, <2>3, <2>4
<1> SUFFICES ASSUME ~\E k \in Records : Move(k) PROVE Goal
  BY <1>3
<1>4. Calm /\ Stale /\ route' = route
  BY StaleStays, RouteStays
<1>5. /\ scene.page \notin Unrouted /\ NoneEmpties
      /\ broken \/ \E r \in running : Renewing(r)
      /\ \A r \in running : Unshown(r)
  BY <1>4 DEF StaleIsRenewed
<1> SUFFICES Hidden /\ AllUnshown
  BY <1>5
<1> HIDE DEF NoneEmpties, Goal
<1>6. CASE UNCHANGED screenVars \/ Beside
  <2>1. running' = running /\ broken' = broken
    BY <1>6 DEF Beside, Rest, Change, OpenForm, TypeIn, CloseForm, screenVars
  <2>2. ASSUME NEW r \in running, Renewing(r) PROVE Renews(r)
    BY <1>6, <2>2, RenewingTask, GuardBeside DEF Renewing
  <2>3. QED
    BY <1>5, <2>1, <2>2
<1>7. ASSUME NEW t \in DOMAIN Tasks, Press(t) PROVE Hidden /\ AllUnshown
  <2> DEFINE s == Start(t, route, used.clicks)
  <2>1. running' = running \cup {s} /\ flags \subseteq flags' /\ broken' = broken
    BY <1>7, PressRuns DEF Press
  <2>2. s.task = t /\ s.step = 1
    BY DEF Start
  <2> HIDE DEF s
  <2>3. Unshown(s)
    BY <1>1, <2>2, FreshUnshown
  <2>4. \A r \in running : Renewing(r) => Renews(r)
    BY <2>1 DEF Renewing
  <2>5. QED
    BY <1>5, <2>1, <2>3, <2>4
<1>8. ASSUME NEW r \in running, NEW q, GoesOn(r, q), broken => broken', Unshown(q)
      PROVE  Hidden /\ AllUnshown
  <2>1. /\ running' = (running \ {r}) \cup {q} /\ flags' = flags
        /\ q.live = r.live /\ q.task = r.task /\ Of(q) = Of(r)
    BY <1>8 DEF GoesOn, Of
  <2>2. \A w \in running : Renewing(w) => Renews(w)
    BY <2>1 DEF Renewing
  <2>3. Renewing(r) => Renews(q)
    BY <2>1 DEF Renewing
  <2> HIDE DEF Renews
  <2>4. QED
    BY <1>5, <1>8, <2>1, <2>2, <2>3
<1>9. ASSUME NEW r \in running, Reply(r) \/ Error(r) PROVE Hidden /\ AllUnshown
  <2>1. PICK q : GoesOn(r, q) /\ (Answered(r, q) \/ Stumbles(r, q))
    BY <1>9, ReplyGoesOn, ErrorGoesOn
  <2>2. q.step = r.step /\ q.live = r.live /\ Of(q) = Of(r)
    BY <2>1 DEF GoesOn, Answered, Stumbles, Of
  <2>3. Unshown(q)
    BY <1>5, <2>2 DEF Unshown
  <2>4. broken' = broken
    BY <1>9 DEF Reply, Error
  <2>5. QED
    BY <1>8, <2>1, <2>3, <2>4
<1>10. ASSUME NEW r \in running, NEW begun, Ends(r, begun) PROVE AllUnshown
  <2>1. ASSUME NEW t \in begun PROVE Unshown(Begun(t, r))
    <3>1. t \in DOMAIN Tasks
      BY <1>10 DEF Ends
    <3>2. Begun(t, r).task = t /\ Begun(t, r).step = 1
      BY <3>1, BegunTyped
    <3>3. QED
      BY <1>1, <3>1, <3>2, FreshUnshown
  <2>2. QED
    BY <1>5, <1>10, <2>1 DEF Ends
<1>11. ASSUME NEW r \in running, NEW begun, Ends(r, begun), broken => broken', ~broken',
              NEW w \in running, Renewing(w), w # r, WillLower(r) => Of(r).flag # Of(w).flag
       PROVE  Hidden
  BY <1>11, RenewingTask, GuardStays DEF Renewing
<1>12. ASSUME NEW r \in running, Fail(r) PROVE Hidden
  <2> SUFFICES ASSUME ~broken' PROVE Hidden
    OBVIOUS
  <2>1. PICK begun : Ends(r, begun)
    BY <1>12, FailEnds
  <2>2. ~broken /\ ~(Of(r).start \in {"route", "called"} /\ r.live)
    BY <1>12 DEF Fail
  <2>3. PICK w \in running : Renewing(w)
    BY <1>5, <2>2
  <2>4. Of(r).flag = Of(w).flag => Of(r) = Of(w) /\ Of(r).start \in {"route", "called"}
    BY <1>1, <2>3, RenewingTask, AloneTask DEF OnGuard, Of
  <2>5. w # r
    BY <2>2, <2>3, <2>4 DEF Renewing
  <2>6. WillLower(r) => Of(r).flag # Of(w).flag
    BY <1>12, <2>2, <2>3, <2>4, LateEndLowersNot
  <2>7. QED
    BY <1>11, <2>1, <2>2, <2>3, <2>5, <2>6
<1>13. ASSUME NEW r \in running, Resume(r) PROVE Hidden /\ AllUnshown
  <2> DEFINE called  == Of(r).calls \cap DOMAIN Tasks
             dropped == StepOf(r).guarded /\ ~r.live
             over    == r.step = Len(Of(r).steps)
  <2>1. broken => broken'
    BY <1>13 DEF Resume
  <2>2. CASE dropped \/ over
    <3>1. PICK begun : Ends(r, begun)
      <4>1. Finish(r, IF dropped THEN {} ELSE called)
        BY <1>13, <2>2 DEF Resume
      <4>2. (IF dropped THEN {} ELSE called) \in SUBSET called
        OBVIOUS
      <4>3. QED
        BY <4>1, <4>2, FinishEnds
    <3>2. Hidden
      <4> SUFFICES ASSUME ~broken' PROVE Hidden
        OBVIOUS
      <4>1. PICK w \in running : Renewing(w)
        BY <1>5, <2>1
      <4>2. CASE w # r /\ (WillLower(r) => Of(r).flag # Of(w).flag)
        BY <1>11, <2>1, <3>1, <4>1, <4>2
      <4>3. CASE w = r \/ (WillLower(r) /\ Of(r).flag = Of(w).flag)
        <5>1. r.live
          BY <1>13, <4>1, <4>3, LateEndLowersNot DEF Renewing
        <5>2. Carries(scene.page, r.task, scene.slot)
          <6>1. r.task = w.task
            BY <1>1, <4>1, <4>3, RenewingTask, AloneTask DEF OnGuard
          <6>2. QED
            BY <4>1, <6>1 DEF Renewing
        <5>3. over
          BY <2>2, <5>1
        <5>4. QED
          BY <1>2, <1>4, <1>5, <1>13, <5>1, <5>2, <5>3, RenewingEnds
      <4>4. QED
        BY <4>2, <4>3
    <3>3. QED
      BY <1>10, <3>1, <3>2
  <2>3. CASE ~(dropped \/ over)
    <3>1. PICK q : GoesOn(r, q) /\ NextStep(r, q)
      BY <1>13, <2>3, ResumeGoesOn
    <3>2. /\ q.step = r.step + 1 /\ q.live = r.live /\ Of(q) = Of(r) /\ r.at = "answered"
          /\ r.step \in Nat /\ Len(Of(r).steps) \in Nat /\ Keyed(r, route)
      BY <1>1, <3>1 DEF GoesOn, NextStep, Of, RunType, RunsKeyed, StepsInOrder, SceneOK
    <3>3. r.live /\ Fills(Of(r), scene.slot) => scene.slot \notin StepOf(r).shows
      <4>1. shown' = Shown(r) \/ shown' = Empty
        BY <1>13, <2>3 DEF Resume, Cleared
      <4>2. QED
        BY <1>2, <1>4, <3>2, <4>1, LiveShows
    <3>4. Unshown(q)
      <4> SUFFICES ASSUME r.live, Fills(Of(r), scene.slot)
                   PROVE  \E n \in (r.step + 1) .. Len(Of(r).steps) :
                              scene.slot \in Of(r).steps[n].shows
        BY <3>2 DEF Unshown
      <4>1. PICK n \in r.step .. Len(Of(r).steps) : scene.slot \in Of(r).steps[n].shows
        BY <1>5 DEF Unshown
      <4>2. n # r.step
        BY <3>3, <4>1 DEF StepOf
      <4>3. n \in (r.step + 1) .. Len(Of(r).steps)
        BY <3>2, <4>2
      <4>4. QED
        BY <4>1, <4>3
    <3>5. QED
      BY <1>8, <2>1, <3>1, <3>4
  <2>4. QED
    BY <2>2, <2>3
<1>14. ASSUME NEW r \in running, Fail(r) PROVE AllUnshown
  BY <1>10, <1>14, FailEnds
<1>15. QED
  BY <1>6, <1>7, <1>9, <1>12, <1>13, <1>14 DEF ScreensNext, Beside

LEMMA OwnRecordInit ==
    ASSUME StepsInOrder, ScreensInit
    PROVE  SceneWhole /\ RunsKeyed /\ ClicksAreLive /\ StaleIsRenewed
<1>1. ScreensTyped
  BY ScreensTypedInit
<1>2. \A r \in running : \E t \in OnRoute : r = Start(t, route, 0)
  BY DEF ScreensInit
<1>3. RunsKeyed
  <2>1. ASSUME NEW t \in OnRoute PROVE Keyed(Start(t, route, 0), route)
    <3>1. /\ Start(t, route, 0).got = Unset /\ Start(t, route, 0).step = 1
          /\ Start(t, route, 0).at = "sent" /\ Start(t, route, 0).key = route
      BY DEF Start
    <3>2. QED
      BY <3>1, FreshKeyed
  <2>2. QED
    BY <1>2, <2>1 DEF RunsKeyed
<1>4. ClicksAreLive
  <2>1. \A t \in OnRoute : Of(Start(t, route, 0)).start = "route"
    BY DEF OnRoute, Of, Start
  <2>2. QED
    BY <1>2, <2>1 DEF ClicksAreLive
<1>5. StaleIsRenewed
  BY DEF StaleIsRenewed, Stale, ScreensInit
<1>6. QED
  BY <1>3, <1>4, <1>5, SceneWholeInit

LEMMA SceneWholeNext ==
    ASSUME StepsInOrder, ScreensTyped, SceneWhole, [ScreensNext]_screenVars
    PROVE  SceneWhole'
BY StepShapes DEF SceneWhole, Tasks

LEMMA OwnRecordFollows ==
    ASSUME SlotsAreRenewed, ScreensTyped, StaleIsRenewed PROVE OwnRecordShown
<1> SUFFICES ASSUME Visible, Watch \notin Lingering, Calm, Stale PROVE FALSE
  BY DEF OwnRecordShown, Calm, Stale, Watch
<1>1. PICK part \in Parts :
          /\ scene.slot \in part.shows /\ Drawn(part)
          /\ scene.slot \in part.owns => shown.of \in {route, Empty.of}
  BY DEF Visible
<1>2. scene.slot \in part.shows \ part.owns /\ part \in Views[scene.page]
      /\ scene.page \in DOMAIN Pages
  BY <1>1 DEF Stale, ScreensTyped, SceneOK
<1>3. Renewed(scene.page, scene.slot)
  BY <1>2 DEF SlotsAreRenewed, OnlyOwnRows, Watch
<1>4. PICK r \in running : Renewing(r)
  BY <1>1, <1>3 DEF StaleIsRenewed, Drawn
<1>5. Of(r).flag \in part.waits /\ Of(r).flag \in flags
  <2>1. Of(r) = Pages[scene.page][r.task]
    BY <1>4, RenewingTask, GuardIsTyped, AloneTask DEF OnGuard
  <2>2. QED
    BY <1>2, <1>4, <2>1, RenewingTask DEF Renewing, Hides
<1>6. QED
  BY <1>1, <1>5 DEF Drawn

\* OwnRecordShown, on any pages whose slots are renewed when the address changes, and whose
\* guarded slots are guarded.
THEOREM OwnRecordIsShown ==
    ASSUME StepsInOrder, LoadsAreCalled, SlotsAreRenewed, SlotsAreGuarded
    PROVE  ScreensSpec => []OwnRecordShown
<1> DEFINE Inv == SceneWhole /\ RunsKeyed /\ ClicksAreLive /\ StaleIsRenewed
<1>1. ScreensInit => Inv
  BY OwnRecordInit
<1>2. ScreensTyped /\ Inv /\ [ScreensNext]_screenVars => Inv'
  BY SceneWholeNext, RunsKeyedNext, ClicksAreLiveNext, StaleIsRenewedNext
<1>3. ScreensTyped /\ Inv => OwnRecordShown
  BY OwnRecordFollows
<1>4. QED
  BY <1>1, <1>2, <1>3, ScreensStayTyped, PTL DEF ScreensSpec

-------------------------------------------------------------------------------
\* OwnDraft.  A form that is closed when the address changes is for the record in it; one that
\* a load fills is, or the load is under way, of the new address, behind its flag.
Refilled ==
    \E t \in DOMAIN Pages[scene.page] :
        Pages[scene.page][t].start = "route" /\ Refills(scene.page, t, scene.form)

Refilling(r) == OnGuard(r) /\ Refills(scene.page, r.task, scene.form)

DraftIsOwn ==
    /\ draft.of \in Records \cup {Nil}
    /\ "late" \notin rush /\ draft.of \notin {Nil, route} =>
          /\ ~Closes(scene.page, scene.form, scene.slot)
          /\ Refilled => broken \/ \E r \in running : Refilling(r)

\* Whose form is open after a step.
LEMMA DraftShapes ==
    ASSUME ScreensTyped, [ScreensNext]_screenVars
    PROVE  \/ draft'.of \in {draft.of, Nil}
           \/ OpenForm /\ draft'.of = (IF scene.slot = Nil THEN route ELSE shown.of)
           \/ \E r \in running :
                 /\ Resume(r) /\ scene.form \in Of(r).fills /\ draft'.of = r.key
                 /\ ~r.live => "late" \in rush'
<1>1. draft \in [of: Whose, typed: BOOLEAN] /\ NoDraft.of = Nil
  BY DEF ScreensTyped, DataTyped, NoDraft
<1>2. CASE UNCHANGED draft \/ TypeIn \/ CloseForm
  BY <1>1, <1>2 DEF TypeIn, CloseForm
<1>3. ASSUME NEW k \in Records, Move(k) PROVE draft'.of \in {draft.of, Nil}
  BY <1>1, <1>3 DEF Move
<1>4. ASSUME NEW t \in DOMAIN Tasks, Press(t) \/ Change(t) PROVE draft'.of \in {draft.of, Nil}
  BY <1>1, <1>4 DEF Press, Change
<1>5. CASE OpenForm
  BY <1>1, <1>5 DEF OpenForm, NoDraft
<1>6. ASSUME NEW r \in running, Resume(r)
      PROVE  \/ draft'.of \in {draft.of, Nil}
             \/ /\ scene.form \in Of(r).fills /\ draft'.of = r.key
                /\ ~r.live => "late" \in rush'
  <2>1. CASE draft' = draft
    BY <2>1
  <2>2. CASE draft' # draft
    <3>1. draft' = DraftAfter(r) /\ ~(StepOf(r).guarded /\ ~r.live)
      BY <1>6, <2>2 DEF Resume
    <3>2. CASE scene.form \notin Of(r).fills
      BY <1>1, <3>1, <3>2 DEF DraftAfter
    <3>3. CASE scene.form \in Of(r).fills
      <4>1. draft'.of \in {r.key, draft.of, Nil}
        BY <1>1, <3>1, <3>3 DEF DraftAfter, NoDraft
      <4>2. ~r.live => "late" \in rush'
        BY <1>6, <3>1, <3>3 DEF Resume, Late
      <4>3. QED
        BY <3>3, <4>1, <4>2
    <3>4. QED
      BY <3>2, <3>3
  <2>3. QED
    BY <2>1, <2>2
<1>7. QED
  <2>1. \/ UNCHANGED draft \/ OpenForm \/ TypeIn \/ CloseForm
        \/ \E k \in Records : Move(k)
        \/ \E t \in DOMAIN Tasks : Press(t) \/ Change(t)
        \/ \E r \in running : Resume(r)
    BY DEF ScreensNext, screenVars, Rest, Reply, Error, Fail
  <2>2. QED
    BY <1>2, <1>3, <1>4, <1>5, <1>6, <2>1

LEMMA DraftNamedNext ==
    ASSUME ScreensTyped, draft.of \in Records \cup {Nil}, [ScreensNext]_screenVars
    PROVE  draft'.of \in Records \cup {Nil}
<1>1. CASE OpenForm /\ draft'.of = (IF scene.slot = Nil THEN route ELSE shown.of)
  BY <1>1 DEF OpenForm, ScreensTyped, DataTyped
<1>2. ASSUME NEW r \in running, draft'.of = r.key PROVE draft'.of \in Records
  BY <1>2, GuardIsTyped DEF RunType
<1>3. QED
  BY <1>1, <1>2, DraftShapes

\* A form of the first kind is opened from what the page shows of the address.
LEMMA OpenedOwn ==
    ASSUME ScreensTyped, OwnRecordShown, "late" \notin rush, OpenForm,
           Closes(scene.page, scene.form, scene.slot)
    PROVE  scene.slot = Nil \/ shown.of = route
<1> SUFFICES ASSUME scene.slot # Nil PROVE shown.of = route
  OBVIOUS
<1>1. PICK part \in Parts : scene.form \in DOMAIN part.offers /\ Drawn(part)
  BY DEF OpenForm, CanUse
<1>2. scene.slot \in part.shows \ part.owns /\ <<scene.page, scene.slot>> \notin Lingering
  BY <1>1 DEF Closes, ScreensTyped, SceneOK
<1>3. shown.of \in Records /\ shown.of # Empty.of
  BY RecordsAssumption DEF OpenForm, Empty
<1>4. Visible
  BY <1>1, <1>2, <1>3 DEF Visible
<1>5. QED
  BY <1>2, <1>3, <1>4 DEF OwnRecordShown

\* After a change of the address.
LEMMA DraftMoved ==
    ASSUME ScreensTyped, SceneWhole, NEW k \in Records, Move(k), draft'.of # Nil
    PROVE  /\ ~Closes(scene.page, scene.form, scene.slot)
           /\ Refilled => \E r \in running' :
                 /\ r.live /\ Alone(scene.page, r.task) /\ Of(r).flag \in flags'
                 /\ Refills(scene.page, r.task, scene.form)
<1> DEFINE page == Pages[scene.page]
<1>1. /\ running' = {Cut(r) : r \in running}
                    \cup {Start(t, k, used.moves + 1) : t \in OnRoute}
      /\ flags' = flags \cup Flags(OnRoute)
      /\ draft' = IF Clears(OnRoute, scene.form) THEN NoDraft ELSE draft
  BY MoveRuns DEF Move
<1>2. \A t \in DOMAIN page :
          page[t].start = "route" /\ scene.form \in page[t].clears \cup page[t].fills
          => t \in OnRoute /\ Tasks[t] = page[t]
  <2>1. ASSUME NEW t \in DOMAIN page, page[t].start = "route",
               scene.form \in page[t].clears \cup page[t].fills
        PROVE  t \in OnRoute /\ Tasks[t] = page[t]
    <3>1. t \in DOMAIN Tasks
      BY <2>1 DEF SceneWhole
    <3>2. QED
      BY <2>1, <3>1 DEF OnRoute, ScreensTyped, SceneOK
  <2>2. QED
    BY <2>1
<1>3. ~Clears(OnRoute, scene.form)
  BY <1>1 DEF NoDraft
<1>4. ~Closes(scene.page, scene.form, scene.slot)
  BY <1>2, <1>3 DEF Closes, Clears
<1>5. ASSUME NEW t \in DOMAIN page, page[t].start = "route",
             Refills(scene.page, t, scene.form)
      PROVE  \E r \in running' :
                 /\ r.live /\ Alone(scene.page, r.task) /\ Of(r).flag \in flags'
                 /\ Refills(scene.page, r.task, scene.form)
  <2>1. Alone(scene.page, t) /\ scene.form \in page[t].fills /\ page[t].flag # Nil
    BY <1>5 DEF Refills, Alone
  <2>2. t \in OnRoute /\ Tasks[t] = page[t]
    BY <1>2, <1>5, <2>1
  <2>3. Tasks[t].flag \in flags'
    BY <1>1, <2>1, <2>2 DEF Flags
  <2>4. Start(t, k, used.moves + 1).live /\ Start(t, k, used.moves + 1).task = t
    BY DEF Start
  <2>5. QED
    BY <1>1, <1>5, <2>1, <2>2, <2>3, <2>4 DEF Of
<1>6. QED
  BY <1>4, <1>5 DEF Refilled

\* A load of the present address stays under way behind its flag, unless the page breaks or
\* one of its runs has succeeded.
LEMMA GuardNext ==
    ASSUME StepsInOrder, ScreensTyped, NEW w \in running, OnGuard(w),
           "late" \notin rush', [ScreensNext]_screenVars, ~\E k \in Records : Move(k), ~broken'
    PROVE  \/ \E q \in running' : q.live /\ q.task = w.task /\ Of(w).flag \in flags'
           \/ \E r \in running :
                 r.live /\ r.task = w.task /\ Resume(r) /\ r.step = Len(Of(r).steps)
<1> DEFINE Stays == \E q \in running' : q.live /\ q.task = w.task /\ Of(w).flag \in flags'
<1>1. w.live /\ Of(w).flag \in flags
  BY DEF OnGuard
<1>2. ASSUME w \in running', Of(w).flag \in flags' PROVE Stays
  BY <1>1, <1>2
<1>3. CASE UNCHANGED screenVars \/ Beside
  BY <1>2, <1>3, GuardBeside
<1>4. ASSUME NEW t \in DOMAIN Tasks, Press(t) PROVE Stays
  BY <1>1, <1>2, <1>4, PressRuns
<1>5. ASSUME NEW r \in running, NEW q, GoesOn(r, q) PROVE Stays
  BY <1>1, <1>2, <1>5 DEF GoesOn
<1>6. ASSUME NEW r \in running, NEW begun, Ends(r, begun), Resume(r) \/ Fail(r),
             ~(r.live /\ r.task = w.task)
      PROVE  Stays
  <2>1. WillLower(r) => Of(r).flag # Of(w).flag
    <3> SUFFICES ASSUME WillLower(r), Of(r).flag = Of(w).flag PROVE FALSE
      OBVIOUS
    <3>1. r.task = w.task
      BY GuardIsTyped, AloneTask DEF OnGuard
    <3>2. QED
      BY <1>6, <3>1, GuardLateEnd
  <2>2. w # r
    BY <1>1, <1>6
  <2>3. QED
    BY <1>2, <1>6, <2>1, <2>2, GuardStays
<1>7. ASSUME NEW r \in running, Fail(r) PROVE Stays
  <2>1. ~(r.live /\ r.task = w.task)
    <3> SUFFICES ASSUME r.live, r.task = w.task PROVE FALSE
      OBVIOUS
    <3>1. Of(r).start \in {"route", "called"}
      BY GuardIsTyped, AloneTask DEF OnGuard, Of
    <3>2. QED
      BY <1>7, <3>1 DEF Fail
  <2>2. QED
    BY <1>6, <1>7, <2>1, FailEnds
<1>8. ASSUME NEW r \in running, Resume(r),
             ~(r.live /\ r.task = w.task /\ r.step = Len(Of(r).steps))
      PROVE  Stays
  <2>1. CASE r.live /\ r.task = w.task
    <3>1. \E q : GoesOn(r, q)
      BY <1>8, <2>1, ResumeGoesOn
    <3>2. QED
      BY <1>5, <3>1
  <2>2. CASE ~(r.live /\ r.task = w.task)
    BY <1>5, <1>6, <1>8, <2>2, ResumeShapes, FinishEnds
  <2>3. QED
    BY <2>1, <2>2
<1>9. ASSUME NEW r \in running, Reply(r) \/ Error(r) PROVE Stays
  BY <1>5, <1>9, ReplyGoesOn, ErrorGoesOn
<1>10. QED
  BY <1>3, <1>4, <1>7, <1>8, <1>9 DEF ScreensNext, Beside

LEMMA DraftIsOwnNext ==
    ASSUME StepsInOrder, SlotsAreRenewed, ScreensTyped, SceneWhole, RunsKeyed, StaleIsRenewed,
           DraftIsOwn, [ScreensNext]_screenVars
    PROVE  DraftIsOwn'
<1> DEFINE RefillsNext(r) == /\ r.live /\ Alone(scene.page, r.task) /\ Of(r).flag \in flags'
                          /\ Refills(scene.page, r.task, scene.form)
           Goal == /\ ~Closes(scene.page, scene.form, scene.slot)
                   /\ Refilled => broken' \/ \E r \in running' : RefillsNext(r)
<1>1. scene' = scene /\ rush \subseteq rush'
  BY StepShapes, RushGrows
<1>2. draft'.of \in Records \cup {Nil}
  BY DraftNamedNext DEF DraftIsOwn
<1> SUFFICES ASSUME "late" \notin rush', draft'.of \notin {Nil, route'} PROVE Goal
  BY <1>1, <1>2 DEF DraftIsOwn, Refilling, OnGuard, Refilled, Of, Tasks
<1>3. ASSUME NEW k \in Records, Move(k) PROVE Goal
  BY <1>3, DraftMoved
<1> SUFFICES ASSUME ~\E k \in Records : Move(k) PROVE Goal
  BY <1>3
<1>4. route' = route /\ "late" \notin rush
  BY <1>1, RouteStays
<1>5. CASE OpenForm /\ draft'.of = (IF scene.slot = Nil THEN route ELSE shown.of)
  <2>1. ~Closes(scene.page, scene.form, scene.slot)
    BY <1>4, <1>5, OwnRecordFollows, OpenedOwn
  <2>2. PICK part \in Parts : scene.form \in DOMAIN part.offers
    BY <1>5 DEF OpenForm, CanUse
  <2>3. ~Refilled
    BY <2>2 DEF Refilled, Refills, ScreensTyped, SceneOK
  <2>4. QED
    BY <2>1, <2>3
<1>6. ASSUME NEW r \in running, draft'.of = r.key, ~r.live => "late" \in rush' PROVE FALSE
  BY <1>4, <1>6 DEF RunsKeyed, Keyed
<1>7. CASE draft'.of \in {draft.of, Nil}
  <2>1. draft.of \notin {Nil, route}
    BY <1>4, <1>7
  <2>2. /\ ~Closes(scene.page, scene.form, scene.slot)
        /\ Refilled => broken \/ \E r \in running : Refilling(r)
    BY <1>4, <2>1 DEF DraftIsOwn
  <2> SUFFICES ASSUME Refilled, ~broken' PROVE \E r \in running' : RefillsNext(r)
    BY <2>2
  <2>3. ~broken
    BY DEF ScreensNext, screenVars, Rest, Press, Change, OpenForm, TypeIn, CloseForm, Reply,
           Error, Resume, Fail
  <2>4. PICK w \in running : OnGuard(w) /\ Refills(scene.page, w.task, scene.form)
    BY <2>2, <2>3 DEF Refilling
  <2>5. ASSUME NEW r \in running, r.live, r.task = w.task, Resume(r), r.step = Len(Of(r).steps)
        PROVE  FALSE
    <3>1. scene.form \in Of(r).fills
      BY <2>4, <2>5, GuardIsTyped, AloneTask DEF OnGuard, Refills, Of
    <3>2. draft' = DraftAfter(r) /\ draft # NoDraft
      BY <2>1, <2>5 DEF Resume, NoDraft
    <3>3. draft'.of = r.key
      BY <3>1, <3>2 DEF DraftAfter, NoDraft
    <3>4. QED
      BY <1>6, <2>5, <3>3
  <2>6. PICK q \in running' : q.live /\ q.task = w.task /\ Of(w).flag \in flags'
    BY <2>3, <2>4, <2>5, GuardNext
  <2>7. QED
    BY <2>4, <2>6 DEF OnGuard, Of
<1>8. QED
  BY <1>5, <1>6, <1>7, DraftShapes

LEMMA OwnDraftSent ==
    ASSUME StepsInOrder, SlotsAreRenewed, FormsAreOwn, ScreensTyped, SceneWhole, StaleIsRenewed,
           DraftIsOwn, [ScreensNext]_screenVars
    PROVE  SendsOwnDraft
<1> SUFFICES ASSUME used'.clicks # used.clicks, "late" \notin rush,
                    <<scene.page, scene.form>> \in OwnForms,
                    NEW r \in running' \ running, r.task \in Saves
             PROVE  draft.of \in {Nil, r.key}
  <2>1. "late" \notin rush' => "late" \notin rush
    BY RushGrows
  <2>2. QED
    BY <2>1 DEF SendsOwnDraft
<1>1. PICK t \in DOMAIN Tasks : Press(t)
  BY DEF ScreensNext, screenVars, Rest, Move, Change, OpenForm, TypeIn, CloseForm, Reply,
         Error, Resume, Fail, ScreensTyped, DataTyped
<1>2. r.task = t /\ r.key = route
  <2>1. r = Start(t, route, used.clicks)
    BY <1>1, PressRuns
  <2>2. QED
    BY <1>1, <2>1, PressStarts
<1>3. PICK part \in Parts : Drawn(part) /\ Watched(part) /\ Opened(part)
  BY <1>1, <1>2, PressRuns DEF CanUse
<1>4. part \in Views[scene.page] /\ part.form = scene.form /\ scene.form # Nil
      /\ scene.page \in DOMAIN Pages
  BY <1>3 DEF ScreensTyped, SceneOK, Watched
<1> SUFFICES ASSUME draft.of \notin {Nil, route} PROVE FALSE
  BY <1>2
<1>5. /\ ~Closes(scene.page, scene.form, scene.slot)
      /\ Refilled => broken \/ \E w \in running : Refilling(w)
  BY DEF DraftIsOwn
<1>6. ~Refilled
  <2> SUFFICES ASSUME NEW w \in running, Refilling(w) PROVE FALSE
    BY <1>3, <1>5 DEF Drawn
  <2>1. Of(w).flag \in part.waits /\ Of(w).flag \in flags
    BY <1>4, GuardIsTyped, AloneTask DEF Refilling, OnGuard, Refills
  <2>2. QED
    BY <1>3, <2>1 DEF Drawn
<1>7. InOwnRow(scene.page, scene.form, scene.slot)
  <2>1. PICK x \in Views[scene.page] :
            x.form = scene.form /\ x.fills = scene.slot /\ DOMAIN x.offers # {"type"}
    BY <1>4 DEF SceneWhole
  <2>2. QED
    BY <1>4, <1>5, <1>6, <2>1 DEF FormsAreOwn, Refilled
<1>8. shown.of = draft.of /\ Renewed(scene.page, scene.slot)
  BY <1>3, <1>4, <1>7 DEF InOwnRow, Opened
<1>9. Stale /\ Calm
  <2>1. draft.of \in Records
    BY DEF DraftIsOwn
  <2>2. QED
    BY <1>8, <2>1, RecordsAssumption DEF Stale, Calm, Empty
<1>10. PICK w \in running : Renewing(w)
  BY <1>3, <1>8, <1>9 DEF StaleIsRenewed, Drawn
<1>11. Of(w).flag \in part.waits /\ Of(w).flag \in flags
  <2>1. w.task \in DOMAIN Pages[scene.page] /\ Of(w) = Pages[scene.page][w.task]
    BY <1>10, RenewingTask, GuardIsTyped, AloneTask DEF OnGuard
  <2>2. QED
    BY <1>4, <1>7, <1>10, <2>1 DEF InOwnRow, Renewing
<1>12. QED
  BY <1>3, <1>11 DEF Drawn

\* OwnDraft, on any pages of which these forms are closed, filled anew, or drawn with a row of
\* the page's record.
THEOREM OwnDraftIsSent ==
    ASSUME StepsInOrder, LoadsAreCalled, SlotsAreRenewed, SlotsAreGuarded, FormsAreOwn
    PROVE  ScreensSpec => OwnDraft
<1> DEFINE Inv == SceneWhole /\ RunsKeyed /\ ClicksAreLive /\ StaleIsRenewed
<1>1. ScreensInit => Inv /\ DraftIsOwn
  <2>1. ScreensInit => Inv
    BY OwnRecordInit
  <2>2. ScreensInit => draft.of = Nil
    BY DEF ScreensInit, NoDraft
  <2>3. QED
    BY <2>1, <2>2 DEF DraftIsOwn
<1>2. ScreensTyped /\ Inv /\ [ScreensNext]_screenVars => Inv'
  BY SceneWholeNext, RunsKeyedNext, ClicksAreLiveNext, StaleIsRenewedNext
<1>3. ScreensTyped /\ Inv /\ DraftIsOwn /\ [ScreensNext]_screenVars => DraftIsOwn'
  BY DraftIsOwnNext
<1>4. ScreensTyped /\ Inv /\ DraftIsOwn /\ [ScreensNext]_screenVars => [SendsOwnDraft]_screenVars
  BY OwnDraftSent
<1>5. QED
  BY <1>1, <1>2, <1>3, <1>4, ScreensStayTyped, PTL DEF ScreensSpec, OwnDraft

-------------------------------------------------------------------------------
\* EmptyMeansNone.  While nothing has failed, a slot that is brought by a load of the page is
\* empty only as long as such a load is under way behind its flag.
Brought ==
    /\ \A t \in DOMAIN Pages[scene.page] : scene.slot \notin Pages[scene.page][t].clears
    /\ \E t \in DOMAIN Pages[scene.page] :
          Pages[scene.page][t].start = "route" /\ Brings(scene.page, t, scene.slot)

\* No request of the task has failed, and it has something from the step that fetches it on.
Sound(r) ==
    /\ r.at # "failed" /\ (r.got # Unset => r.got.of \in Records)
    /\ Yields(Of(r), scene.slot) =>
          \A n \in 1 .. r.step :
              scene.slot \in DOMAIN Of(r).steps[n].gets /\ (n = r.step => r.at = "answered")
              => r.got # Unset

NothingFailed == used.errors = 0 => \A r \in running : Sound(r)

\* What the task fetches has still to be shown.
Pending(r) ==
    Yields(Of(r), scene.slot) =>
        \E n \in r.step .. Len(Of(r).steps) : scene.slot \in Of(r).steps[n].shows

\* A load that will bring the slot, behind its flag, also when the address has changed.
Bringing(r) ==
    /\ Brings(scene.page, r.task, scene.slot) /\ Of(r).flag \in flags
    /\ r.live \/ Of(r).lowers # "live"

EmptyIsAwaited ==
    used.errors = 0 /\ Brought /\ shown = Empty =>
        /\ \E r \in running : Bringing(r)
        /\ \A r \in running : Pending(r)

LEMMA FreshSound ==
    ASSUME NEW r, r.got = Unset, r.step = 1, r.at = "sent"
    PROVE  Sound(r)
BY DEF Sound

LEMMA AnsweredSound ==
    ASSUME StepsInOrder, ScreensTyped, NEW r \in running, Sound(r), NEW q,
           GoesOn(r, q), Answered(r, q)
    PROVE  Sound(q)
<1>1. /\ r.step \in Nat /\ Of(q) = Of(r) /\ r.key \in Records
      /\ q.step = r.step /\ q.at = "answered" /\ r.at = "sent"
  BY DEF ScreensTyped, RunsTyped, RunType, GoesOn, Answered, Of
<1>2. IF scene.slot \in DOMAIN StepOf(r).gets THEN q.got.of = r.key ELSE q.got = r.got
  BY DEF Answered
<1>3. q.got # Unset => q.got.of \in Records
  BY <1>1, <1>2 DEF Sound
<1>4. ASSUME Yields(Of(r), scene.slot), NEW n \in 1 .. r.step,
             scene.slot \in DOMAIN Of(r).steps[n].gets
      PROVE  q.got # Unset
  <2>1. CASE scene.slot \in DOMAIN StepOf(r).gets
    BY <1>1, <1>2, <2>1, NilIsNobody
  <2>2. CASE scene.slot \notin DOMAIN StepOf(r).gets
    <3>1. n # r.step
      BY <1>4, <2>2 DEF StepOf
    <3>2. r.got # Unset
      BY <1>1, <1>4, <3>1 DEF Sound
    <3>3. QED
      BY <1>2, <2>2, <3>2
  <2>3. QED
    BY <2>1, <2>2
<1>5. QED
  BY <1>1, <1>3, <1>4 DEF Sound

LEMMA NextStepSound ==
    ASSUME StepsInOrder, ScreensTyped, NEW r \in running, Sound(r), NEW q,
           GoesOn(r, q), NextStep(r, q)
    PROVE  Sound(q)
<1>1. /\ r.step \in Nat /\ Of(q) = Of(r) /\ q.at # "failed"
      /\ q.step = r.step + 1 /\ r.at = "answered" /\ q.got = r.got
  BY DEF ScreensTyped, RunsTyped, RunType, GoesOn, NextStep, Of
<1>2. q.at = "answered" => scene.slot \notin DOMAIN Of(r).steps[r.step + 1].gets
  BY <1>1 DEF NextStep, NoSlots
<1>3. ASSUME Yields(Of(r), scene.slot), NEW n \in 1 .. (r.step + 1),
             scene.slot \in DOMAIN Of(r).steps[n].gets,
             n = r.step + 1 => q.at = "answered"
      PROVE  r.got # Unset
  <2>1. n \in 1 .. r.step
    BY <1>1, <1>2, <1>3
  <2>2. QED
    BY <1>1, <1>3, <2>1 DEF Sound
<1>4. QED
  BY <1>1, <1>3 DEF Sound

LEMMA ErrorsGrow ==
    ASSUME ScreensTyped, [ScreensNext]_screenVars, used'.errors = 0
    PROVE  used.errors = 0 /\ ~\E r \in running : Error(r)
<1>1. used.errors \in Nat /\ DOMAIN used = {"moves", "clicks", "errors"}
  BY DEF ScreensTyped, DataTyped
<1>2. ASSUME NEW r \in running, Error(r) PROVE FALSE
  BY <1>1, <1>2 DEF Error, ScreensTyped, DataTyped
<1>3. CASE UNCHANGED used
  BY <1>2, <1>3
<1>4. ASSUME NEW k \in Records, Move(k) PROVE used.errors = 0
  BY <1>4 DEF Move, ScreensTyped, DataTyped
<1>5. ASSUME NEW t \in DOMAIN Tasks, Press(t) \/ Change(t) PROVE used.errors = 0
  BY <1>5 DEF Press, Change, ScreensTyped, DataTyped
<1>6. QED
  BY <1>2, <1>3, <1>4, <1>5 DEF ScreensNext, screenVars, Rest, OpenForm, TypeIn, CloseForm,
                                Reply, Resume, Fail

LEMMA NothingFailedNext ==
    ASSUME StepsInOrder, ScreensTyped, NothingFailed, [ScreensNext]_screenVars
    PROVE  NothingFailed'
<1> SUFFICES ASSUME used'.errors = 0 PROVE NothingFailed'
  BY DEF NothingFailed
<1>1. /\ scene' = scene /\ used.errors = 0 /\ ~\E r \in running : Error(r)
  BY StepShapes, ErrorsGrow
<1>2. (\A r \in running' : Sound(r)) => NothingFailed'
  BY <1>1 DEF NothingFailed, Sound, Of, Tasks
<1>3. \A r \in running : Sound(r)
  BY <1>1 DEF NothingFailed
<1>4. ASSUME NEW k \in Records, Move(k) PROVE NothingFailed'
  <2>1. ASSUME NEW r \in running PROVE Sound(Cut(r))
    <3>1. r \in RunType
      BY DEF ScreensTyped, RunsTyped
    <3>2. Of(Cut(r)) = Of(r)
      BY <3>1, CutTyped DEF Of
    <3>3. QED
      BY <1>3, <3>1, <3>2, CutTyped DEF Sound
  <2>2. ASSUME NEW t \in OnRoute PROVE Sound(Start(t, k, used.moves + 1))
    BY <1>4, MoveRuns, Started, FreshSound DEF ScreensTyped
  <2>3. QED
    BY <1>2, <1>4, <2>1, <2>2, MoveRuns
<1>5. ASSUME NEW t \in DOMAIN Tasks, Press(t) PROVE NothingFailed'
  <2>1. route \in Records /\ used.clicks \in Nat
    BY <1>5, PressRuns
  <2>2. Sound(Start(t, route, used.clicks))
    BY <2>1, Started, FreshSound DEF ScreensTyped
  <2>3. QED
    BY <1>2, <1>3, <1>5, <2>2, PressRuns
<1>6. CASE UNCHANGED screenVars \/ Beside
  BY <1>2, <1>3, <1>6, BesideKeeps DEF screenVars
<1>7. ASSUME NEW r \in running, NEW q, GoesOn(r, q), Answered(r, q) \/ NextStep(r, q)
      PROVE  NothingFailed'
  <2>1. Sound(q)
    BY <1>3, <1>7, AnsweredSound, NextStepSound
  <2>2. QED
    BY <1>2, <1>3, <1>7, <2>1 DEF GoesOn
<1>8. ASSUME NEW r \in running, NEW begun, Ends(r, begun) PROVE NothingFailed'
  <2>1. ASSUME NEW t \in begun PROVE Sound(Begun(t, r))
    <3>1. t \in DOMAIN Tasks
      BY <1>8 DEF Ends
    <3>2. QED
      BY <3>1, BegunTyped, FreshSound
  <2>2. QED
    BY <1>2, <1>3, <1>8, <2>1 DEF Ends
<1>9. CASE \E r \in running : Reply(r) \/ Resume(r) \/ Fail(r)
  BY <1>7, <1>8, <1>9, ReplyGoesOn, ResumeShapes, FinishEnds, FailEnds
<1>10. QED
  BY <1>1, <1>4, <1>5, <1>6, <1>9 DEF ScreensNext, Beside

\* A task that nothing has failed for shows what it has fetched.
LEMMA SoundShows ==
    ASSUME StepsInOrder, ScreensTyped, NEW r \in running, Sound(r), r.at = "answered"
    PROVE  /\ Shown(r) = shown \/ Shown(r).of \in Records
           /\ Yields(Of(r), scene.slot) /\ scene.slot \in StepOf(r).shows
              => Shown(r).of \in Records
<1>1. /\ r.key \in Records /\ shown \in Versions
      /\ r.step \in DOMAIN Of(r).steps /\ r.step \in Nat
  BY DEF ScreensTyped, DataTyped, RunsTyped, RunType
<1>2. StepOf(r).adds /\ scene.slot \in StepOf(r).shows => Shown(r).of \in Records
  BY <1>1 DEF Shown, Versions
<1>3. ~StepOf(r).adds /\ scene.slot \in StepOf(r).shows /\ r.got # Unset
      => Shown(r).of \in Records
  BY <1>1 DEF Shown, Sound
<1>4. ~StepOf(r).adds /\ r.got = Unset => Shown(r) = shown
  BY DEF Shown
<1>5. scene.slot \notin StepOf(r).shows => Shown(r) = shown
  BY DEF Shown
<1>6. ASSUME Yields(Of(r), scene.slot), scene.slot \in StepOf(r).shows
      PROVE  r.got # Unset
  <2>1. PICK m \in 1 .. r.step : scene.slot \in DOMAIN Of(r).steps[m].gets
    BY <1>1, <1>6 DEF Yields, StepOf
  <2>2. QED
    BY <1>1, <1>6, <2>1 DEF Sound
<1>7. QED
  BY <1>2, <1>3, <1>4, <1>5, <1>6

LEMMA NobodyIsNoRecord == \A v : v = Empty => v.of \notin Records
BY RecordsAssumption DEF Empty

\* A slot that is brought and never emptied was empty before if it is now, and the step that
\* goes on has not shown it.
LEMMA EmptyStays ==
    ASSUME StepsInOrder, ScreensTyped, NothingFailed, Brought, used.errors = 0,
           [ScreensNext]_screenVars, shown' = Empty
    PROVE  /\ shown = Empty
           /\ \A r \in running :
                 Resume(r) /\ ~(StepOf(r).guarded /\ ~r.live)
                 => ~(Yields(Of(r), scene.slot) /\ scene.slot \in StepOf(r).shows)
<1>1. \A r \in running : Sound(r)
  BY DEF NothingFailed
<1>2. \A ts \in SUBSET DOMAIN Tasks : \A old : Cleared(ts, old) = old
  BY DEF Brought, ScreensTyped, SceneOK, Cleared, Clears
<1>3. ASSUME NEW r \in running, Resume(r), ~(StepOf(r).guarded /\ ~r.live)
      PROVE  /\ shown = Empty
             /\ ~(Yields(Of(r), scene.slot) /\ scene.slot \in StepOf(r).shows)
  <2> DEFINE called == IF r.step = Len(Of(r).steps) THEN Of(r).calls \cap DOMAIN Tasks ELSE {}
  <2>1. r.at = "answered" /\ shown' = Cleared(called, Shown(r)) /\ called \in SUBSET DOMAIN Tasks
    BY <1>3 DEF Resume
  <2>2. Shown(r) = Empty
    BY <1>2, <2>1
  <2>3. QED
    BY <1>1, <2>1, <2>2, SoundShows, NobodyIsNoRecord
<1>4. ASSUME NEW r \in running, Resume(r), StepOf(r).guarded /\ ~r.live PROVE shown = Empty
  BY <1>4 DEF Resume
<1>5. ASSUME NEW k \in Records, Move(k) PROVE shown = Empty
  BY <1>2, <1>5, MoveRuns DEF Move
<1>6. ASSUME NEW t \in DOMAIN Tasks, Change(t) PROVE shown = Empty
  <2> DEFINE s == Start(t, route, used.clicks)
  <2>1. s.got = Unset /\ s.key = route
    BY DEF Start
  <2>2. shown' = Shown(s) /\ shown \in Versions /\ route \in Records
    BY <1>6 DEF Change, ScreensTyped, DataTyped
  <2> HIDE DEF s
  <2>3. Shown(s) = shown \/ Shown(s).of = route
    BY <2>1, <2>2 DEF Shown, Versions
  <2>4. QED
    BY <2>2, <2>3, NobodyIsNoRecord
<1>7. shown = Empty
  BY <1>3, <1>4, <1>5, <1>6 DEF ScreensNext, screenVars, Rest, Press, OpenForm, TypeIn,
                                CloseForm, Reply, Error, Fail
<1>8. QED
  BY <1>3, <1>7

\* What is known of a load that brings the slot.
LEMMA BringingTask ==
    ASSUME ScreensTyped, NEW r \in running, Brings(scene.page, r.task, scene.slot)
    PROVE  /\ r \in RunType /\ Alone(scene.page, r.task) /\ Of(r) = Pages[scene.page][r.task]
           /\ Of(r).again = "beside" /\ Of(r).flag # Nil
           /\ Of(r).lowers = "live" \/ \A n \in DOMAIN Of(r).steps : ~Of(r).steps[n].guarded
           /\ \A part \in Parts : Of(r).flag \notin part.frees
           /\ \A q \in running : Of(q).flag = Of(r).flag => q.task = r.task
<1>1. Alone(scene.page, r.task)
  BY DEF Brings, Veils
<1>2. r \in RunType /\ SceneOK /\ running \subseteq RunType
  BY DEF ScreensTyped, RunsTyped
<1>3. QED
  BY <1>1, <1>2, AloneTask

\* At its end the slot is shown, or the task that it calls goes on with it.
LEMMA BringingEnds ==
    ASSUME StepsInOrder, ScreensTyped, SceneWhole, NEW r \in running, Resume(r),
           ~(StepOf(r).guarded /\ ~r.live), r.step = Len(Of(r).steps),
           Brings(scene.page, r.task, scene.slot), r.live \/ Of(r).lowers # "live",
           Pending(r), ~(Yields(Of(r), scene.slot) /\ scene.slot \in StepOf(r).shows)
    PROVE  \E q \in running' :
               /\ Brings(scene.page, q.task, scene.slot) /\ Of(q).flag \in flags'
               /\ q.live \/ Of(q).lowers # "live"
<1> DEFINE called == Of(r).calls \cap DOMAIN Tasks
           page   == Pages[scene.page]
<1>1. Finish(r, called)
  BY DEF Resume
<1>2. r \in RunType /\ SceneOK /\ r.step \in Nat /\ Of(r) = page[r.task]
  BY DEF ScreensTyped, RunsTyped, RunType, SceneOK, Of
<1>3. ~Yields(Of(r), scene.slot)
  BY <1>2 DEF Pending, StepOf
<1>4. PICK u \in Of(r).calls \cap DOMAIN page :
          /\ Veils(scene.page, u, scene.slot) /\ Yields(page[u], scene.slot)
          /\ page[u].lowers = "live" => Of(r).lowers = "live"
  BY <1>2, <1>3 DEF Brings
<1>5. scene.slot \in SlotsOf(page[u])
  BY <1>4 DEF Yields, SlotsOf, StepsOf
<1>6. u \in called /\ Tasks[u] = page[u]
  <2>1. u \in DOMAIN Tasks
    BY <1>4, <1>5 DEF SceneWhole
  <2>2. QED
    BY <1>2, <1>4, <2>1 DEF SceneOK
<1>7. /\ Brings(scene.page, u, scene.slot) /\ page[u].flag # Nil
      /\ page[u].again = "beside"
  BY <1>4 DEF Brings, Veils, Alone
<1>8. Begun(u, r) \in running' /\ page[u].flag \in flags'
  BY <1>1, <1>6, <1>7, FinishBegins
<1>9. Begun(u, r).live = r.live /\ Begun(u, r).task = u
  BY <1>6, BegunTyped
<1>10. QED
  BY <1>4, <1>6, <1>7, <1>8, <1>9 DEF Of

LEMMA FreshPending ==
    ASSUME StepsInOrder, SceneOK, NEW r, r.task \in DOMAIN Tasks, r.step = 1
    PROVE  Pending(r)
BY DEF Pending, Yields, StepsInOrder, SceneOK, Of

\* The load that begins with the address.
LEMMA BroughtOnRoute ==
    ASSUME SceneOK, SceneWhole, Brought
    PROVE  \E t \in OnRoute : Brings(scene.page, t, scene.slot) /\ Tasks[t].flag # Nil
<1>1. PICK t \in DOMAIN Pages[scene.page] :
          Pages[scene.page][t].start = "route" /\ Brings(scene.page, t, scene.slot)
  BY DEF Brought
<1>2. t \in DOMAIN Tasks /\ Tasks[t] = Pages[scene.page][t] /\ Tasks[t].flag # Nil
  BY <1>1 DEF Brings, Veils, Alone, SceneWhole, SceneOK
<1>3. QED
  BY <1>1, <1>2 DEF OnRoute

LEMMA EmptyIsAwaitedInit ==
    ASSUME StepsInOrder, ScreensInit PROVE NothingFailed /\ EmptyIsAwaited
<1>1. SceneOK /\ SceneWhole /\ route \in Records
  BY SceneTaken, SceneWholeInit, FirstIsRecord DEF ScreensInit
<1>2. /\ running = {Start(t, route, 0) : t \in OnRoute} /\ flags = Flags(OnRoute)
      /\ OnRoute \subseteq DOMAIN Tasks
  BY DEF ScreensInit, OnRoute
<1>3. \A t \in OnRoute :
          LET r == Start(t, route, 0)
          IN  r.task = t /\ r.live /\ r.step = 1 /\ r.got = Unset /\ r.at = "sent"
  BY DEF Start
<1>4. \A r \in running : Sound(r) /\ Pending(r)
  BY <1>1, <1>2, <1>3, FreshSound, FreshPending
<1>5. ASSUME Brought PROVE \E r \in running : Bringing(r)
  <2>1. PICK t \in OnRoute : Brings(scene.page, t, scene.slot) /\ Tasks[t].flag # Nil
    BY <1>1, <1>5, BroughtOnRoute
  <2>2. Bringing(Start(t, route, 0))
    BY <1>2, <1>3, <2>1 DEF Bringing, Flags, Of
  <2>3. QED
    BY <1>2, <2>2
<1>6. QED
  BY <1>4, <1>5 DEF NothingFailed, EmptyIsAwaited

LEMMA EmptyIsAwaitedNext ==
    ASSUME StepsInOrder, ScreensTyped, SceneWhole, NothingFailed, EmptyIsAwaited,
           [ScreensNext]_screenVars
    PROVE  EmptyIsAwaited'
<1> DEFINE Brings1(r) == /\ Brings(scene.page, r.task, scene.slot) /\ Of(r).flag \in flags'
                         /\ r.live \/ Of(r).lowers # "live"
           Behind1    == \E r \in running' : Brings1(r)
           AllPending == \A r \in running' : Pending(r)
<1>1. scene' = scene /\ SceneOK /\ \A r \in running : r \in RunType
  BY StepShapes DEF ScreensTyped, RunsTyped
<1> SUFFICES ASSUME used'.errors = 0, Brought, shown' = Empty PROVE Behind1 /\ AllPending
  BY <1>1 DEF EmptyIsAwaited, Brought, Bringing, Pending, Of, Tasks
<1>2. used.errors = 0 /\ ~\E r \in running : Error(r)
  BY ErrorsGrow
<1>3. shown = Empty
  BY <1>2, EmptyStays
<1>4. (\E r \in running : Bringing(r)) /\ \A r \in running : Pending(r) /\ Sound(r)
  BY <1>2, <1>3 DEF EmptyIsAwaited, NothingFailed
<1>5. ASSUME NEW k \in Records, Move(k) PROVE Behind1 /\ AllPending
  <2> DEFINE s(t) == Start(t, k, used.moves + 1)
  <2>1. /\ running' = {Cut(r) : r \in running} \cup {s(t) : t \in OnRoute}
        /\ flags' = flags \cup Flags(OnRoute) /\ OnRoute \subseteq DOMAIN Tasks
    BY <1>5, MoveRuns
  <2>2. \A t \in OnRoute : s(t).task = t /\ s(t).live /\ s(t).step = 1
    BY DEF Start
  <2> HIDE DEF s
  <2>3. PICK t \in OnRoute : Brings(scene.page, t, scene.slot) /\ Tasks[t].flag # Nil
    BY <1>1, BroughtOnRoute
  <2>4. Brings1(s(t))
    BY <2>1, <2>2, <2>3 DEF Flags, Of
  <2>5. \A x \in OnRoute : Pending(s(x))
    BY <1>1, <2>1, <2>2, FreshPending
  <2>6. ASSUME NEW r \in running PROVE Pending(Cut(r))
    <3>1. Of(Cut(r)) = Of(r) /\ Cut(r).step = r.step
      BY <1>1, CutTyped DEF Of
    <3>2. QED
      BY <1>4, <3>1 DEF Pending
  <2>7. QED
    BY <2>1, <2>4, <2>5, <2>6
<1>6. CASE UNCHANGED screenVars \/ Beside
  <2>1. /\ running' = running
        /\ \A f \in flags : f \in flags' \/ \E part \in Parts : f \in part.frees
    BY <1>6, BesideKeeps DEF screenVars
  <2>2. PICK w \in running : Bringing(w)
    BY <1>4
  <2>3. \A part \in Parts : Of(w).flag \notin part.frees
    BY <2>2, BringingTask DEF Bringing
  <2>4. Brings1(w)
    BY <2>1, <2>2, <2>3 DEF Bringing
  <2>5. QED
    BY <1>4, <2>1, <2>4
<1>7. ASSUME NEW t \in DOMAIN Tasks, Press(t) PROVE Behind1 /\ AllPending
  <2> DEFINE s == Start(t, route, used.clicks)
  <2>1. running' = running \cup {s} /\ flags \subseteq flags'
    BY <1>7, PressRuns
  <2>2. s.task = t /\ s.step = 1
    BY DEF Start
  <2> HIDE DEF s
  <2>3. Pending(s)
    BY <1>1, <2>2, FreshPending
  <2>4. \A r \in running : Bringing(r) => Brings1(r)
    BY <2>1 DEF Bringing
  <2>5. QED
    BY <1>4, <2>1, <2>3, <2>4
<1>8. ASSUME NEW r \in running, NEW q, GoesOn(r, q), Pending(q) PROVE Behind1 /\ AllPending
  <2>1. /\ running' = (running \ {r}) \cup {q} /\ flags' = flags
        /\ q.live = r.live /\ q.task = r.task /\ Of(q) = Of(r)
    BY <1>8 DEF GoesOn, Of
  <2>2. \A w \in running : Bringing(w) => Brings1(w)
    BY <2>1 DEF Bringing
  <2>3. Bringing(r) => Brings1(q)
    BY <2>1 DEF Bringing
  <2> HIDE DEF Brings1
  <2>4. QED
    BY <1>4, <1>8, <2>1, <2>2, <2>3
<1>9. ASSUME NEW r \in running, Reply(r) PROVE Behind1 /\ AllPending
  <2>1. PICK q : GoesOn(r, q) /\ Answered(r, q)
    BY <1>9, ReplyGoesOn
  <2>2. q.step = r.step /\ Of(q) = Of(r)
    BY <2>1 DEF GoesOn, Answered, Of
  <2>3. Pending(q)
    BY <1>4, <2>2 DEF Pending
  <2>4. QED
    BY <1>8, <2>1, <2>3
<1>10. ASSUME NEW r \in running, Fail(r) PROVE FALSE
  BY <1>4, <1>10 DEF Fail, Sound
<1>11. ASSUME NEW r \in running, Resume(r) PROVE Behind1 /\ AllPending
  <2> DEFINE called  == Of(r).calls \cap DOMAIN Tasks
             dropped == StepOf(r).guarded /\ ~r.live
             over    == r.step = Len(Of(r).steps)
  <2>1. ~dropped => ~(Yields(Of(r), scene.slot) /\ scene.slot \in StepOf(r).shows)
    BY <1>2, <1>11, EmptyStays
  <2>2. CASE dropped \/ over
    <3>1. PICK begun : Ends(r, begun)
      <4>1. Finish(r, IF dropped THEN {} ELSE called)
        BY <1>11, <2>2 DEF Resume
      <4>2. (IF dropped THEN {} ELSE called) \in SUBSET called
        OBVIOUS
      <4>3. QED
        BY <4>1, <4>2, FinishEnds
    <3>2. AllPending
      <4>1. ASSUME NEW t \in begun PROVE Pending(Begun(t, r))
        <5>1. t \in DOMAIN Tasks
          BY <3>1 DEF Ends
        <5>2. Begun(t, r).task = t /\ Begun(t, r).step = 1
          BY <5>1, BegunTyped
        <5>3. QED
          BY <1>1, <5>1, <5>2, FreshPending
      <4>2. QED
        BY <1>4, <3>1, <4>1 DEF Ends
    <3>3. Behind1
      <4>1. PICK w \in running : Bringing(w)
        BY <1>4
      <4>2. /\ Of(w).again = "beside" /\ Of(w).flag \in flags
            /\ Of(w).lowers = "live" \/ \A n \in DOMAIN Of(w).steps : ~Of(w).steps[n].guarded
            /\ Of(r).flag = Of(w).flag => r.task = w.task
        BY <4>1, BringingTask DEF Bringing
      <4>3. CASE w # r /\ (WillLower(r) => Of(r).flag # Of(w).flag)
        <5>1. w \in running' /\ Of(w).flag \in flags'
          BY <3>1, <4>2, <4>3 DEF Ends, Of
        <5>2. QED
          BY <4>1, <5>1 DEF Bringing
      <4>4. CASE w = r \/ (WillLower(r) /\ Of(r).flag = Of(w).flag)
        <5>1. r.task = w.task /\ Of(r) = Of(w)
          BY <4>2, <4>4 DEF Of
        <5>2. r.live \/ Of(r).lowers # "live"
          BY <4>1, <4>4 DEF Bringing, WillLower
        <5>3. r.step \in DOMAIN Of(r).steps
          BY DEF ScreensTyped, RunsTyped
        <5>4. ~dropped /\ over
          BY <2>2, <4>2, <5>1, <5>2, <5>3 DEF StepOf
        <5>5. Brings(scene.page, r.task, scene.slot)
          BY <4>1, <5>1 DEF Bringing
        <5>6. QED
          BY <1>4, <1>11, <2>1, <5>2, <5>4, <5>5, BringingEnds
      <4>5. QED
        BY <4>3, <4>4
    <3>4. QED
      BY <3>2, <3>3
  <2>3. CASE ~(dropped \/ over)
    <3>1. PICK q : GoesOn(r, q) /\ NextStep(r, q)
      BY <1>11, <2>3, ResumeGoesOn
    <3>2. /\ q.step = r.step + 1 /\ Of(q) = Of(r)
          /\ r.step \in Nat /\ Len(Of(r).steps) \in Nat
      BY <1>1, <3>1 DEF GoesOn, NextStep, Of, RunType, StepsInOrder, SceneOK
    <3>3. Pending(q)
      <4> SUFFICES ASSUME Yields(Of(r), scene.slot)
                   PROVE  \E n \in (r.step + 1) .. Len(Of(r).steps) :
                              scene.slot \in Of(r).steps[n].shows
        BY <3>2 DEF Pending
      <4>1. PICK n \in r.step .. Len(Of(r).steps) : scene.slot \in Of(r).steps[n].shows
        BY <1>4 DEF Pending
      <4>2. n # r.step
        BY <2>1, <2>3, <4>1 DEF StepOf
      <4>3. n \in (r.step + 1) .. Len(Of(r).steps)
        BY <3>2, <4>2
      <4>4. QED
        BY <4>1, <4>3
    <3>4. QED
      BY <1>8, <3>1, <3>3
  <2>4. QED
    BY <2>2, <2>3
<1>12. QED
  BY <1>2, <1>5, <1>6, <1>7, <1>9, <1>10, <1>11 DEF ScreensNext, Beside

LEMMA EmptyMeansNoneFollows ==
    ASSUME SlotsAreBrought, ScreensTyped, SceneWhole, EmptyIsAwaited PROVE EmptyMeansNone
<1> SUFFICES ASSUME scene.page \notin HastyPages, ~IsCached(scene.page, scene.slot),
                    Watch \notin ShownEmpty, Visible, shown = Empty, used.errors = 0, Awaited
             PROVE  FALSE
  BY DEF EmptyMeansNone, Watch
<1>1. /\ scene.page \in DOMAIN Pages /\ Parts \subseteq Views[scene.page]
      /\ \A t \in DOMAIN Tasks : t \in DOMAIN Pages[scene.page] /\ Tasks[t] = Pages[scene.page][t]
      /\ \A r \in running : r.task \in DOMAIN Tasks
  BY DEF ScreensTyped, SceneOK, RunsTyped, RunType
<1>2. PICK part \in Parts : scene.slot \in part.shows \ part.needs /\ Drawn(part)
  BY DEF Visible
<1>3. Loaders(scene.page, scene.slot) # {}
  <2>1. PICK r \in running :
            /\ Of(r).start # "click"
            /\ \E t \in {r.task} \cup (Of(r).calls \cap DOMAIN Tasks) :
                  scene.slot \in SlotsOf(Tasks[t])
    BY DEF Awaited
  <2>2. r.task \in Loaders(scene.page, scene.slot)
    BY <1>1, <2>1 DEF Loaders, Of
  <2>3. QED
    BY <2>2
<1>4. Brought
  BY <1>1, <1>2, <1>3 DEF SlotsAreBrought, Watch, Brought
<1>5. PICK r \in running : Bringing(r)
  BY <1>4 DEF EmptyIsAwaited
<1>6. Of(r).flag \in part.waits /\ Of(r).flag \in flags
  <2>1. Veils(scene.page, r.task, scene.slot) /\ Of(r) = Pages[scene.page][r.task]
    BY <1>5, BringingTask DEF Bringing, Brings
  <2>2. QED
    BY <1>1, <1>2, <1>5, <2>1 DEF Bringing, Veils
<1>7. QED
  BY <1>2, <1>6 DEF Drawn

\* EmptyMeansNone, on any pages whose slots are brought by loads that begin with the page.
THEOREM NothingIsShownEmpty ==
    ASSUME StepsInOrder, SlotsAreBrought
    PROVE  ScreensSpec => []EmptyMeansNone
<1> DEFINE Inv == SceneWhole /\ NothingFailed /\ EmptyIsAwaited
<1>1. ScreensInit => Inv
  BY SceneWholeInit, EmptyIsAwaitedInit
<1>2. ScreensTyped /\ Inv /\ [ScreensNext]_screenVars => Inv'
  BY SceneWholeNext, NothingFailedNext, EmptyIsAwaitedNext
<1>3. ScreensTyped /\ Inv => EmptyMeansNone
  BY EmptyMeansNoneFollows
<1>4. QED
  BY <1>1, <1>2, <1>3, ScreensStayTyped, PTL DEF ScreensSpec

-------------------------------------------------------------------------------
\* SavedIsShown.  While nobody hurries and nothing fails, either loads are under way, and the
\* slot shows what is stored or one of them will; or one click alone is, on its way to it.
SceneFilled ==
    /\ scene.kinds = KindsOf(Pages[scene.page], scene.slot)
    /\ scene.slot \in WatchedOn(scene.page)
    /\ \A t \in DOMAIN Pages[scene.page] :
          (\E u \in Pages[scene.page][t].calls \cap DOMAIN Pages[scene.page] :
              scene.slot \in SlotsOf(Pages[scene.page][u]))
          => t \in DOMAIN Tasks

Unhurried == used.errors = 0 /\ used.moves = 0 /\ rush \subseteq {"lost"}

AllAreLive == used.moves = 0 => \A r \in running : r.live

\* A version of the present record that is the stored one, or newer where nothing is stored.
Current(v, stored) ==
    /\ v.of = route
    /\ v.version = stored \/ (Watch \in NeverStored /\ v.version > stored)

HasCurrent(r, stored) == r.got = Unset \/ Current(r.got, stored)

\* A load that will show the slot, or call one that does.
Coming(r) ==
    \/ Yields(Of(r), scene.slot) /\ Pending(r)
    \/ \E u \in Of(r).calls \cap DOMAIN Tasks : Yields(Tasks[u], scene.slot)

Loading(runs, has, stored) ==
    /\ \A r \in runs : Of(r).start \in {"route", "called"} /\ HasCurrent(r, stored)
    /\ Current(has, stored) \/ \E r \in runs : Coming(r)
    /\ IsCached(scene.page, scene.slot) /\ has = Empty => \A r \in runs : Pending(r)

\* The step has been answered.
Past(r, n) == r.step > n \/ (r.step = n /\ r.at = "answered")

OneMore(v) == [of |-> route, version |-> v.version + 1]

\* How far a click has come in what its task does, by the cases of Completes.
Delivering(c) ==
    \E u \in Of(c).calls \cap DOMAIN Pages[scene.page] : Delivers(scene.page, u, scene.slot)

Harmless(c, has, stored) ==
    /\ Changes(scene.page, c.task, scene.slot) \cup Adds(scene.page, c.task, scene.slot) = {}
    /\ HasCurrent(c, stored) /\ Current(has, stored)

Refetching(c, m, n, has, stored) ==
    /\ RefetchedAt(scene.page, c.task, scene.slot, m, n)
    /\ Past(c, m) => Current(c.got, stored)
    /\ c.step > n => Current(has, stored)

Adding(c, k, has, stored) ==
    /\ AddedAt(scene.page, c.task, scene.slot, k)
    /\ c.step = k /\ c.at = "answered" => Current(OneMore(has), stored)
    /\ ~(c.step = k /\ c.at = "answered") => Current(has, stored)

Completing(c, has, stored) ==
    \/ Of(c).leaves \/ Delivering(c) \/ Harmless(c, has, stored)
    \/ \E m, n \in DOMAIN Of(c).steps : Refetching(c, m, n, has, stored)
    \/ \E k \in DOMAIN Of(c).steps : Adding(c, k, has, stored)

Clicking(runs, has, stored) ==
    \E c \in runs : runs = {c} /\ Of(c).start = "click" /\ Completing(c, has, stored)

\* The slot and its kind of data are among those of which the rules speak.
Ruled ==
    /\ ScreensTyped /\ SceneWhole /\ SceneFilled
    /\ Watch \notin LeftStale /\ scene.slot # Nil

SavedOrComing ==
    Unhurried /\ Watch \notin LeftStale /\ scene.slot # Nil =>
        Loading(running, shown, ver[route]) \/ Clicking(running, shown, ver[route])

LEMMA SceneFilledInit == ScreensInit => SceneFilled
<1> SUFFICES ASSUME ScreensInit PROVE SceneFilled
  OBVIOUS
<1>1. PICK w \in Watches : scene = SceneOf(w)
  BY DEF ScreensInit
<1>2. /\ scene.page = w.page /\ scene.slot = w.slot
      /\ scene.kinds = KindsOf(Pages[w.page], w.slot)
  BY <1>1 DEF SceneOf
<1>3. DOMAIN Tasks =
          {t \in DOMAIN Pages[w.page] :
              \/ w.slot \in SlotsOf(Pages[w.page][t]) \/ Pages[w.page][t].flag = "loading"
              \/ \E s \in StepsOf(Pages[w.page][t]) : Reaches(s, KindsOf(Pages[w.page], w.slot))
              \/ \E c \in Pages[w.page][t].calls : w.slot \in SlotsOf(Pages[w.page][c])
              \/ t \in (UNION {DOMAIN x.offers :
                         x \in {x \in Views[w.page] : x.form = w.form /\ w.form # Nil}})
                       \cap DOMAIN Pages[w.page]
              \/ w.form \in Pages[w.page][t].clears \cup Pages[w.page][t].fills
                            \cup Pages[w.page][t].shuts}
  BY <1>1 DEF SceneOf, Tasks
<1>4. w.slot \in WatchedOn(w.page)
  <2>1. PICK p \in DOMAIN Pages : w \in WatchesOf(p)
    BY DEF Watches
  <2>2. CASE \E s \in SlotsOn(p) : w = [page |-> p, slot |-> s, form |-> Nil]
    BY <2>2 DEF WatchedOn
  <2>3. CASE \E part \in {x \in Views[p] : x.form # Nil /\ DOMAIN x.offers # {"type"}} :
                w = [page |-> p, slot |-> part.fills, form |-> part.form]
    BY <2>3 DEF WatchedOn
  <2>4. QED
    BY <2>1, <2>2, <2>3 DEF WatchesOf
<1>5. QED
  BY <1>2, <1>3, <1>4 DEF SceneFilled

LEMMA SceneFilledNext ==
    ASSUME StepsInOrder, ScreensTyped, SceneFilled, [ScreensNext]_screenVars
    PROVE  SceneFilled'
BY StepShapes DEF SceneFilled, Tasks

\* Nobody has hurried before, either.
LEMMA UnhurriedBefore ==
    ASSUME StepsInOrder, ScreensTyped, [ScreensNext]_screenVars, Unhurried'
    PROVE  /\ Unhurried /\ route' = route
           /\ ~(\E k \in Records : Move(k)) /\ ~\E r \in running : Error(r)
<1>1. used.errors = 0 /\ ~\E r \in running : Error(r)
  BY ErrorsGrow DEF Unhurried
<1>2. ASSUME NEW k \in Records, Move(k) PROVE FALSE
  BY <1>2 DEF Move, Unhurried, ScreensTyped, DataTyped
<1>3. route' = route
  BY <1>2, RouteStays
<1>4. used.moves = 0
  <2>1. CASE UNCHANGED used
    BY <2>1 DEF Unhurried
  <2>2. ASSUME NEW t \in DOMAIN Tasks, Press(t) \/ Change(t) PROVE used.moves = 0
    BY <2>2 DEF Press, Change, Unhurried, ScreensTyped, DataTyped
  <2>3. QED
    BY <1>1, <1>2, <2>1, <2>2 DEF ScreensNext, screenVars, Rest, OpenForm, TypeIn, CloseForm,
                                  Reply, Resume, Fail
<1>5. rush \subseteq {"lost"}
  BY RushGrows DEF Unhurried
<1>6. QED
  BY <1>1, <1>2, <1>3, <1>4, <1>5 DEF Unhurried

LEMMA AllAreLiveNext ==
    ASSUME StepsInOrder, ScreensTyped, AllAreLive, [ScreensNext]_screenVars
    PROVE  AllAreLive'
<1> SUFFICES ASSUME used'.moves = 0 PROVE \A r \in running' : r.live
  BY DEF AllAreLive
<1>1. ASSUME NEW k \in Records, Move(k) PROVE FALSE
  BY <1>1 DEF Move, ScreensTyped, DataTyped
<1>2. used.moves = 0
  <2>1. CASE UNCHANGED used
    BY <2>1
  <2>2. ASSUME NEW t \in DOMAIN Tasks, Press(t) \/ Change(t) PROVE used.moves = 0
    BY <2>2 DEF Press, Change, ScreensTyped, DataTyped
  <2>3. ASSUME NEW r \in running, Error(r) PROVE used.moves = 0
    BY <2>3 DEF Error, ScreensTyped, DataTyped
  <2>4. QED
    BY <1>1, <2>1, <2>2, <2>3 DEF ScreensNext, screenVars, Rest, OpenForm, TypeIn, CloseForm,
                                  Reply, Resume, Fail
<1>3. \A r \in running : r.live
  BY <1>2 DEF AllAreLive
<1>4. CASE UNCHANGED screenVars \/ Beside
  BY <1>3, <1>4, BesideKeeps DEF screenVars
<1>5. ASSUME NEW t \in DOMAIN Tasks, Press(t) PROVE \A r \in running' : r.live
  <2>1. Start(t, route, used.clicks).live
    BY DEF Start
  <2>2. QED
    BY <1>3, <1>5, <2>1, PressRuns
<1>6. ASSUME NEW r \in running, NEW q, GoesOn(r, q) PROVE \A x \in running' : x.live
  BY <1>3, <1>6 DEF GoesOn
<1>7. ASSUME NEW r \in running, NEW begun, Ends(r, begun) PROVE \A x \in running' : x.live
  <2>1. \A t \in begun : Begun(t, r).live
    BY <1>3, <1>7, BegunTyped DEF Ends
  <2>2. QED
    BY <1>3, <1>7, <2>1 DEF Ends
<1>8. QED
  BY <1>1, <1>4, <1>5, <1>6, <1>7, StepShapes

LEMMA CurrentIsReal ==
    ASSUME ScreensTyped, NEW v, NEW stored, Current(v, stored)
    PROVE  v # Empty /\ v # Unset
<1>1. v.of \in Records
  BY DEF Current, ScreensTyped, DataTyped
<1>2. QED
  BY <1>1, NobodyIsNoRecord, NilIsNobody

\* What the rules say of the task of a run.
LEMMA RunRules ==
    ASSUME ChangesAreFetched, Ruled, NEW r \in running
    PROVE  /\ r \in RunType /\ r.step \in DOMAIN Of(r).steps
           /\ r.task \in DOMAIN Pages[scene.page] /\ Of(r) = Pages[scene.page][r.task]
           /\ Of(r).start = "click" => Completes(scene.page, r.task, scene.slot)
           /\ Of(r).start \in {"route", "called"} => OnlyLoads(scene.page, r.task, scene.slot)
           /\ Reaches(StepOf(r), scene.kinds)
              <=> r.step \in Changes(scene.page, r.task, scene.slot)
           /\ scene.slot \in StepOf(r).shows /\ StepOf(r).adds
              <=> r.step \in Adds(scene.page, r.task, scene.slot)
<1>1. /\ r \in RunType /\ r.step \in DOMAIN Of(r).steps
      /\ r.task \in DOMAIN Pages[scene.page] /\ Of(r) = Pages[scene.page][r.task]
      /\ scene.page \in DOMAIN Pages
  BY DEF Ruled, ScreensTyped, SceneOK, RunsTyped, RunType, Of
<1>2. scene.kinds = KindsOf(Pages[scene.page], scene.slot)
  BY DEF Ruled, SceneFilled
<1>3. Reaches(StepOf(r), scene.kinds) <=> r.step \in Changes(scene.page, r.task, scene.slot)
  BY <1>1, <1>2 DEF Changes, StepOf
<1>4. scene.slot \in StepOf(r).shows /\ StepOf(r).adds
      <=> r.step \in Adds(scene.page, r.task, scene.slot)
  BY <1>1 DEF Adds, StepOf
<1>5. /\ Of(r).start = "click" => Completes(scene.page, r.task, scene.slot)
      /\ Of(r).start \in {"route", "called"} => OnlyLoads(scene.page, r.task, scene.slot)
  BY <1>1 DEF ChangesAreFetched, Ruled, SceneFilled, Watch
<1>6. QED
  BY <1>1, <1>3, <1>4, <1>5

\* A step that does not put its answer in front shows it, or leaves the slot as it is.
LEMMA TakesIn ==
    ASSUME NEW r, ~(scene.slot \in StepOf(r).shows /\ StepOf(r).adds)
    PROVE  /\ Shown(r) = shown \/ (r.got # Unset /\ Shown(r) = r.got)
           /\ scene.slot \in StepOf(r).shows /\ r.got # Unset => Shown(r) = r.got
BY DEF Shown

LEMMA SoundHas ==
    ASSUME ScreensTyped, NEW r \in running, Sound(r), r.at = "answered",
           Yields(Of(r), scene.slot), scene.slot \in StepOf(r).shows
    PROVE  r.got # Unset
<1>1. r.step \in DOMAIN Of(r).steps /\ r.step \in Nat
  BY DEF ScreensTyped, RunsTyped, RunType
<1>2. PICK m \in 1 .. r.step : scene.slot \in DOMAIN Of(r).steps[m].gets
  BY <1>1 DEF Yields, StepOf
<1>3. QED
  BY <1>1, <1>2 DEF Sound

-------------------------------------------------------------------------------
\* An answer of the back end.
LEMMA ReplyBrings ==
    ASSUME StepsInOrder, ChangesAreFetched, Ruled, NEW r \in running, Reply(r), r.key = route
    PROVE  \E q :
              /\ GoesOn(r, q) /\ Answered(r, q)
              /\ ver[route] \in Nat
              /\ ver'[route] = IF r.step \in Changes(scene.page, r.task, scene.slot)
                               THEN ver[route] + 1 ELSE ver[route]
              /\ scene.slot \in DOMAIN StepOf(r).gets => Current(q.got, ver'[route])
              /\ scene.slot \notin DOMAIN StepOf(r).gets => q.got = r.got
<1>1. PICK q : GoesOn(r, q) /\ Answered(r, q)
  BY ReplyGoesOn DEF Ruled
<1>2. ver \in [Records -> Nat] /\ route \in Records
  BY DEF Ruled, ScreensTyped, DataTyped
<1>3. ver'[route] = IF r.step \in Changes(scene.page, r.task, scene.slot)
                    THEN ver[route] + 1 ELSE ver[route]
  <2>1. ver' = [ver EXCEPT ![r.key] = @ + (IF Reaches(StepOf(r), scene.kinds) THEN 1 ELSE 0)]
    BY DEF Reply
  <2>2. ver'[route] = ver[route] + (IF Reaches(StepOf(r), scene.kinds) THEN 1 ELSE 0)
    BY <1>2, <2>1
  <2>3. Reaches(StepOf(r), scene.kinds) <=> r.step \in Changes(scene.page, r.task, scene.slot)
    BY RunRules
  <2>4. CASE Reaches(StepOf(r), scene.kinds)
    BY <2>2, <2>3, <2>4
  <2>5. CASE ~Reaches(StepOf(r), scene.kinds)
    BY <1>2, <2>2, <2>3, <2>5
  <2>6. QED
    BY <2>4, <2>5
<1>4. QED
  BY <1>1, <1>2, <1>3 DEF Answered, Current

LEMMA LoadReplies ==
    ASSUME StepsInOrder, ChangesAreFetched, Ruled, Loading(running, shown, ver[route]),
           NEW r \in running, Reply(r), r.key = route
    PROVE  Loading(running', shown', ver'[route])
<1>1. PICK q :
          /\ GoesOn(r, q) /\ Answered(r, q)
          /\ ver'[route] = IF r.step \in Changes(scene.page, r.task, scene.slot)
                           THEN ver[route] + 1 ELSE ver[route]
          /\ scene.slot \in DOMAIN StepOf(r).gets => Current(q.got, ver'[route])
          /\ scene.slot \notin DOMAIN StepOf(r).gets => q.got = r.got
  BY ReplyBrings
<1>2. /\ running' = (running \ {r}) \cup {q} /\ Of(q) = Of(r) /\ q.step = r.step
      /\ shown' = shown
  BY <1>1 DEF GoesOn, Answered, Of, Reply
<1>3. ver'[route] = ver[route]
  <2>1. Changes(scene.page, r.task, scene.slot) = {}
    BY RunRules DEF Loading, OnlyLoads
  <2>2. QED
    BY <1>1, <2>1
<1>4. HasCurrent(q, ver[route])
  BY <1>1, <1>3 DEF Loading, HasCurrent
<1>5. (Coming(r) => Coming(q)) /\ (Pending(r) => Pending(q))
  BY <1>2 DEF Coming, Pending
<1>6. QED
  BY <1>2, <1>3, <1>4, <1>5 DEF Loading

LEMMA ClickReplies ==
    ASSUME StepsInOrder, ChangesAreFetched, Ruled, NEW r \in running, Reply(r), r.key = route,
           running = {r}, Of(r).start = "click", Completing(r, shown, ver[route])
    PROVE  Clicking(running', shown', ver'[route])
<1>1. PICK q :
          /\ GoesOn(r, q) /\ Answered(r, q)
          /\ ver[route] \in Nat
          /\ ver'[route] = IF r.step \in Changes(scene.page, r.task, scene.slot)
                           THEN ver[route] + 1 ELSE ver[route]
          /\ scene.slot \in DOMAIN StepOf(r).gets => Current(q.got, ver'[route])
          /\ scene.slot \notin DOMAIN StepOf(r).gets => q.got = r.got
  BY ReplyBrings
<1>2. /\ running' = {q} /\ Of(q) = Of(r) /\ q.step = r.step /\ q.task = r.task
      /\ q.at = "answered" /\ r.at = "sent" /\ shown' = shown /\ r.step \in Nat
  BY <1>1, RunRules DEF GoesOn, Answered, Of, Reply, RunType
<1>3. shown.version \in Nat
  BY DEF Ruled, ScreensTyped, DataTyped, Versions
<1> SUFFICES Completing(q, shown, ver'[route])
  BY <1>2 DEF Clicking
<1>4. CASE Of(r).leaves \/ Delivering(r)
  BY <1>2, <1>4 DEF Completing, Delivering
<1>5. CASE Harmless(r, shown, ver[route])
  <2>1. ver'[route] = ver[route]
    BY <1>1, <1>5 DEF Harmless
  <2>2. Harmless(q, shown, ver'[route])
    BY <1>1, <1>2, <1>5, <2>1 DEF Harmless, HasCurrent
  <2>3. QED
    BY <2>2 DEF Completing
<1>6. ASSUME NEW m \in DOMAIN Of(r).steps, NEW n \in DOMAIN Of(r).steps,
             Refetching(r, m, n, shown, ver[route])
      PROVE  Completing(q, shown, ver'[route])
  <2>1. /\ RefetchedAt(scene.page, r.task, scene.slot, m, n)
        /\ m \in Nat /\ n \in Nat /\ m <= n
        /\ \A k \in Changes(scene.page, r.task, scene.slot) : k <= m
    <3>1. DOMAIN Of(r).steps \subseteq Nat
      BY RunRules DEF StepsInOrder, Ruled, ScreensTyped, SceneOK
    <3>2. QED
      BY <1>6, <3>1 DEF Refetching, RefetchedAt
  <2>2. CASE r.step > m
    <3>1. ver'[route] = ver[route]
      BY <1>1, <1>2, <2>1, <2>2
    <3>2. Current(q.got, ver'[route])
      BY <1>1, <1>6, <2>2, <3>1 DEF Refetching, Past
    <3>3. Refetching(q, m, n, shown, ver'[route])
      BY <1>2, <1>6, <2>1, <3>1, <3>2 DEF Refetching
    <3>4. QED
      BY <1>2, <3>3 DEF Completing
  <2>3. CASE ~(r.step > m)
    <3>1. ~(q.step > n)
      BY <1>2, <2>1, <2>3
    <3>2. Past(q, m) => Current(q.got, ver'[route])
      <4>1. SUFFICES ASSUME q.step = m PROVE Current(q.got, ver'[route])
        BY <1>2, <2>1, <2>3 DEF Past
      <4>2. scene.slot \in DOMAIN StepOf(r).gets
        BY <1>2, <2>1, <4>1, RunRules DEF RefetchedAt, StepOf
      <4>3. QED
        BY <1>1, <4>2
    <3>3. Refetching(q, m, n, shown, ver'[route])
      BY <1>2, <2>1, <3>1, <3>2 DEF Refetching
    <3>4. QED
      BY <1>2, <3>3 DEF Completing
  <2>4. QED
    BY <2>2, <2>3
<1>7. ASSUME NEW k \in DOMAIN Of(r).steps, Adding(r, k, shown, ver[route])
      PROVE  Completing(q, shown, ver'[route])
  <2>1. Changes(scene.page, r.task, scene.slot) = {k} /\ Current(shown, ver[route])
    BY <1>2, <1>7 DEF Adding, AddedAt
  <2>2. CASE r.step = k
    <3>1. ver'[route] = ver[route] + 1
      BY <1>1, <2>1, <2>2
    <3>2. Current(OneMore(shown), ver'[route])
      BY <1>1, <1>3, <2>1, <3>1 DEF Current, OneMore
    <3>3. Adding(q, k, shown, ver'[route])
      BY <1>2, <1>7, <2>2, <3>2 DEF Adding
    <3>4. QED
      BY <1>2, <3>3 DEF Completing
  <2>3. CASE r.step # k
    <3>1. ver'[route] = ver[route]
      BY <1>1, <2>1, <2>3
    <3>2. Adding(q, k, shown, ver'[route])
      BY <1>2, <1>7, <2>1, <2>3, <3>1 DEF Adding
    <3>3. QED
      BY <1>2, <3>2 DEF Completing
  <2>4. QED
    BY <2>2, <2>3
<1>8. QED
  BY <1>4, <1>5, <1>6, <1>7 DEF Completing

-------------------------------------------------------------------------------
\* The page takes an answer in, and the task goes on or ends.
LEMMA ResumeOn ==
    ASSUME StepsInOrder, ScreensTyped, NEW r \in running, Resume(r), r.live,
           r.step # Len(Of(r).steps)
    PROVE  \E q :
              /\ GoesOn(r, q) /\ running' = (running \ {r}) \cup {q}
              /\ Of(q) = Of(r) /\ q.step = r.step + 1 /\ q.got = r.got /\ r.at = "answered"
              /\ q.at = "answered" => Of(r).steps[q.step].gets = NoSlots
              /\ shown' = Shown(r) /\ ver' = ver
<1>1. PICK q : GoesOn(r, q) /\ NextStep(r, q)
  BY ResumeGoesOn
<1>2. shown' = Shown(r) /\ ver' = ver
  BY DEF Resume, Cleared, Clears
<1>3. QED
  BY <1>1, <1>2 DEF GoesOn, NextStep, Of

LEMMA ResumeOver ==
    ASSUME NEW r \in running, Resume(r), r.live, r.step = Len(Of(r).steps)
    PROVE  LET called == Of(r).calls \cap DOMAIN Tasks
           IN  /\ Finish(r, called) /\ shown' = Cleared(called, Shown(r)) /\ ver' = ver
               /\ r.at = "answered" /\ (Of(r).leaves => "gone" \in rush')
BY DEF Resume

LEMMA LoadGoesOn ==
    ASSUME StepsInOrder, ChangesAreFetched, Ruled, Loading(running, shown, ver[route]),
           NEW r \in running, Resume(r), r.live, Sound(r), r.step # Len(Of(r).steps)
    PROVE  Loading(running', shown', ver'[route])
<1>1. PICK q :
          /\ GoesOn(r, q) /\ running' = (running \ {r}) \cup {q}
          /\ Of(q) = Of(r) /\ q.step = r.step + 1 /\ q.got = r.got /\ r.at = "answered"
          /\ q.at = "answered" => Of(r).steps[q.step].gets = NoSlots
          /\ shown' = Shown(r) /\ ver' = ver
  BY ResumeOn DEF Ruled
<1>2. HasCurrent(r, ver[route]) /\ Of(r).start \in {"route", "called"}
  BY DEF Loading
<1>3. ~(scene.slot \in StepOf(r).shows /\ StepOf(r).adds)
  BY <1>2, RunRules DEF OnlyLoads
<1>4. /\ shown' = shown \/ (r.got # Unset /\ shown' = r.got)
      /\ scene.slot \in StepOf(r).shows /\ r.got # Unset => shown' = r.got
  BY <1>1, <1>3, TakesIn
<1>5. shown' = shown \/ Current(shown', ver[route])
  BY <1>2, <1>4 DEF HasCurrent
<1>6. Yields(Of(r), scene.slot) /\ scene.slot \in StepOf(r).shows
      => Current(shown', ver[route])
  BY <1>1, <1>2, <1>4, SoundHas DEF HasCurrent, Ruled
<1>7. Pending(r) => Pending(q) \/ Current(shown', ver[route])
  <2> SUFFICES ASSUME Pending(r), Yields(Of(r), scene.slot), scene.slot \notin StepOf(r).shows
               PROVE  \E n \in q.step .. Len(Of(r).steps) : scene.slot \in Of(r).steps[n].shows
    BY <1>1, <1>6 DEF Pending
  <2>1. PICK n \in r.step .. Len(Of(r).steps) : scene.slot \in Of(r).steps[n].shows
    BY DEF Pending
  <2>2. r.step \in Nat /\ Len(Of(r).steps) \in Nat
    BY RunRules DEF RunType, StepsInOrder, Ruled, ScreensTyped, SceneOK
  <2>3. n # r.step
    BY <2>1 DEF StepOf
  <2>4. n \in q.step .. Len(Of(r).steps)
    BY <1>1, <2>2, <2>3
  <2>5. QED
    BY <2>1, <2>4
<1>8. Coming(r) => Coming(q) \/ Current(shown', ver[route])
  BY <1>1, <1>7 DEF Coming
<1>9. HasCurrent(q, ver[route])
  BY <1>1, <1>2 DEF HasCurrent
<1>10. Current(shown', ver[route]) \/ \E x \in running' : Coming(x)
  BY <1>1, <1>5, <1>8 DEF Loading
<1>11. ASSUME IsCached(scene.page, scene.slot), shown' = Empty
       PROVE  \A x \in running' : Pending(x)
  <2>1. ~Current(shown', ver[route])
    BY <1>11, CurrentIsReal DEF Ruled
  <2>2. QED
    BY <1>1, <1>5, <1>7, <1>11, <2>1 DEF Loading
<1>12. QED
  BY <1>1, <1>2, <1>9, <1>10, <1>11 DEF Loading

\* A task that has just begun.
LEMMA BegunLoads ==
    ASSUME StepsInOrder, LoadsAreCalled, Ruled, NEW r \in running, NEW begun, Ends(r, begun),
           NEW t \in begun, NEW stored
    PROVE  /\ Begun(t, r) \in running' /\ Of(Begun(t, r)) = Tasks[t]
           /\ t \in DOMAIN Pages[scene.page] /\ Tasks[t] = Pages[scene.page][t]
           /\ Tasks[t].start \in {"route", "called"}
           /\ HasCurrent(Begun(t, r), stored) /\ Pending(Begun(t, r))
<1>1. /\ t \in DOMAIN Tasks /\ t \in Of(r).calls /\ Begun(t, r) \in running'
      /\ t \in DOMAIN Pages[scene.page] /\ Tasks[t] = Pages[scene.page][t]
      /\ r.task \in DOMAIN Pages[scene.page] /\ Of(r) = Pages[scene.page][r.task]
      /\ scene.page \in DOMAIN Pages
  BY DEF Ends, Ruled, ScreensTyped, SceneOK, RunsTyped, RunType, Of
<1>2. Tasks[t].start \in {"route", "called"}
  BY <1>1 DEF LoadsAreCalled, CalledIn
<1>3. Begun(t, r).task = t /\ Begun(t, r).step = 1 /\ Begun(t, r).got = Unset
  BY <1>1, BegunTyped DEF Ruled
<1>4. Pending(Begun(t, r))
  BY <1>1, <1>3, FreshPending DEF Ruled, ScreensTyped
<1>5. QED
  BY <1>1, <1>2, <1>3, <1>4 DEF Of, HasCurrent

\* A load that is under way when another task ends goes on, or begins anew.
LEMMA ComingStays ==
    ASSUME StepsInOrder, LoadsAreCalled, Ruled, NEW r \in running, NEW begun, Ends(r, begun),
           NEW w \in running, w # r, Coming(w)
    PROVE  \E q \in running' : Coming(q)
<1>1. CASE w \in running'
  BY <1>1
<1>2. CASE w.task \in begun
  <2>1. Of(Begun(w.task, r)) = Of(w) /\ Begun(w.task, r) \in running' /\ Pending(Begun(w.task, r))
    BY <1>2, BegunLoads DEF Of
  <2>2. Coming(Begun(w.task, r))
    BY <2>1 DEF Coming
  <2>3. QED
    BY <2>1, <2>2
<1>3. QED
  BY <1>1, <1>2 DEF Ends

\* The tasks that a run calls at its end, those aside that it joins.
LEMMA BegunOrJoined ==
    ASSUME Ruled, NEW r \in running, Finish(r, Of(r).calls \cap DOMAIN Tasks)
    PROVE  \E begun :
              /\ Ends(r, begun)
              /\ \A t \in Of(r).calls \cap DOMAIN Tasks : t \in begun \/ Joined(t)
<1> DEFINE called == Of(r).calls \cap DOMAIN Tasks
           begun  == {t \in called : ~Joined(t)}
           over   == UNION {Runs(t) : t \in {x \in begun : Tasks[x].again # "beside"}}
<1>1. /\ running' = (running \ ({r} \cup over)) \cup {Begun(t, r) : t \in begun}
      /\ flags' = (IF WillLower(r) THEN flags \ {Of(r).flag} ELSE flags) \cup Flags(begun)
  BY DEF Finish, Begun
<1>2. \A q \in over : q.task \in begun /\ Tasks[q.task].again # "beside"
  BY DEF Runs
<1>3. begun \subseteq called /\ \A t \in called : t \in begun \/ Joined(t)
  OBVIOUS
<1> HIDE DEF begun, over
<1>4. Ends(r, begun)
  BY <1>1, <1>2, <1>3 DEF Ends
<1>5. QED
  BY <1>3, <1>4

\* When a task has ended and others begin, those that empty the slot will show it.
LEMMA ClearingComes ==
    ASSUME StepsInOrder, LoadsAreCalled, ChangesAreFetched, Ruled, NEW r \in running,
           NEW begun, Ends(r, begun),
           \A t \in Of(r).calls \cap DOMAIN Tasks : t \in begun \/ Joined(t),
           Clears(Of(r).calls \cap DOMAIN Tasks, scene.slot)
    PROVE  /\ ~IsCached(scene.page, scene.slot)
           /\ \E q \in running' : Coming(q)
<1>1. PICK t \in Of(r).calls \cap DOMAIN Tasks : scene.slot \in Tasks[t].clears
  BY DEF Clears
<1>2. /\ t \in DOMAIN Pages[scene.page] /\ Tasks[t] = Pages[scene.page][t]
      /\ Tasks[t].start \in {"route", "called"} /\ scene.page \in DOMAIN Pages
  <2>1. /\ t \in DOMAIN Pages[scene.page] /\ Tasks[t] = Pages[scene.page][t]
        /\ r.task \in DOMAIN Pages[scene.page] /\ Of(r) = Pages[scene.page][r.task]
        /\ scene.page \in DOMAIN Pages
    BY DEF Ruled, ScreensTyped, SceneOK, RunsTyped, RunType, Of
  <2>2. QED
    BY <2>1 DEF LoadsAreCalled, CalledIn
<1>3. OnlyLoads(scene.page, t, scene.slot)
  BY <1>2 DEF ChangesAreFetched, Ruled, SceneFilled, Watch
<1>4. Yields(Tasks[t], scene.slot) /\ ~IsCached(scene.page, scene.slot)
  BY <1>1, <1>2, <1>3 DEF OnlyLoads
<1>5. scene.slot \in SlotsOf(Tasks[t])
  BY <1>4 DEF Yields, SlotsOf, StepsOf
<1>6. t \in begun
  <2>1. Tasks[t].again # "cached"
    BY <1>2, <1>4, <1>5 DEF IsCached
  <2>2. QED
    BY <2>1 DEF Joined
<1>7. Coming(Begun(t, r)) /\ Begun(t, r) \in running'
  BY <1>4, <1>6, BegunLoads DEF Coming
<1>8. QED
  BY <1>4, <1>7

LEMMA LoadEnds ==
    ASSUME StepsInOrder, LoadsAreCalled, ChangesAreFetched, Ruled,
           Loading(running, shown, ver[route]),
           NEW r \in running, Resume(r), r.live, Sound(r), r.step = Len(Of(r).steps)
    PROVE  Loading(running', shown', ver'[route])
<1> DEFINE called == Of(r).calls \cap DOMAIN Tasks
           Comes  == Current(shown', ver[route]) \/ \E x \in running' : Coming(x)
           Waits  == IsCached(scene.page, scene.slot) /\ shown' = Empty
                     => \A x \in running' : Pending(x)
<1>1. /\ Finish(r, called) /\ shown' = Cleared(called, Shown(r)) /\ ver' = ver
      /\ r.at = "answered"
  BY ResumeOver
<1>2. PICK begun : Ends(r, begun) /\ \A t \in called : t \in begun \/ Joined(t)
  BY <1>1, BegunOrJoined
<1>3. /\ HasCurrent(r, ver[route]) /\ Of(r).start \in {"route", "called"}
      /\ ~(scene.slot \in StepOf(r).shows /\ StepOf(r).adds)
  BY RunRules DEF Loading, OnlyLoads
<1>4. Shown(r) = shown \/ Current(Shown(r), ver[route])
  BY <1>3, TakesIn DEF HasCurrent
<1>5. Yields(Of(r), scene.slot) /\ Pending(r) => Current(Shown(r), ver[route])
  <2> SUFFICES ASSUME Yields(Of(r), scene.slot), Pending(r)
               PROVE  Current(Shown(r), ver[route])
    OBVIOUS
  <2>1. r.step \in Nat
    BY RunRules DEF RunType
  <2>2. scene.slot \in StepOf(r).shows
    BY <2>1 DEF Pending, StepOf
  <2>3. r.got # Unset
    BY <1>1, <2>2, SoundHas DEF Ruled
  <2>4. QED
    BY <1>3, <2>2, <2>3, TakesIn DEF HasCurrent
<1>6. ASSUME NEW q \in running'
      PROVE  Of(q).start \in {"route", "called"} /\ HasCurrent(q, ver[route])
  <2>1. CASE q \in running
    BY <2>1 DEF Loading
  <2>2. CASE \E t \in begun : q = Begun(t, r)
    BY <1>2, <2>2, BegunLoads
  <2>3. QED
    BY <1>2, <2>1, <2>2 DEF Ends
<1>7. CASE Clears(called, scene.slot)
  <2>1. Comes /\ Waits
    BY <1>2, <1>7, ClearingComes
  <2>2. QED
    BY <1>1, <1>6, <2>1 DEF Loading
<1>8. CASE ~Clears(called, scene.slot)
  <2>1. shown' = Shown(r)
    BY <1>1, <1>8 DEF Cleared
  <2>2. Comes
    <3>1. CASE Current(shown, ver[route])
      BY <1>4, <2>1, <3>1
    <3>2. ASSUME NEW w \in running, Coming(w), w # r PROVE Comes
      BY <1>2, <3>2, ComingStays
    <3>3. ASSUME NEW u \in called, Yields(Tasks[u], scene.slot) PROVE Comes
      <4>1. CASE u \in begun
        <5>1. Coming(Begun(u, r)) /\ Begun(u, r) \in running'
          BY <1>2, <3>3, <4>1, BegunLoads DEF Coming
        <5>2. QED
          BY <5>1
      <4>2. CASE Joined(u)
        <5>1. IsCached(scene.page, scene.slot) /\ shown = Empty
          <6>1. u \in DOMAIN Pages[scene.page] /\ Tasks[u] = Pages[scene.page][u]
            BY DEF Ruled, ScreensTyped, SceneOK
          <6>2. scene.slot \in SlotsOf(Tasks[u])
            BY <3>3 DEF Yields, SlotsOf, StepsOf
          <6>3. QED
            BY <4>2, <6>1, <6>2 DEF Joined, IsCached
        <5>2. PICK x \in running : x.task = u
          BY <4>2 DEF Joined, Runs
        <5>3. Pending(x) /\ Yields(Of(x), scene.slot)
          BY <3>3, <5>1, <5>2 DEF Loading, Of
        <5>4. QED
          BY <1>5, <2>1, <3>2, <5>3 DEF Coming
      <4>3. QED
        BY <1>2, <4>1, <4>2
    <3>4. ASSUME Coming(r) PROVE Comes
      BY <1>5, <2>1, <3>3, <3>4 DEF Coming
    <3>5. QED
      BY <3>1, <3>2, <3>4 DEF Loading
  <2>3. Waits
    <3> SUFFICES ASSUME IsCached(scene.page, scene.slot), shown' = Empty, NEW q \in running'
                 PROVE  Pending(q)
      OBVIOUS
    <3>1. shown = Empty
      BY <1>4, <2>1, CurrentIsReal DEF Ruled
    <3>2. CASE q \in running
      BY <3>1, <3>2 DEF Loading
    <3>3. CASE \E t \in begun : q = Begun(t, r)
      BY <1>2, <3>3, BegunLoads
    <3>4. QED
      BY <1>2, <3>2, <3>3 DEF Ends
  <2>4. QED
    BY <1>1, <1>6, <2>2, <2>3 DEF Loading
<1>9. QED
  BY <1>7, <1>8

LEMMA ClickGoesOn ==
    ASSUME StepsInOrder, ChangesAreFetched, Ruled, NEW r \in running, r.key = route,
           running = {r}, Of(r).start = "click", Completing(r, shown, ver[route]),
           Resume(r), r.live, r.step # Len(Of(r).steps)
    PROVE  Clicking(running', shown', ver'[route])
<1>1. PICK q :
          /\ GoesOn(r, q) /\ running' = (running \ {r}) \cup {q}
          /\ Of(q) = Of(r) /\ q.step = r.step + 1 /\ q.got = r.got /\ r.at = "answered"
          /\ q.at = "answered" => Of(r).steps[q.step].gets = NoSlots
          /\ shown' = Shown(r) /\ ver' = ver
  BY ResumeOn DEF Ruled
<1>2. /\ running' = {q} /\ q.task = r.task /\ r.step \in Nat /\ r.step \in DOMAIN Of(r).steps
      /\ DOMAIN Of(r).steps \subseteq Nat
  BY <1>1, RunRules DEF GoesOn, RunType, StepsInOrder, Ruled, ScreensTyped, SceneOK
<1> SUFFICES Completing(q, shown', ver[route])
  BY <1>1, <1>2 DEF Clicking
<1>3. CASE Of(r).leaves \/ Delivering(r)
  BY <1>1, <1>3 DEF Completing, Delivering
<1>4. CASE Harmless(r, shown, ver[route])
  <2>1. ~(scene.slot \in StepOf(r).shows /\ StepOf(r).adds)
    BY <1>4, RunRules DEF Harmless
  <2>2. Current(shown', ver[route])
    BY <1>1, <1>4, <2>1, TakesIn DEF Harmless, HasCurrent
  <2>3. Harmless(q, shown', ver[route])
    BY <1>1, <1>2, <1>4, <2>2 DEF Harmless, HasCurrent
  <2>4. QED
    BY <2>3 DEF Completing
<1>5. ASSUME NEW m \in DOMAIN Of(r).steps, NEW n \in DOMAIN Of(r).steps,
             Refetching(r, m, n, shown, ver[route])
      PROVE  Completing(q, shown', ver[route])
  <2>1. /\ RefetchedAt(scene.page, r.task, scene.slot, m, n)
        /\ m \in Nat /\ n \in Nat /\ m <= n
        /\ scene.slot \in DOMAIN Of(r).steps[m].gets /\ scene.slot \in Of(r).steps[n].shows
        /\ Adds(scene.page, r.task, scene.slot) = {}
    BY <1>2, <1>5, RunRules DEF Refetching, RefetchedAt
  <2>2. ~(scene.slot \in StepOf(r).shows /\ StepOf(r).adds)
    BY <2>1, RunRules
  <2>3. r.step >= m => Current(r.got, ver[route]) /\ r.got # Unset
    BY <1>1, <1>2, <1>5, <2>1, CurrentIsReal DEF Refetching, Past, Ruled
  <2>4. Past(q, m) => Current(q.got, ver[route])
    <3>1. q.step = m => q.at # "answered"
      BY <1>1, <2>1 DEF NoSlots
    <3>2. Past(q, m) => r.step >= m
      BY <1>1, <1>2, <2>1, <3>1 DEF Past
    <3>3. QED
      BY <1>1, <2>3, <3>2
  <2>5. q.step > n => Current(shown', ver[route])
    <3> SUFFICES ASSUME r.step >= n PROVE Current(shown', ver[route])
      BY <1>1, <1>2, <2>1
    <3>1. Current(r.got, ver[route]) /\ r.got # Unset
      BY <1>2, <2>1, <2>3
    <3>2. CASE r.step = n
      BY <1>1, <2>1, <2>2, <3>1, <3>2, TakesIn DEF StepOf
    <3>3. CASE r.step > n
      BY <1>1, <1>5, <2>2, <3>1, <3>3, TakesIn DEF Refetching
    <3>4. QED
      BY <1>2, <2>1, <3>2, <3>3
  <2>6. Refetching(q, m, n, shown', ver[route])
    BY <1>2, <2>1, <2>4, <2>5 DEF Refetching
  <2>7. QED
    BY <1>1, <2>6 DEF Completing
<1>6. ASSUME NEW k \in DOMAIN Of(r).steps, Adding(r, k, shown, ver[route])
      PROVE  Completing(q, shown', ver[route])
  <2>1. /\ AddedAt(scene.page, r.task, scene.slot, k)
        /\ scene.slot \in DOMAIN Of(r).steps[k].gets
        /\ \A n \in DOMAIN Of(r).steps : scene.slot \in Of(r).steps[n].shows => n = k
        /\ k \in Adds(scene.page, r.task, scene.slot)
    BY <1>6, RunRules DEF Adding, AddedAt
  <2>2. ~(q.step = k /\ q.at = "answered")
    BY <1>1, <2>1 DEF NoSlots
  <2>3. Current(shown', ver[route])
    <3>1. CASE r.step = k
      <4>1. scene.slot \in StepOf(r).shows /\ StepOf(r).adds
        BY <2>1, <3>1, RunRules
      <4>2. Current(OneMore(shown), ver[route])
        BY <1>1, <1>6, <3>1 DEF Adding
      <4>3. shown' = [shown EXCEPT !.of = r.key, !.version = @ + 1] /\ shown \in Versions
        BY <1>1, <4>1 DEF Shown, Ruled, ScreensTyped, DataTyped
      <4>4. shown'.of = route /\ shown'.version = shown.version + 1
        BY <4>3 DEF Versions
      <4>5. QED
        BY <4>2, <4>4 DEF Current, OneMore
    <3>2. CASE r.step # k
      <4>1. shown' = shown
        BY <1>1, <1>2, <2>1, <3>2 DEF Shown, StepOf
      <4>2. QED
        BY <1>6, <3>2, <4>1 DEF Adding
    <3>3. QED
      BY <3>1, <3>2
  <2>4. Adding(q, k, shown', ver[route])
    BY <1>2, <2>1, <2>2, <2>3 DEF Adding
  <2>5. QED
    BY <1>1, <2>4 DEF Completing
<1>7. QED
  BY <1>3, <1>4, <1>5, <1>6 DEF Completing

\* At the end of a click that calls no load of the slot, the slot shows what is stored.
LEMMA ClickShows ==
    ASSUME StepsInOrder, ChangesAreFetched, Ruled, NEW r \in running, r.key = route,
           r.at = "answered", r.step = Len(Of(r).steps), Completing(r, shown, ver[route]),
           ~Of(r).leaves, ~Delivering(r)
    PROVE  Current(Shown(r), ver[route])
<1>1. /\ r.step \in Nat /\ r.step \in DOMAIN Of(r).steps
      /\ DOMAIN Of(r).steps = 1 .. r.step
  BY RunRules DEF RunType, StepsInOrder, Ruled, ScreensTyped, SceneOK
<1>2. CASE Harmless(r, shown, ver[route])
  <2>1. ~(scene.slot \in StepOf(r).shows /\ StepOf(r).adds)
    BY <1>2, RunRules DEF Harmless
  <2>2. QED
    BY <1>2, <2>1, TakesIn DEF Harmless, HasCurrent
<1>3. ASSUME NEW m \in DOMAIN Of(r).steps, NEW n \in DOMAIN Of(r).steps,
             Refetching(r, m, n, shown, ver[route])
      PROVE  Current(Shown(r), ver[route])
  <2>1. /\ scene.slot \in Of(r).steps[n].shows
        /\ Adds(scene.page, r.task, scene.slot) = {}
    BY <1>3, RunRules DEF Refetching, RefetchedAt
  <2>2. ~(scene.slot \in StepOf(r).shows /\ StepOf(r).adds)
    BY <2>1, RunRules
  <2>3. Current(r.got, ver[route]) /\ r.got # Unset
    <3>1. Past(r, m)
      BY <1>1 DEF Past
    <3>2. QED
      BY <1>3, <3>1, CurrentIsReal DEF Refetching, Ruled
  <2>4. CASE r.step = n
    BY <2>1, <2>2, <2>3, <2>4, TakesIn DEF StepOf
  <2>5. CASE r.step > n
    BY <1>3, <2>2, <2>3, <2>5, TakesIn DEF Refetching
  <2>6. QED
    BY <1>1, <2>4, <2>5
<1>4. ASSUME NEW k \in DOMAIN Of(r).steps, Adding(r, k, shown, ver[route])
      PROVE  Current(Shown(r), ver[route])
  <2>1. /\ \A n \in DOMAIN Of(r).steps : scene.slot \in Of(r).steps[n].shows => n = k
        /\ k \in Adds(scene.page, r.task, scene.slot)
    BY <1>4, RunRules DEF Adding, AddedAt
  <2>2. CASE r.step = k
    <3>1. scene.slot \in StepOf(r).shows /\ StepOf(r).adds
      BY <2>1, <2>2, RunRules
    <3>2. Current(OneMore(shown), ver[route])
      BY <1>4, <2>2 DEF Adding
    <3>3. Shown(r) = [shown EXCEPT !.of = r.key, !.version = @ + 1] /\ shown \in Versions
      BY <3>1 DEF Shown, Ruled, ScreensTyped, DataTyped
    <3>4. Shown(r).of = route /\ Shown(r).version = shown.version + 1
      BY <3>3 DEF Versions
    <3>5. QED
      BY <3>2, <3>4 DEF Current, OneMore
  <2>3. CASE r.step # k
    <3>1. Shown(r) = shown
      BY <1>1, <2>1, <2>3 DEF Shown, StepOf
    <3>2. QED
      BY <1>4, <2>3, <3>1 DEF Adding
  <2>4. QED
    BY <2>2, <2>3
<1>5. QED
  BY <1>2, <1>3, <1>4 DEF Completing

LEMMA ClickEnds ==
    ASSUME StepsInOrder, LoadsAreCalled, ChangesAreFetched, Ruled, NEW r \in running,
           r.key = route, running = {r}, Of(r).start = "click",
           Completing(r, shown, ver[route]), Resume(r), r.live, r.step = Len(Of(r).steps),
           "gone" \notin rush'
    PROVE  Loading(running', shown', ver'[route])
<1> DEFINE called == Of(r).calls \cap DOMAIN Tasks
<1>1. /\ Finish(r, called) /\ shown' = Cleared(called, Shown(r)) /\ ver' = ver
      /\ r.at = "answered" /\ ~Of(r).leaves
  BY ResumeOver
<1>2. PICK begun : Ends(r, begun) /\ \A t \in called : t \in begun \/ Joined(t)
  BY <1>1, BegunOrJoined
<1>3. ASSUME NEW q \in running'
      PROVE  /\ Of(q).start \in {"route", "called"} /\ HasCurrent(q, ver[route])
             /\ Pending(q)
  <2>1. PICK t \in begun : q = Begun(t, r)
    BY <1>2 DEF Ends
  <2>2. QED
    BY <1>2, <2>1, BegunLoads
<1> SUFFICES Current(shown', ver[route]) \/ \E x \in running' : Coming(x)
  BY <1>1, <1>3 DEF Loading
<1>4. ASSUME Delivering(r) PROVE \E x \in running' : Coming(x)
  <2>1. PICK u \in Of(r).calls \cap DOMAIN Pages[scene.page] :
            Delivers(scene.page, u, scene.slot)
    BY <1>4 DEF Delivering
  <2>2. \A v \in DOMAIN Pages[scene.page] :
            Yields(Pages[scene.page][v], scene.slot) =>
                scene.slot \in SlotsOf(Pages[scene.page][v])
    BY DEF Yields, SlotsOf, StepsOf
  <2>3. \A v \in DOMAIN Pages[scene.page] :
            Yields(Pages[scene.page][v], scene.slot) =>
                v \in DOMAIN Tasks /\ Tasks[v] = Pages[scene.page][v]
    BY <2>2 DEF SceneWhole, Ruled, ScreensTyped, SceneOK
  <2>4. u \in called /\ Tasks[u] = Pages[scene.page][u]
    <3>1. u \in DOMAIN Tasks
      BY <2>1, <2>2, <2>3 DEF Delivers, SceneFilled, Ruled
    <3>2. QED
      BY <2>1, <3>1 DEF Ruled, ScreensTyped, SceneOK
  <2>5. u \in begun
    <3> SUFFICES ASSUME Joined(u) PROVE FALSE
      BY <1>2, <2>4
    <3>1. Of(r) = Tasks[u]
      BY DEF Joined, Runs, Of
    <3>2. Tasks[u].start \in {"route", "called"}
      BY <2>1, <2>4, RunRules DEF LoadsAreCalled, CalledIn, Ruled, ScreensTyped, SceneOK
    <3>3. QED
      BY <3>1, <3>2
  <2>6. Of(Begun(u, r)) = Tasks[u] /\ Begun(u, r) \in running' /\ Pending(Begun(u, r))
    BY <1>2, <2>5, BegunLoads
  <2>7. Coming(Begun(u, r))
    BY <2>1, <2>3, <2>4, <2>6 DEF Coming, Delivers
  <2>8. QED
    BY <2>6, <2>7
<1>5. CASE ~Delivering(r)
  <2>1. Current(Shown(r), ver[route])
    BY <1>1, <1>5, ClickShows
  <2>2. CASE Clears(called, scene.slot)
    BY <1>2, <2>2, ClearingComes
  <2>3. CASE ~Clears(called, scene.slot)
    BY <1>1, <2>1, <2>3 DEF Cleared
  <2>4. QED
    BY <2>2, <2>3
<1>6. QED
  BY <1>4, <1>5

-------------------------------------------------------------------------------
\* A click on a page at rest begins with a slot that shows what is stored.
LEMMA PressedAtRest ==
    ASSUME StepsInOrder, ChangesAreFetched, Ruled, NEW t \in DOMAIN Tasks, Press(t),
           running = {}, Loading(running, shown, ver[route])
    PROVE  Clicking(running', shown', ver'[route])
<1> DEFINE c == Start(t, route, used.clicks)
<1>1. /\ running' = {c} /\ shown' = shown /\ ver' = ver /\ Tasks[t].start = "click"
      /\ Current(shown, ver[route])
  BY PressRuns DEF Press, Ruled, Loading
<1>2. c.task = t /\ c.step = 1 /\ c.at = "sent" /\ c.got = Unset /\ Of(c) = Tasks[t]
  BY DEF Start, Of
<1> HIDE DEF c
<1>3. /\ t \in DOMAIN Pages[scene.page] /\ Tasks[t] = Pages[scene.page][t]
      /\ scene.page \in DOMAIN Pages /\ DOMAIN Tasks[t].steps \subseteq Nat \ {0}
  BY DEF Ruled, ScreensTyped, SceneOK, StepsInOrder
<1>4. Completes(scene.page, t, scene.slot)
  BY <1>1, <1>3 DEF ChangesAreFetched, Ruled, SceneFilled, Watch
<1>5. ASSUME \/ Tasks[t].leaves
             \/ \E u \in Tasks[t].calls \cap DOMAIN Pages[scene.page] :
                   Delivers(scene.page, u, scene.slot)
      PROVE  Completing(c, shown, ver[route])
  BY <1>2, <1>5 DEF Completing, Delivering
<1>6. ASSUME Changes(scene.page, t, scene.slot) \cup Adds(scene.page, t, scene.slot) = {}
      PROVE  Completing(c, shown, ver[route])
  BY <1>1, <1>2, <1>6 DEF Completing, Harmless, HasCurrent
<1>7. ASSUME NEW m \in DOMAIN Tasks[t].steps, NEW n \in DOMAIN Tasks[t].steps,
             RefetchedAt(scene.page, t, scene.slot, m, n)
      PROVE  Completing(c, shown, ver[route])
  <2>1. ~Past(c, m) /\ ~(c.step > n)
    BY <1>2, <1>3 DEF Past
  <2>2. Refetching(c, m, n, shown, ver[route])
    BY <1>2, <1>7, <2>1 DEF Refetching
  <2>3. QED
    BY <1>2, <2>2 DEF Completing
<1>8. ASSUME NEW k \in DOMAIN Tasks[t].steps, AddedAt(scene.page, t, scene.slot, k)
      PROVE  Completing(c, shown, ver[route])
  <2>1. Adding(c, k, shown, ver[route])
    BY <1>1, <1>2, <1>8 DEF Adding
  <2>2. QED
    BY <1>2, <2>1 DEF Completing
<1>9. Completing(c, shown, ver[route])
  BY <1>3, <1>4, <1>5, <1>6, <1>7, <1>8 DEF Completes
<1>10. QED
  BY <1>1, <1>2, <1>9 DEF Clicking

\* What a click changes on the page alone it puts in front of what is stored nowhere.
LEMMA ChangeAdds ==
    ASSUME StepsInOrder, ChangesAreFetched, Ruled, NEW t \in DOMAIN Tasks, Change(t)
    PROVE  \/ shown' = shown
           \/ /\ Watch \in NeverStored
              /\ shown'.of = route /\ shown'.version = shown.version + 1
<1> DEFINE c == Start(t, route, used.clicks)
<1>1. /\ shown' = Shown(c) /\ Tasks[t].start = "local" /\ shown \in Versions
      /\ route \in Records
  BY DEF Change, Ruled, ScreensTyped, DataTyped
<1>2. c.task = t /\ c.step = 1 /\ c.got = Unset /\ Of(c) = Tasks[t] /\ c.key = route
  BY DEF Start, Of
<1> HIDE DEF c
<1>3. /\ t \in DOMAIN Pages[scene.page] /\ Tasks[t] = Pages[scene.page][t]
      /\ scene.page \in DOMAIN Pages /\ 1 \in DOMAIN Tasks[t].steps
  BY DEF Ruled, ScreensTyped, SceneOK, StepsInOrder
<1>4. CASE scene.slot \in StepOf(c).shows /\ StepOf(c).adds
  <2>1. 1 \in Adds(scene.page, t, scene.slot)
    BY <1>2, <1>3, <1>4 DEF Adds, StepOf
  <2>2. Watch \in NeverStored
    BY <1>1, <1>3, <2>1 DEF ChangesAreFetched, Ruled, SceneFilled, Watch
  <2>3. shown' = [shown EXCEPT !.of = route, !.version = @ + 1]
    BY <1>1, <1>2, <1>4 DEF Shown
  <2>4. shown'.of = route /\ shown'.version = shown.version + 1
    BY <1>1, <2>3 DEF Versions
  <2>5. QED
    BY <2>2, <2>4
<1>5. CASE ~(scene.slot \in StepOf(c).shows /\ StepOf(c).adds)
  BY <1>1, <1>2, <1>5, TakesIn
<1>6. QED
  BY <1>4, <1>5

LEMMA ChangeKeeps ==
    ASSUME StepsInOrder, ChangesAreFetched, Ruled, NEW t \in DOMAIN Tasks, Change(t)
    PROVE  /\ Loading(running, shown, ver[route]) => Loading(running', shown', ver'[route])
           /\ Clicking(running, shown, ver[route]) => Clicking(running', shown', ver'[route])
<1>1. running' = running /\ ver' = ver
  BY DEF Change
<1>2. ver[route] \in Nat /\ shown.version \in Nat /\ route \in Records
  BY DEF Ruled, ScreensTyped, DataTyped, Versions
<1>3. Current(shown, ver[route]) => Current(shown', ver[route])
  BY <1>2, ChangeAdds DEF Current
<1>4. Current(OneMore(shown), ver[route]) => Current(OneMore(shown'), ver[route])
  BY <1>2, ChangeAdds DEF Current, OneMore
<1>5. shown' = Empty => shown = Empty
  BY <1>2, ChangeAdds, NobodyIsNoRecord
<1>6. Loading(running, shown, ver[route]) => Loading(running', shown', ver'[route])
  BY <1>1, <1>3, <1>5 DEF Loading
<1>7. ASSUME NEW c \in running, Completing(c, shown, ver[route])
      PROVE  Completing(c, shown', ver[route])
  <2>1. Harmless(c, shown, ver[route]) => Harmless(c, shown', ver[route])
    BY <1>3 DEF Harmless
  <2>2. \A m, n \in DOMAIN Of(c).steps :
            Refetching(c, m, n, shown, ver[route]) => Refetching(c, m, n, shown', ver[route])
    BY <1>3 DEF Refetching
  <2>3. \A k \in DOMAIN Of(c).steps :
            Adding(c, k, shown, ver[route]) => Adding(c, k, shown', ver[route])
    BY <1>3, <1>4 DEF Adding
  <2>4. QED
    BY <1>7, <2>1, <2>2, <2>3 DEF Completing
<1>8. QED
  BY <1>1, <1>6, <1>7 DEF Clicking

LEMMA SavedOrComingInit ==
    ASSUME StepsInOrder, ChangesAreFetched, ScreensInit
    PROVE  SavedOrComing
<1> SUFFICES ASSUME Watch \notin LeftStale, scene.slot # Nil
             PROVE  Loading(running, shown, ver[route])
  BY DEF SavedOrComing
<1>1. Ruled
  BY ScreensTypedInit, SceneWholeInit, SceneFilledInit DEF Ruled
<1>2. running = {Start(t, route, 0) : t \in OnRoute} /\ OnRoute \subseteq DOMAIN Tasks
  BY DEF ScreensInit, OnRoute
<1>3. ASSUME NEW t \in OnRoute
      PROVE  LET r == Start(t, route, 0)
             IN  /\ Of(r) = Tasks[t] /\ Of(r).start = "route" /\ HasCurrent(r, ver[route])
                 /\ Pending(r)
  <2> DEFINE r == Start(t, route, 0)
  <2>1. r.task = t /\ r.step = 1 /\ r.got = Unset
    BY DEF Start
  <2> HIDE DEF r
  <2>2. Pending(r)
    BY <1>1, <1>2, <2>1, FreshPending DEF Ruled, ScreensTyped
  <2>3. QED
    BY <2>1, <2>2 DEF Of, OnRoute, HasCurrent, r
<1>4. \E r \in running : Coming(r)
  <2>1. PICK t \in DOMAIN Pages[scene.page] :
            Pages[scene.page][t].start = "route" /\ Delivers(scene.page, t, scene.slot)
    BY <1>1 DEF ChangesAreFetched, Ruled, SceneFilled, Watch, ScreensTyped, SceneOK
  <2>2. \A v \in DOMAIN Pages[scene.page] :
            Yields(Pages[scene.page][v], scene.slot) =>
                scene.slot \in SlotsOf(Pages[scene.page][v])
    BY DEF Yields, SlotsOf, StepsOf
  <2>3. \A v \in DOMAIN Pages[scene.page] :
            Yields(Pages[scene.page][v], scene.slot) =>
                v \in DOMAIN Tasks /\ Tasks[v] = Pages[scene.page][v]
    BY <1>1, <2>2 DEF SceneWhole, Ruled, ScreensTyped, SceneOK
  <2>4. t \in DOMAIN Tasks /\ Tasks[t] = Pages[scene.page][t]
    <3>1. t \in DOMAIN Tasks
      BY <1>1, <2>1, <2>2, <2>3 DEF Delivers, SceneFilled, Ruled
    <3>2. QED
      BY <1>1, <3>1 DEF Ruled, ScreensTyped, SceneOK
  <2>5. t \in OnRoute
    BY <2>1, <2>4 DEF OnRoute
  <2>6. Coming(Start(t, route, 0))
    BY <1>3, <2>1, <2>3, <2>4, <2>5 DEF Coming, Delivers
  <2>7. QED
    BY <1>2, <2>5, <2>6
<1>5. QED
  BY <1>2, <1>3, <1>4 DEF Loading

LEMMA SavedOrComingNext ==
    ASSUME StepsInOrder, LoadsAreCalled, ChangesAreFetched, ScreensTyped, SceneWhole,
           SceneFilled, RunsKeyed, AllAreLive, NothingFailed, SavedOrComing,
           [ScreensNext]_screenVars
    PROVE  SavedOrComing'
<1> DEFINE Goal == Loading(running', shown', ver'[route]) \/ Clicking(running', shown', ver'[route])
<1>1. scene' = scene
  BY StepShapes
<1> SUFFICES ASSUME Unhurried', Watch \notin LeftStale, scene.slot # Nil PROVE Goal
  <2>1. Unhurried' => route' = route
    BY UnhurriedBefore
  <2>2. (Watch \notin LeftStale)' <=> Watch \notin LeftStale
    BY <1>1 DEF Watch
  <2>3. ASSUME route' = route
        PROVE  /\ Loading(running, shown, ver[route])' <=> Loading(running', shown', ver'[route])
               /\ Clicking(running, shown, ver[route])' <=> Clicking(running', shown', ver'[route])
    BY <1>1, <2>3 DEF Loading, Clicking, Completing, Delivering, Harmless, Refetching, Adding,
                      HasCurrent, Current, OneMore, Coming, Pending, Of, Tasks, Watch
  <2>4. QED
    BY <1>1, <2>1, <2>2, <2>3 DEF SavedOrComing
<1>2. /\ Unhurried /\ route' = route
      /\ ~(\E k \in Records : Move(k)) /\ ~\E r \in running : Error(r)
  BY UnhurriedBefore
<1>3. Ruled
  BY DEF Ruled
<1>4. \A r \in running : r.live /\ r.key = route /\ Sound(r)
  BY <1>2 DEF Unhurried, AllAreLive, RunsKeyed, Keyed, NothingFailed
<1>5. Loading(running, shown, ver[route]) \/ Clicking(running, shown, ver[route])
  BY <1>2 DEF SavedOrComing
<1>6. CASE UNCHANGED <<running, shown, ver>>
  BY <1>5, <1>6
<1>7. ASSUME NEW t \in DOMAIN Tasks, Press(t) PROVE Goal
  <2>1. running = {}
    <3>1. running # {} => "early" \in rush'
      BY <1>7 DEF Press
    <3>2. QED
      BY <3>1 DEF Unhurried
  <2>2. QED
    BY <1>3, <1>5, <1>7, <2>1, PressedAtRest DEF Clicking
<1>8. ASSUME NEW t \in DOMAIN Tasks, Change(t) PROVE Goal
  BY <1>3, <1>5, <1>8, ChangeKeeps
<1>9. ASSUME NEW r \in running, Reply(r) PROVE Goal
  BY <1>3, <1>4, <1>5, <1>9, LoadReplies, ClickReplies DEF Clicking
<1>10. ASSUME NEW r \in running, Resume(r) PROVE Goal
  <2>1. "gone" \notin rush'
    BY DEF Unhurried
  <2>2. CASE Loading(running, shown, ver[route])
    BY <1>3, <1>4, <1>10, <2>2, LoadGoesOn, LoadEnds
  <2>3. CASE Clicking(running, shown, ver[route])
    BY <1>3, <1>4, <1>10, <2>1, <2>3, ClickGoesOn, ClickEnds DEF Clicking
  <2>4. QED
    BY <1>5, <2>2, <2>3
<1>11. ASSUME NEW r \in running, Fail(r) PROVE FALSE
  BY <1>4, <1>11 DEF Fail, Sound
<1>12. QED
  BY <1>2, <1>6, <1>7, <1>8, <1>9, <1>10, <1>11
     DEF ScreensNext, screenVars, Rest, OpenForm, TypeIn, CloseForm

LEMMA SavedFollows ==
    ASSUME ScreensTyped, SavedOrComing PROVE SavedIsShown
<1> SUFFICES ASSUME Watch \notin LeftStale, running = {}, scene.slot # Nil, Unhurried
             PROVE  /\ shown.of = route
                    /\ \/ shown.version = ver[route]
                       \/ Watch \in NeverStored /\ shown.version > ver[route]
  BY DEF SavedIsShown, Unhurried, Watch
<1>1. Current(shown, ver[route])
  BY DEF SavedOrComing, Loading, Clicking
<1>2. QED
  BY <1>1 DEF Current

\* SavedIsShown, on any pages that fetch again what their clicks change.
THEOREM ChangesAreShown ==
    ASSUME StepsInOrder, LoadsAreCalled, ChangesAreFetched
    PROVE  ScreensSpec => []SavedIsShown
<1> DEFINE Inv == /\ SceneWhole /\ SceneFilled /\ RunsKeyed /\ AllAreLive /\ NothingFailed
                  /\ SavedOrComing
<1>1. ScreensInit => Inv
  <2> SUFFICES ASSUME ScreensInit PROVE Inv
    OBVIOUS
  <2>1. SceneWhole /\ SceneFilled /\ RunsKeyed /\ NothingFailed /\ SavedOrComing
    BY OwnRecordInit, SceneFilledInit, EmptyIsAwaitedInit, SavedOrComingInit
  <2>2. AllAreLive
    BY DEF ScreensInit, AllAreLive, Start
  <2>3. QED
    BY <2>1, <2>2
<1>2. ScreensTyped /\ Inv /\ [ScreensNext]_screenVars => Inv'
  BY SceneWholeNext, SceneFilledNext, RunsKeyedNext, AllAreLiveNext, NothingFailedNext,
     SavedOrComingNext
<1>3. ScreensTyped /\ Inv => SavedIsShown
  BY SavedFollows
<1>4. QED
  BY <1>1, <1>2, <1>3, ScreensStayTyped, PTL DEF ScreensSpec
==================================================================================
