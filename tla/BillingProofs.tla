------------------------------ MODULE BillingProofs ------------------------------
(***************************************************************************)
(* Theorems of Numbering, InvoiceRun and TenantBilling, which number and    *)
(* bill.                                                                   *)
(***************************************************************************)
EXTENDS Numbering, InvoiceRun, TenantBilling, TLAPS

-------------------------------------------------------------------------------
(***************************************************************************)
(* Numbers of new rows, for every number of clerks and of attempts: who is  *)
(* refused a number has been overtaken at every attempt, and no number is  *)
(* ever left out.                                                          *)
(***************************************************************************)

\* A request at its n-th attempt has seen n commits of others, and one more if the number
\* it has read is gone.
Overtaking(c) ==
    /\ ClerkAt(c, "read") => asking[c].tries <= beaten[c]
    /\ ClerkAt(c, "insert") =>
          /\ asking[c].tries <= beaten[c]
          /\ asking[c].number \in taken => asking[c].tries < beaten[c]

Counted == \A c \in Clerks : c \in lost \/ Overtaking(c)

\* A number that is read, or inserted, has its predecessor.
Follows(c) ==
    ClerkAt(c, "insert") \/ ClerkAt(c, "inserted") =>
        asking[c].number \in Number /\ (asking[c].number = 1 \/ asking[c].number - 1 \in given)

Contiguous == NoGaps /\ \A c \in Clerks : Follows(c)

-------------------------------------------------------------------------------
\* The fields of the requests keep their ranges, and a number that is there was given.
LEMMA TypeStep ==
    ASSUME MaxAttempts \in Nat \ {0}, NumberingTypeOK, Contiguous, [NumberingNext]_numberVars
    PROVE  NumberingTypeOK'
<1> USE DEF NumberingTypeOK, Number, IdleClerk, ClerkAt
<1>1. ASSUME NEW c \in Clerks, BeginRow(c) PROVE NumberingTypeOK'
  BY <1>1 DEF BeginRow
<1>2. ASSUME NEW c \in Clerks, ReadNext(c) PROVE NumberingTypeOK'
  <2> PICK n \in Number :
        asking' = [asking EXCEPT ![c].at = "insert", ![c].number = n]
    BY <1>2 DEF ReadNext
  <2>1. asking' \in [Clerks -> [at: {"idle", "read", "insert", "inserted"},
                            number: Number \cup {0}, tries: 0 .. MaxAttempts - 1]]
    OBVIOUS
  <2>2. QED
    BY <1>2, <2>1 DEF ReadNext
<1>3. ASSUME NEW c \in Clerks, InsertRow(c) PROVE NumberingTypeOK'
  BY <1>3 DEF InsertRow
<1>4. ASSUME NEW c \in Clerks, Retry(c) PROVE NumberingTypeOK'
  <2>1. asking[c].tries + 1 \in 0 .. MaxAttempts - 1
    BY <1>4 DEF Retry, LastTry
  <2>2. QED
    BY <1>4, <2>1 DEF Retry, Retried
<1>5. ASSUME NEW c \in Clerks, GiveUp(c) PROVE NumberingTypeOK'
  BY <1>5 DEF GiveUp
<1>6. ASSUME NEW c \in Clerks, CommitRow(c) PROVE NumberingTypeOK'
  <2>1. asking[c].number \in Number
    BY <1>6 DEF CommitRow, Contiguous, Follows
  <2>2. beaten' \in [Clerks -> 0 .. MaxAttempts]
    BY <1>6 DEF CommitRow, Overtaken
  <2>3. /\ taken' = taken \cup {asking[c].number} /\ given' = given \cup {asking[c].number}
        /\ asking' = [asking EXCEPT ![c] = IdleClerk] /\ lost' = lost
    BY <1>6 DEF CommitRow
  <2>4. taken' \subseteq given' /\ given' \subseteq Number /\ lost' \subseteq Clerks
    BY <2>1, <2>3
  <2>5. asking' \in [Clerks -> [at: {"idle", "read", "insert", "inserted"},
                            number: Number \cup {0}, tries: 0 .. MaxAttempts - 1]]
    BY <2>3
  <2>6. QED
    BY <2>2, <2>4, <2>5
<1>7. ASSUME NEW c \in Clerks, RollBackRow(c) PROVE NumberingTypeOK'
  BY <1>7 DEF RollBackRow
<1>8. ASSUME NEW n \in Number, RemoveRow(n) PROVE NumberingTypeOK'
  BY <1>8 DEF RemoveRow
<1>9. CASE UNCHANGED numberVars
  BY <1>9 DEF numberVars
<1>10. QED
  BY <1>1, <1>2, <1>3, <1>4, <1>5, <1>6, <1>7, <1>8, <1>9 DEF NumberingNext

-------------------------------------------------------------------------------
\* Only a commit takes a number, and it counts against everyone who is on the way.
LEMMA CountedStep ==
    ASSUME MaxAttempts \in Nat \ {0}, NumberingTypeOK, Counted, [NumberingNext]_numberVars
    PROVE  Counted'
<1> SUFFICES ASSUME NEW d \in Clerks, d \notin lost'
             PROVE  Overtaking(d)'
  BY DEF Counted
<1> USE DEF Overtaking, ClerkAt, IdleClerk
<1>0. /\ asking[d].tries \in 0 .. MaxAttempts - 1
      /\ beaten[d] \in 0 .. MaxAttempts
      /\ d \notin lost => Overtaking(d)
  BY DEF NumberingTypeOK, Counted
<1>1. ASSUME NEW c \in Clerks, BeginRow(c) PROVE Overtaking(d)'
  <2>1. CASE d = c
    BY <1>1, <2>1 DEF BeginRow, NumberingTypeOK
  <2>2. CASE d # c
    BY <1>0, <1>1, <2>2 DEF BeginRow, NumberingTypeOK
  <2>3. QED
    BY <2>1, <2>2
<1>2. ASSUME NEW c \in Clerks, ReadNext(c) PROVE Overtaking(d)'
  <2> PICK n \in Number :
        IsNext(n) /\ asking' = [asking EXCEPT ![c].at = "insert", ![c].number = n]
    BY <1>2 DEF ReadNext
  <2>1. n \notin taken
    BY DEF IsNext, Number, NumberingTypeOK
  <2>2. QED
    BY <1>0, <1>2, <2>1 DEF ReadNext, NumberingTypeOK
<1>3. ASSUME NEW c \in Clerks, InsertRow(c) PROVE Overtaking(d)'
  BY <1>0, <1>3 DEF InsertRow, NumberingTypeOK
<1>4. ASSUME NEW c \in Clerks, Retry(c) PROVE Overtaking(d)'
  BY <1>0, <1>4 DEF Retry, Retried, Collides, NumberingTypeOK
<1>5. ASSUME NEW c \in Clerks, GiveUp(c) PROVE Overtaking(d)'
  BY <1>0, <1>5 DEF GiveUp, NumberingTypeOK
<1>6. ASSUME NEW c \in Clerks, CommitRow(c) PROVE Overtaking(d)'
  <2>1. CASE ClerkAt(d, "idle") \/ d = c
    BY <1>6, <2>1 DEF CommitRow, NumberingTypeOK
  <2>2. CASE ~(ClerkAt(d, "idle") \/ d = c)
    <3>1. beaten'[d] = Overtaken(beaten[d]) /\ asking'[d] = asking[d] /\ d \notin lost
      BY <1>6, <2>2 DEF CommitRow, NumberingTypeOK
    <3>2. Overtaken(beaten[d]) > asking[d].tries \/ ~(ClerkAt(d, "read") \/ ClerkAt(d, "insert"))
      BY <1>0, <3>1 DEF Overtaken
    <3>3. QED
      BY <1>0, <3>1, <3>2 DEF Overtaken
  <2>3. QED
    BY <2>1, <2>2
<1>7. ASSUME NEW c \in Clerks, RollBackRow(c) PROVE Overtaking(d)'
  BY <1>0, <1>7 DEF RollBackRow, NumberingTypeOK
<1>8. ASSUME NEW n \in Number, RemoveRow(n) PROVE Overtaking(d)'
  BY <1>0, <1>8 DEF RemoveRow
<1>9. CASE UNCHANGED numberVars
  BY <1>0, <1>9 DEF numberVars
<1>10. QED
  BY <1>1, <1>2, <1>3, <1>4, <1>5, <1>6, <1>7, <1>8, <1>9 DEF NumberingNext

\* What is read follows a number that is there, and a number that was given stays given.
LEMMA ContiguousStep ==
    ASSUME NumberingTypeOK, Contiguous, [NumberingNext]_numberVars
    PROVE  Contiguous'
<1> USE DEF Contiguous, Follows, NoGaps, ClerkAt, IdleClerk
<1>1. ASSUME UNCHANGED given,
             \A d \in Clerks : asking'[d] = asking[d] \/ asking'[d].at \in {"idle", "read"}
                               \/ (asking'[d].number = asking[d].number /\ ClerkAt(d, "insert"))
      PROVE  Contiguous'
  BY <1>1
<1>2. ASSUME NEW c \in Clerks, ReadNext(c) PROVE Contiguous'
  <2> PICK n \in Number :
        IsNext(n) /\ asking' = [asking EXCEPT ![c].at = "insert", ![c].number = n]
    BY <1>2 DEF ReadNext
  <2>1. n = 1 \/ n - 1 \in given
    BY DEF IsNext, NumberingTypeOK
  <2>2. QED
    BY <1>2, <2>1 DEF ReadNext, NumberingTypeOK
<1>3. ASSUME NEW c \in Clerks, CommitRow(c) PROVE Contiguous'
  <2>1. asking[c].number \in Number /\ (asking[c].number = 1 \/ asking[c].number - 1 \in given)
    BY <1>3 DEF CommitRow
  <2>2. given' = given \cup {asking[c].number} /\ asking' = [asking EXCEPT ![c] = IdleClerk]
    BY <1>3 DEF CommitRow
  <2>3. NoGaps'
    BY <2>1, <2>2
  <2>4. \A d \in Clerks : Follows(d)'
    BY <2>2 DEF NumberingTypeOK
  <2>5. QED
    BY <2>3, <2>4
<1>4. ASSUME NEW c \in Clerks,
             BeginRow(c) \/ InsertRow(c) \/ Retry(c) \/ GiveUp(c) \/ RollBackRow(c)
      PROVE  Contiguous'
  <2>1. UNCHANGED given
    BY <1>4 DEF BeginRow, InsertRow, Retry, GiveUp, RollBackRow
  <2>2. \A d \in Clerks : asking'[d] = asking[d] \/ asking'[d].at \in {"idle", "read"}
                          \/ (asking'[d].number = asking[d].number /\ ClerkAt(d, "insert"))
    <3>1. ASSUME NEW d \in Clerks, d # c PROVE asking'[d] = asking[d]
      BY <1>4, <3>1 DEF BeginRow, InsertRow, Retry, GiveUp, RollBackRow, NumberingTypeOK
    <3>2. BeginRow(c) \/ Retry(c) \/ GiveUp(c) \/ RollBackRow(c) =>
              asking'[c].at \in {"idle", "read"}
      <4>1. BeginRow(c) => asking'[c].at = "read"
        BY DEF BeginRow, NumberingTypeOK
      <4>2. Retry(c) => asking'[c].at = "read"
        BY DEF Retry, Retried, NumberingTypeOK
      <4>3. GiveUp(c) \/ RollBackRow(c) => asking'[c].at = "idle"
        BY DEF GiveUp, RollBackRow, NumberingTypeOK
      <4>4. QED
        BY <4>1, <4>2, <4>3
    <3>3. InsertRow(c) => asking'[c].number = asking[c].number /\ ClerkAt(c, "insert")
      BY DEF InsertRow, NumberingTypeOK
    <3>4. QED
      BY <1>4, <3>1, <3>2, <3>3
  <2>3. QED
    BY <1>1, <2>1, <2>2
<1>5. ASSUME NEW n \in Number, RemoveRow(n) PROVE Contiguous'
  BY <1>1, <1>5 DEF RemoveRow
<1>6. CASE UNCHANGED numberVars
  BY <1>1, <1>6 DEF numberVars
<1>7. QED
  BY <1>2, <1>3, <1>4, <1>5, <1>6 DEF NumberingNext

-------------------------------------------------------------------------------
LEMMA InitSound ==
    ASSUME MaxAttempts \in Nat \ {0}, NumberingInit
    PROVE  NumberingTypeOK /\ Counted /\ Contiguous
BY DEF NumberingInit, NumberingTypeOK, Counted, Overtaking, Contiguous, NoGaps, Follows, ClerkAt,
       IdleClerk, Number

\* A request that gives up at its last attempt has just collided once more.
LEMMA GiveUpBeaten ==
    ASSUME MaxAttempts \in Nat \ {0}, NumberingTypeOK, Counted
    PROVE  RefusesTheBeaten
<1> SUFFICES ASSUME NEW c \in Clerks, GiveUp(c), c \notin lost
             PROVE  beaten[c] = MaxAttempts
  BY DEF RefusesTheBeaten
<1>1. asking[c].tries < beaten[c]
  BY DEF GiveUp, Collides, Counted, Overtaking
<1>2. asking[c].tries + 1 = MaxAttempts
  BY DEF GiveUp, LastTry
<1>3. asking[c].tries \in 0 .. MaxAttempts - 1 /\ beaten[c] \in 0 .. MaxAttempts
  BY DEF NumberingTypeOK
<1>4. QED
  BY <1>1, <1>2, <1>3

\* Requests, attempts and numbers keep their ranges.
THEOREM NumberingTypeCorrect ==
    ASSUME MaxAttempts \in Nat \ {0}
    PROVE  NumberingSpec => []NumberingTypeOK
<1>1. NumberingInit => NumberingTypeOK /\ Contiguous
  BY InitSound
<1>2. NumberingTypeOK /\ Contiguous /\ [NumberingNext]_numberVars => NumberingTypeOK' /\ Contiguous'
  BY TypeStep, ContiguousStep
<1>3. QED
  BY <1>1, <1>2, PTL DEF NumberingSpec

\* create_inventory_item and create_unit answer "Could not allocate" only to a request that
\* another's commit has overtaken at each attempt, or that names an unknown city.
THEOREM RefusedOnlyIfBeaten ==
    ASSUME MaxAttempts \in Nat \ {0} PROVE NumberingSpec => GivesUpOnlyIfBeaten
<1>1. NumberingInit => NumberingTypeOK /\ Counted /\ Contiguous
  BY InitSound
<1>2. NumberingTypeOK /\ Counted /\ Contiguous /\ [NumberingNext]_numberVars
          => NumberingTypeOK' /\ Counted' /\ Contiguous'
  BY TypeStep, CountedStep, ContiguousStep
<1>3. NumberingTypeOK /\ Counted => [RefusesTheBeaten]_numberVars
  BY GiveUpBeaten
<1>4. QED
  BY <1>1, <1>2, <1>3, PTL DEF NumberingSpec, GivesUpOnlyIfBeaten

\* Every number below one that was given was given before, although the highest may be
\* deleted and given again.
THEOREM NumbersWithoutGaps ==
    ASSUME MaxAttempts \in Nat \ {0} PROVE NumberingSpec => []NoGaps
<1>1. NumberingInit => NumberingTypeOK /\ Contiguous
  BY InitSound
<1>2. NumberingTypeOK /\ Contiguous /\ [NumberingNext]_numberVars => NumberingTypeOK' /\ Contiguous'
  BY TypeStep, ContiguousStep
<1>3. Contiguous => NoGaps
  BY DEF Contiguous
<1>4. QED
  BY <1>1, <1>2, <1>3, PTL DEF NumberingSpec

-------------------------------------------------------------------------------
(***************************************************************************)
(* The invoices of a month, for every set of contracts and of crossing     *)
(* runs: a run that answers has left none of its contracts without one.    *)
(***************************************************************************)

Working(r) == ~RunAt(r, "idle")

\* What a run has picked is still to do, added by it, or there.
NoneForgotten ==
    \A r \in Runs : run[r].picked \subseteq run[r].left \cup run[r].added \cup billed

\* The unique constraint: what a run has added is there for nobody else.
AddedOnce ==
    \A r \in Runs :
        /\ run[r].added \cap billed = {}
        /\ \A s \in Runs \ {r} : run[r].added \cap run[s].added = {}

\* The contract that is about to be invoiced is one of those to do, and a contract with an
\* uncommitted invoice cannot be deleted.
Sound ==
    /\ RunTypeOK /\ NoneForgotten /\ AddedOnce
    /\ \A r \in Runs : run[r].added \subseteq rows

-------------------------------------------------------------------------------
\* A run that ends, or begins, holds nothing.
LEMMA IdleType ==
    /\ IdleRun \in RunJob
    /\ IdleRun.picked = {} /\ IdleRun.left = {} /\ IdleRun.added = {}
BY DEF IdleRun, RunJob

\* A record of a run keeps its type when its fields are set.
LEMMA JobType ==
    ASSUME NEW j \in RunJob, NEW c \in Contracts
    PROVE  /\ [j EXCEPT !.at = "add", !.this = c] \in RunJob
           /\ [j EXCEPT !.at = "add", !.this = c].picked = j.picked
           /\ [j EXCEPT !.at = "add", !.this = c].left = j.left
           /\ [j EXCEPT !.at = "add", !.this = c].added = j.added
           /\ [j EXCEPT !.left = @ \ {c}] \in RunJob
BY DEF RunJob

\* The steps in which a run ends, and nothing is committed.
LEMMA EndedSound ==
    ASSUME Sound, NEW r \in Runs, run' = [run EXCEPT ![r] = IdleRun],
           UNCHANGED <<rows, active, billed>>
    PROVE  Sound'
<1> USE DEF Sound, RunTypeOK
<1>1. RunTypeOK'
  BY IdleType
<1>2. NoneForgotten' /\ AddedOnce' /\ \A s \in Runs : run'[s].added \subseteq rows'
  BY IdleType DEF NoneForgotten, AddedOnce
<1>3. QED
  BY <1>1, <1>2

LEMMA NextSound == Sound /\ [RunNext]_runVars => Sound'
<1> SUFFICES ASSUME Sound, [RunNext]_runVars PROVE Sound'
  OBVIOUS
<1> USE DEF Sound, RunTypeOK, NoneForgotten, AddedOnce
<1>1. ASSUME NEW r \in Runs, Start(r) PROVE Sound'
  <2> DEFINE begun == [IdleRun EXCEPT !.at = "each", !.picked = active, !.left = active]
  <2>1. /\ begun \in RunJob
        /\ begun.picked = begun.left /\ begun.added = {}
    BY DEF IdleRun, RunJob
  <2>2. run' = [run EXCEPT ![r] = begun] /\ UNCHANGED <<rows, active, billed>>
    BY <1>1 DEF Start
  <2> HIDE DEF begun
  <2>3. QED
    BY <2>1, <2>2
<1>2. ASSUME NEW r \in Runs, Skip(r) PROVE Sound'
  <2> PICK c \in run[r].left : c \in billed /\ run' = [run EXCEPT ![r].left = @ \ {c}]
    BY <1>2 DEF Skip, Existing
  <2>1. UNCHANGED <<rows, active, billed>>
    BY <1>2 DEF Skip
  <2>2. RunTypeOK'
    <3>1. run[r] \in RunJob /\ c \in Contracts
      BY DEF RunJob
    <3>2. [run[r] EXCEPT !.left = @ \ {c}] \in RunJob
      BY <3>1, JobType
    <3>3. QED
      BY <2>1, <3>2
  <2>3. NoneForgotten'
    BY <2>1
  <2>4. AddedOnce' /\ \A s \in Runs : run'[s].added \subseteq rows'
    BY <2>1
  <2>5. QED
    BY <2>2, <2>3, <2>4
<1>3. ASSUME NEW r \in Runs, Miss(r) PROVE Sound'
  <2> PICK c \in run[r].left :
        run' = [run EXCEPT ![r] = [run[r] EXCEPT !.at = "add", !.this = c]]
    BY <1>3 DEF Miss
  <2> DEFINE found == [run[r] EXCEPT !.at = "add", !.this = c]
  <2>1. run[r] \in RunJob /\ c \in Contracts
    BY DEF RunJob
  <2>2. /\ found \in RunJob /\ found.picked = run[r].picked /\ found.left = run[r].left
        /\ found.added = run[r].added
    BY <2>1, JobType
  <2>3. run' = [run EXCEPT ![r] = found] /\ UNCHANGED <<rows, active, billed>>
    BY <1>3 DEF Miss
  <2> HIDE DEF found
  <2>4. QED
    BY <2>2, <2>3
<1>4. ASSUME NEW r \in Runs, Add(r) PROVE Sound'
  <2> DEFINE this == run[r].this
             after == Added(r)
  <2>1. /\ this \in rows /\ this \notin billed
        /\ \A s \in Runs \ {r} : this \notin run[s].added
        /\ UNCHANGED <<rows, active, billed>>
    BY <1>4 DEF Add, Accepted, InvoiceHeld
  <2>2. run' = [run EXCEPT ![r] = after]
    BY <1>4 DEF Add
  <2>3. run[r] \in RunJob
    OBVIOUS
  <2>4. /\ after \in RunJob
        /\ after.added = run[r].added \cup {this} /\ after.left = run[r].left \ {this}
        /\ after.picked = run[r].picked
    BY <2>1, <2>3 DEF Added, RunJob
  <2> HIDE DEF this, after
  <2>5. NoneForgotten'
    BY <2>1, <2>2, <2>4
  <2>6. AddedOnce'
    BY <2>1, <2>2, <2>4
  <2>7. RunTypeOK' /\ \A s \in Runs : run'[s].added \subseteq rows'
    BY <2>1, <2>2, <2>4
  <2>8. QED
    BY <2>5, <2>6, <2>7
<1>5. ASSUME NEW r \in Runs, RefuseRun(r) \/ RollBackRun(r) PROVE Sound'
  BY <1>5, EndedSound DEF RefuseRun, RollBackRun
<1>6. ASSUME NEW r \in Runs, CommitRun(r) PROVE Sound'
  <2>1. /\ run' = [run EXCEPT ![r] = IdleRun] /\ billed' = billed \cup run[r].added
        /\ UNCHANGED <<rows, active>>
    BY <1>6 DEF CommitRun
  <2>2. RunTypeOK'
    BY <2>1, IdleType
  <2>3. NoneForgotten' /\ AddedOnce' /\ \A s \in Runs : run'[s].added \subseteq rows'
    BY <2>1, IdleType
  <2>4. QED
    BY <2>2, <2>3
<1>7. ASSUME NEW c \in Contracts, Turn(c) PROVE Sound'
  BY <1>7 DEF Turn
<1>8. ASSUME NEW c \in Contracts, Delete(c) PROVE Sound'
  BY <1>8 DEF Delete
<1>9. CASE UNCHANGED runVars
  BY <1>9 DEF runVars
<1>10. QED
  BY <1>1, <1>2, <1>3, <1>4, <1>5, <1>6, <1>7, <1>8, <1>9 DEF RunNext

LEMMA InitIsSound == RunInit => Sound
BY IdleType DEF RunInit, Sound, RunTypeOK, NoneForgotten, AddedOnce

\* The rows of a run, and what is billed, only name contracts that exist.
THEOREM InvoiceRunTypeCorrect == RunSpec => []RunTypeOK
<1>1. Sound => RunTypeOK
  BY DEF Sound
<1>2. QED
  BY <1>1, InitIsSound, NextSound, PTL DEF RunSpec

\* generate_monthly_invoices: when it answers, each contract that was active at its start has
\* one invoice of the month, its own or one of a run that crossed it.
THEOREM AnsweredRunsBillAll == RunSpec => AnsweredBilled
<1>1. ASSUME Sound, NEW r \in Runs, CommitRun(r)
      PROVE  run[r].picked \subseteq billed' /\ run[r].added \cap billed = {}
  BY <1>1 DEF Sound, NoneForgotten, AddedOnce, CommitRun
<1>2. Sound => [AnswersBilled]_runVars
  BY <1>1 DEF AnswersBilled
<1>3. QED
  BY <1>2, InitIsSound, NextSound, PTL DEF RunSpec, AnsweredBilled

-------------------------------------------------------------------------------
(***************************************************************************)
(* The invoice functions of tenant-app, for any leases, any number of      *)
(* calls and any statuses: a lease is billed once a month and an invoice   *)
(* is reminded of once, for as long as calls of one function do not        *)
(* overlap and none has broken off.                                        *)
(***************************************************************************)

LeaseIds == {Leases[i] : i \in DOMAIN Leases}
Numbers  == 1 .. MaxInvoices

Bill == [lease: LeaseIds \cup {None}, number: Nat \cup {None}, month: Nat, due: Nat,
         status: Statuses \cup {"sent", "open", "overdue"}, reminded: BOOLEAN]

Generating == [fn: {"generate"}, month: Nat, number: Nat, stored: BOOLEAN,
               left: Seq(LeaseIds), at: {"look", "create"}]
Sweeping   == [fn: {"overdue"}, now: Nat, wants: Seq({"open", "sent"}), left: SUBSET Numbers]
Reminding  == [fn: {"remind"}, now: Nat, at: {"list", "mail"}, left: SUBSET Numbers,
               sent: SUBSET Numbers]

Typed ==
    /\ invoices \in Seq(Bill) /\ Len(invoices) <= MaxInvoices
    /\ counter \in Nat /\ thisMonth \in Nat
    /\ calls \in [Callers -> {NoCall} \cup Generating \cup Sweeping \cup Reminding]
    /\ \A c \in Callers :
          /\ calls[c].fn \in {"overdue", "remind"} => calls[c].left \subseteq InvoiceIds
          /\ calls[c].fn = "generate" /\ calls[c].at = "create" => calls[c].left # <<>>
    /\ mails \in [Numbers -> Nat]

-------------------------------------------------------------------------------
\* Of a function without overlaps one call is under way at most.
Alone(fn) ==
    fn \notin overlapped =>
        \A c, d \in Callers : calls[c].fn = fn /\ calls[d].fn = fn => c = d

\* No lease has two invoices of a month, and the one about to be made has none yet.
OnePerMonth ==
    "generate" \notin overlapped =>
        /\ \A i, j \in InvoiceIds : i # j /\ invoices[i].lease # None =>
              <<invoices[i].lease, invoices[i].month>> # <<invoices[j].lease, invoices[j].month>>
        /\ \A c \in Callers : calls[c].fn = "generate" /\ calls[c].at = "create" =>
              InvoicesOf(Head(calls[c].left), calls[c].month) = {}

\* The numbers of leases' invoices lie below the counter of the run under way, or of the settings.
NumbersBelow ==
    {"generate"} \cap (overlapped \cup unfinished) = {} =>
        /\ \A i, j \in InvoiceIds : i # j /\ None \notin {invoices[i].lease, invoices[j].lease} =>
              invoices[i].number # invoices[j].number
        /\ \A c \in Callers : calls[c].fn = "generate" =>
              \A i \in InvoiceIds :
                  invoices[i].lease # None => invoices[i].number < calls[c].number
        /\ (\A c \in Callers : calls[c].fn # "generate") =>
              \A i \in InvoiceIds : invoices[i].lease # None => invoices[i].number < counter

\* Every lease's invoice has a number.
LeasesNumbered ==
    \A i \in InvoiceIds : invoices[i].lease # None => invoices[i].number # None

\* An invoice is mailed of once: it is marked, or its mark is the next thing the call under
\* way does, and that call mails of none that has been mailed of.
Mailed(i) == mails[i] # 0

RemindedSafe ==
    {"remind"} \cap (overlapped \cup unfinished) = {} =>
        /\ \A i \in Numbers : mails[i] <= 1
        /\ \A i \in Numbers : Mailed(i) =>
              /\ i \in InvoiceIds
              /\ \/ invoices[i].reminded
                 \/ \E c \in Callers : calls[c].fn = "remind" /\ i \in calls[c].sent
        /\ \A c \in Callers : calls[c].fn = "remind" =>
              /\ \A i \in calls[c].left : ~Mailed(i)
              /\ \A i, j \in calls[c].sent : i = j
              /\ calls[c].at = "list" => calls[c].left = {} /\ calls[c].sent = {}

Reminded == Typed /\ Alone("remind") /\ RemindedSafe

Billed == Typed /\ Alone("generate") /\ OnePerMonth /\ NumbersBelow /\ LeasesNumbered

-------------------------------------------------------------------------------
\* What a caller is doing, by the function it has called.
LEMMA CallKinds ==
    ASSUME Typed, NEW c \in Callers
    PROVE  /\ calls[c].fn = "generate" => calls[c] \in Generating
           /\ calls[c].fn = "overdue" => calls[c] \in Sweeping
           /\ calls[c].fn = "remind" => calls[c] \in Reminding
           /\ NoCall.fn \notin {"generate", "overdue", "remind"}
<1>1. NoCall.fn \notin {"generate", "overdue", "remind"}
  BY DEF NoCall
<1>2. calls[c] \in {NoCall} \cup Generating \cup Sweeping \cup Reminding
  BY DEF Typed
<1>3. CASE calls[c] = NoCall
  BY <1>1, <1>3
<1>4. CASE calls[c] \in Generating
  BY <1>1, <1>4 DEF Generating
<1>5. CASE calls[c] \in Sweeping
  BY <1>1, <1>5 DEF Sweeping
<1>6. CASE calls[c] \in Reminding
  BY <1>1, <1>6 DEF Reminding
<1>7. QED
  BY <1>2, <1>3, <1>4, <1>5, <1>6

\* The moves of a month's run.
LEMMA RunFinds ==
    ASSUME NEW g \in Generating
    PROVE  /\ [g EXCEPT !.at = "create"] \in Generating
           /\ [g EXCEPT !.at = "create"].left = g.left
           /\ [g EXCEPT !.at = "create"].month = g.month
           /\ [g EXCEPT !.at = "create"].number = g.number
           /\ [g EXCEPT !.at = "create"].at = "create"
BY DEF Generating

LEMMA RunPasses ==
    ASSUME NEW g \in Generating, NEW tail \in Seq(LeaseIds)
    PROVE  /\ [g EXCEPT !.left = tail] \in Generating
           /\ [g EXCEPT !.left = tail].number = g.number
           /\ [g EXCEPT !.left = tail].at = g.at
BY DEF Generating

LEMMA RunCreates ==
    ASSUME NEW g \in Generating, NEW tail \in Seq(LeaseIds)
    PROVE  /\ [g EXCEPT !.left = tail, !.number = g.number + 1, !.at = "look"] \in Generating
           /\ [g EXCEPT !.left = tail, !.number = g.number + 1, !.at = "look"].number = g.number + 1
           /\ [g EXCEPT !.left = tail, !.number = g.number + 1, !.at = "look"].at = "look"
<1>1. g.left \in Seq(LeaseIds) /\ g.number \in Nat /\ g.at \in {"look", "create"}
  BY DEF Generating
<1>2. g.number + 1 \in Nat
  BY <1>1
<1>3. QED
  BY <1>1, <1>2 DEF Generating

\* A step in which a call goes on, begins or ends, and the others stay as they are.
LEMMA CallsTyped ==
    ASSUME Typed, NEW c \in Callers,
           NEW call \in {NoCall} \cup Generating \cup Sweeping \cup Reminding,
           calls' = [calls EXCEPT ![c] = call]
    PROVE  /\ calls' \in [Callers -> {NoCall} \cup Generating \cup Sweeping \cup Reminding]
           /\ calls'[c] = call
           /\ \A d \in Callers \ {c} : calls'[d] = calls[d]
BY DEF Typed

\* An invoice that is added comes after the others.
LEMMA AddedBill ==
    ASSUME NEW s \in Seq(Bill), NEW bill \in Bill
    PROVE  /\ Append(s, bill) \in Seq(Bill) /\ Len(Append(s, bill)) = Len(s) + 1
           /\ DOMAIN Append(s, bill) = DOMAIN s \cup {Len(s) + 1}
           /\ Append(s, bill)[Len(s) + 1] = bill /\ Len(s) + 1 \notin DOMAIN s
           /\ \A i \in DOMAIN s : Append(s, bill)[i] = s[i]
OBVIOUS

LEMMA ReplacedBill ==
    ASSUME NEW s \in Seq(Bill), NEW i \in DOMAIN s, NEW bill \in Bill
    PROVE  /\ [s EXCEPT ![i] = bill] \in Seq(Bill) /\ DOMAIN [s EXCEPT ![i] = bill] = DOMAIN s
           /\ Len([s EXCEPT ![i] = bill]) = Len(s)
           /\ [s EXCEPT ![i] = bill][i] = bill
           /\ \A j \in DOMAIN s : j # i => [s EXCEPT ![i] = bill][j] = s[j]
OBVIOUS

\* A new status, or the mark of a reminder, leaves the rest of an invoice alone.
LEMMA Stated ==
    ASSUME Typed, NEW i \in InvoiceIds, NEW status \in Statuses \cup {"sent", "open", "overdue"},
           invoices' = [invoices EXCEPT ![i].status = status]
    PROVE  /\ invoices' \in Seq(Bill) /\ InvoiceIds' = InvoiceIds /\ Len(invoices') = Len(invoices)
           /\ \A j \in InvoiceIds :
                 /\ invoices'[j].lease = invoices[j].lease
                 /\ invoices'[j].month = invoices[j].month
                 /\ invoices'[j].number = invoices[j].number
                 /\ invoices'[j].reminded = invoices[j].reminded
<1>1. invoices \in Seq(Bill) /\ i \in DOMAIN invoices /\ invoices[i] \in Bill
      /\ \A j \in DOMAIN invoices : invoices[j] \in Bill
  BY DEF Typed, InvoiceIds
<1> DEFINE bill == [invoices[i] EXCEPT !.status = status]
<1>2. /\ bill \in Bill /\ bill.lease = invoices[i].lease /\ bill.month = invoices[i].month
      /\ bill.number = invoices[i].number /\ bill.reminded = invoices[i].reminded
  BY <1>1 DEF Bill
<1>3. invoices' = [invoices EXCEPT ![i] = bill]
  OBVIOUS
<1> HIDE DEF bill
<1>4. /\ invoices' \in Seq(Bill) /\ DOMAIN invoices' = DOMAIN invoices
      /\ Len(invoices') = Len(invoices) /\ invoices'[i] = bill
      /\ \A j \in DOMAIN invoices : j # i => invoices'[j] = invoices[j]
  <2>1. bill \in Bill /\ i \in DOMAIN invoices /\ invoices \in Seq(Bill)
    BY <1>1, <1>2
  <2>2. QED
    BY <2>1, <1>3, ReplacedBill
<1>5. \A j \in DOMAIN invoices : invoices[j].reminded \in BOOLEAN
  BY <1>1 DEF Bill
<1>6. ASSUME NEW j \in DOMAIN invoices
      PROVE  /\ invoices'[j].lease = invoices[j].lease /\ invoices'[j].month = invoices[j].month
             /\ invoices'[j].number = invoices[j].number
             /\ invoices'[j].reminded = invoices[j].reminded
  <2>1. CASE j = i
    BY <2>1, <1>2, <1>4
  <2>2. CASE j # i
    BY <2>2, <1>4, <1>5
  <2>3. QED
    BY <2>1, <2>2
<1>7. QED
  BY <1>4, <1>6 DEF InvoiceIds

WithMark(i) == [invoices EXCEPT ![i].reminded = TRUE]

LEMMA Marked ==
    ASSUME Typed, NEW i \in InvoiceIds, invoices' = WithMark(i)
    PROVE  /\ invoices' \in Seq(Bill) /\ InvoiceIds' = InvoiceIds /\ Len(invoices') = Len(invoices)
           /\ \A j \in InvoiceIds :
                 /\ invoices'[j].lease = invoices[j].lease
                 /\ invoices'[j].month = invoices[j].month
                 /\ invoices'[j].number = invoices[j].number
                 /\ invoices'[j].reminded = (invoices[j].reminded \/ j = i)
<1>1. invoices \in Seq(Bill) /\ i \in DOMAIN invoices /\ invoices[i] \in Bill
      /\ \A j \in DOMAIN invoices : invoices[j] \in Bill
  BY DEF Typed, InvoiceIds
<1> DEFINE bill == [invoices[i] EXCEPT !.reminded = TRUE]
<1>2. /\ bill \in Bill /\ bill.lease = invoices[i].lease /\ bill.month = invoices[i].month
      /\ bill.number = invoices[i].number /\ bill.reminded = TRUE
  BY <1>1 DEF Bill
<1>3. invoices' = [invoices EXCEPT ![i] = bill]
  BY DEF WithMark
<1> HIDE DEF bill
<1>4. /\ invoices' \in Seq(Bill) /\ DOMAIN invoices' = DOMAIN invoices
      /\ Len(invoices') = Len(invoices) /\ invoices'[i] = bill
      /\ \A j \in DOMAIN invoices : j # i => invoices'[j] = invoices[j]
  <2>1. bill \in Bill /\ i \in DOMAIN invoices /\ invoices \in Seq(Bill)
    BY <1>1, <1>2
  <2>2. QED
    BY <2>1, <1>3, ReplacedBill
<1>5. \A j \in DOMAIN invoices : invoices[j].reminded \in BOOLEAN
  BY <1>1 DEF Bill
<1>6. ASSUME NEW j \in DOMAIN invoices
      PROVE  /\ invoices'[j].lease = invoices[j].lease /\ invoices'[j].month = invoices[j].month
             /\ invoices'[j].number = invoices[j].number
             /\ invoices'[j].reminded = (invoices[j].reminded \/ j = i)
  <2>1. CASE j = i
    BY <2>1, <1>2, <1>4
  <2>2. CASE j # i
    BY <2>2, <1>4, <1>5
  <2>3. QED
    BY <2>1, <2>2
<1>7. QED
  BY <1>4, <1>6 DEF InvoiceIds

\* The moves of the sweep for overdue invoices, and of the reminders.
LEMMA SweepListed ==
    ASSUME NEW g \in Sweeping, NEW left \in SUBSET Numbers, NEW wants \in Seq({"open", "sent"})
    PROVE  /\ [g EXCEPT !.wants = wants, !.left = left] \in Sweeping
           /\ [g EXCEPT !.wants = wants, !.left = left].left = left
BY DEF Sweeping

LEMMA SweepMarked ==
    ASSUME NEW g \in Sweeping, NEW left \in SUBSET Numbers
    PROVE  [g EXCEPT !.left = left] \in Sweeping /\ [g EXCEPT !.left = left].left = left
BY DEF Sweeping

LEMMA ReminderListed ==
    ASSUME NEW g \in Reminding, NEW left \in SUBSET Numbers
    PROVE  /\ [g EXCEPT !.at = "mail", !.left = left] \in Reminding
           /\ [g EXCEPT !.at = "mail", !.left = left].left = left
           /\ [g EXCEPT !.at = "mail", !.left = left].sent = g.sent
           /\ [g EXCEPT !.at = "mail", !.left = left].at = "mail"
BY DEF Reminding

LEMMA ReminderMarked ==
    ASSUME NEW g \in Reminding
    PROVE  /\ [g EXCEPT !.sent = {}] \in Reminding
           /\ [g EXCEPT !.sent = {}].left = g.left
           /\ [g EXCEPT !.sent = {}].sent = {}
           /\ [g EXCEPT !.sent = {}].at = g.at
BY DEF Reminding

LEMMA ReminderSkipped ==
    ASSUME NEW g \in Reminding, NEW left \in SUBSET Numbers
    PROVE  /\ [g EXCEPT !.left = left] \in Reminding
           /\ [g EXCEPT !.left = left].left = left
           /\ [g EXCEPT !.left = left].sent = g.sent
           /\ [g EXCEPT !.left = left].at = g.at
BY DEF Reminding

\* The calls as they begin.
LEMMA NewCalls ==
    ASSUME Typed
    PROVE  /\ [fn |-> "generate", month |-> thisMonth, number |-> counter,
               stored |-> settings = "saved", left |-> Leases, at |-> "look"] \in Generating
           /\ [fn |-> "overdue", now |-> thisMonth, wants |-> <<"open", "sent">>, left |-> {}]
                 \in Sweeping
           /\ [fn |-> "remind", now |-> thisMonth, at |-> "list", left |-> {}, sent |-> {}]
                 \in Reminding
BY LeasesAssumption DEF Typed, Generating, Sweeping, Reminding, LeaseIds

\* What has to be shown of a step in which one call goes on.
LEMMA OneCall ==
    ASSUME Typed, NEW c \in Callers,
           NEW call \in {NoCall} \cup Generating \cup Sweeping \cup Reminding,
           calls' = [calls EXCEPT ![c] = call],
           call.fn \in {"overdue", "remind"} => call.left \subseteq InvoiceIds',
           call.fn = "generate" /\ call.at = "create" => call.left # <<>>,
           invoices' \in Seq(Bill), Len(invoices') <= MaxInvoices, InvoiceIds \subseteq InvoiceIds',
           counter' \in Nat, thisMonth' \in Nat, mails' \in [Numbers -> Nat]
    PROVE  Typed'
<1>1. /\ calls' \in [Callers -> {NoCall} \cup Generating \cup Sweeping \cup Reminding]
      /\ calls'[c] = call
      /\ \A d \in Callers \ {c} : calls'[d] = calls[d]
  BY CallsTyped
<1>2. ASSUME NEW d \in Callers
      PROVE  /\ calls'[d].fn \in {"overdue", "remind"} => calls'[d].left \subseteq InvoiceIds'
             /\ calls'[d].fn = "generate" /\ calls'[d].at = "create" => calls'[d].left # <<>>
  <2>1. CASE d = c
    BY <2>1, <1>1
  <2>2. CASE d # c
    BY <2>2, <1>1 DEF Typed
  <2>3. QED
    BY <2>1, <2>2
<1>3. QED
  BY <1>1, <1>2 DEF Typed

LEMMA OneListCall ==
    ASSUME Typed, NEW c \in Callers, NEW call \in Sweeping \cup Reminding,
           calls' = [calls EXCEPT ![c] = call], call.left \subseteq InvoiceIds,
           invoices' \in Seq(Bill), Len(invoices') <= MaxInvoices, InvoiceIds' = InvoiceIds,
           UNCHANGED <<counter, thisMonth>>, mails' \in [Numbers -> Nat]
    PROVE  Typed'
<1>1. call.fn # "generate"
  BY DEF Sweeping, Reminding
<1>2. QED
  BY <1>1, OneCall DEF Typed

-------------------------------------------------------------------------------
\* What each step of a call does, with the record the call goes on with.

Goes(c, call) == calls' = [calls EXCEPT ![c] = call]

LEMMA LookDoes ==
    ASSUME Typed, NEW c \in Callers, Look(c)
    PROVE  /\ calls[c] \in Generating /\ calls[c].at = "look"
           /\ \E call \in Generating :
                 /\ Goes(c, call) /\ call.number = calls[c].number
                 /\ call.at = "create" =>
                       /\ call.left # <<>>
                       /\ InvoicesOf(Head(call.left), call.month) = {}
           /\ UNCHANGED <<invoices, counter, thisMonth, mails, overlapped, unfinished>>
<1>1. /\ calls[c] \in Generating /\ calls[c].left \in Seq(LeaseIds) /\ calls[c].left # <<>>
      /\ calls[c].at = "look"
  BY CallKinds DEF Look, Generating
<1>2. Tail(calls[c].left) \in Seq(LeaseIds)
  BY <1>1
<1>3. UNCHANGED <<invoices, counter, thisMonth, mails, overlapped, unfinished>>
  BY DEF Look, GoOn
<1>4. CASE InvoicesOf(Head(calls[c].left), calls[c].month) # {}
  <2> DEFINE call == [calls[c] EXCEPT !.left = Tail(calls[c].left)]
  <2>1. Goes(c, call)
    BY <1>4 DEF Look, GoOn, Goes
  <2>2. call \in Generating /\ call.number = calls[c].number /\ call.at = "look"
    BY <1>1, <1>2, RunPasses
  <2> HIDE DEF call
  <2>3. QED
    BY <1>1, <1>3, <2>1, <2>2
<1>5. CASE InvoicesOf(Head(calls[c].left), calls[c].month) = {}
  <2> DEFINE call == [calls[c] EXCEPT !.at = "create"]
  <2>1. Goes(c, call)
    BY <1>5 DEF Look, GoOn, Goes
  <2>2. /\ call \in Generating /\ call.number = calls[c].number
        /\ call.left = calls[c].left /\ call.month = calls[c].month
    BY <1>1, RunFinds
  <2> HIDE DEF call
  <2>3. QED
    BY <1>1, <1>3, <1>5, <2>1, <2>2
<1>6. QED
  BY <1>4, <1>5

LEMMA CreateDoes ==
    ASSUME Typed, NEW c \in Callers, CreateInvoice(c)
    PROVE  /\ calls[c] \in Generating /\ calls[c].at = "create" /\ Len(invoices) < MaxInvoices
           /\ calls[c].number \in Nat
           /\ \E call \in Generating :
                 Goes(c, call) /\ call.number = calls[c].number + 1 /\ call.at = "look"
           /\ \E bill \in Bill :
                 /\ invoices' = Append(invoices, bill)
                 /\ bill.lease = Head(calls[c].left) /\ bill.month = calls[c].month
                 /\ bill.number = calls[c].number
           /\ UNCHANGED <<counter, thisMonth, mails, overlapped, unfinished>>
<1>1. /\ calls[c] \in Generating /\ calls[c].left \in Seq(LeaseIds) /\ calls[c].left # <<>>
      /\ calls[c].number \in Nat /\ calls[c].month \in Nat
      /\ calls[c].at = "create" /\ Len(invoices) < MaxInvoices
  BY CallKinds DEF CreateInvoice, Generating, Typed
<1>2. Tail(calls[c].left) \in Seq(LeaseIds) /\ Head(calls[c].left) \in LeaseIds
  BY <1>1
<1>3. UNCHANGED <<counter, thisMonth, mails, overlapped, unfinished>>
  BY DEF CreateInvoice, GoOn
<1> DEFINE call == [calls[c] EXCEPT !.left = Tail(calls[c].left),
                                    !.number = calls[c].number + 1, !.at = "look"]
           bill == NewInvoice(Head(calls[c].left), calls[c].number, calls[c].month, "sent")
<1>4. Goes(c, call) /\ invoices' = Append(invoices, bill)
  BY DEF CreateInvoice, GoOn, Goes
<1>5. call \in Generating /\ call.number = calls[c].number + 1 /\ call.at = "look"
  BY <1>1, <1>2, RunCreates
<1>6. /\ bill \in Bill /\ bill.lease = Head(calls[c].left) /\ bill.month = calls[c].month
      /\ bill.number = calls[c].number
  BY <1>1, <1>2 DEF NewInvoice, Bill
<1> HIDE DEF call, bill
<1>7. QED
  BY <1>1, <1>3, <1>4, <1>5, <1>6

\* The sweep: it lists, or marks an invoice.
LEMMA SweepDoes ==
    ASSUME Typed, NEW c \in Callers, ListDue(c) \/ MarkOverdue(c)
    PROVE  /\ calls[c] \in Sweeping
           /\ \E call \in Sweeping : Goes(c, call) /\ call.left \subseteq InvoiceIds
           /\ \/ UNCHANGED invoices
              \/ \E i \in InvoiceIds : invoices' = [invoices EXCEPT ![i].status = "overdue"]
           /\ UNCHANGED <<counter, thisMonth, mails, overlapped, unfinished>>
<1>0. InvoiceIds \subseteq Numbers
  BY LeasesAssumption DEF Typed, InvoiceIds, Numbers
<1>1. calls[c] \in Sweeping /\ calls[c].left \subseteq InvoiceIds
  BY CallKinds DEF ListDue, MarkOverdue, Typed
<1>2. UNCHANGED <<counter, thisMonth, mails, overlapped, unfinished>>
  BY DEF ListDue, MarkOverdue, GoOn
<1>3. CASE ListDue(c)
  <2>1. calls[c].wants \in Seq({"open", "sent"}) /\ calls[c].wants # <<>>
    BY <1>1, <1>3 DEF ListDue, Sweeping
  <2>2. Tail(calls[c].wants) \in Seq({"open", "sent"})
    BY <2>1
  <2> DEFINE left == {i \in InvoiceIds : /\ invoices[i].status = Head(calls[c].wants)
                                         /\ invoices[i].due < calls[c].now}
             call == [calls[c] EXCEPT !.wants = Tail(calls[c].wants), !.left = left]
  <2>3. Goes(c, call) /\ UNCHANGED invoices
    BY <1>3 DEF ListDue, GoOn, Goes
  <2>4. left \subseteq InvoiceIds /\ left \in SUBSET Numbers
    BY <1>0
  <2> HIDE DEF left
  <2>5. call \in Sweeping /\ call.left = left
    BY <1>1, <2>2, <2>4, SweepListed
  <2> HIDE DEF call
  <2>6. QED
    BY <1>1, <1>2, <2>3, <2>4, <2>5
<1>4. CASE MarkOverdue(c)
  <2>1. PICK i \in calls[c].left :
           /\ invoices' = [invoices EXCEPT ![i].status = "overdue"]
           /\ Goes(c, [calls[c] EXCEPT !.left = calls[c].left \ {i}])
    BY <1>4 DEF MarkOverdue, GoOn, Goes
  <2> DEFINE left == calls[c].left \ {i}
             call == [calls[c] EXCEPT !.left = left]
  <2>2. left \subseteq InvoiceIds /\ left \in SUBSET Numbers
    BY <1>0, <1>1
  <2>3. Goes(c, call)
    BY <2>1
  <2> HIDE DEF left
  <2>4. call \in Sweeping /\ call.left = left
    BY <1>1, <2>2, SweepMarked
  <2> HIDE DEF call
  <2>5. QED
    BY <1>1, <1>2, <2>1, <2>2, <2>3, <2>4
<1>5. QED
  BY <1>3, <1>4

\* The reminders: the list, the mail, the mark and what is skipped.
LEMMA ListRemindersDoes ==
    ASSUME Typed, NEW c \in Callers, ListReminders(c)
    PROVE  /\ calls[c] \in Reminding /\ calls[c].at = "list"
           /\ \E call \in Reminding :
                 /\ Goes(c, call) /\ call.at = "mail" /\ call.sent = calls[c].sent
                 /\ call.left \subseteq {i \in InvoiceIds : ~invoices[i].reminded}
           /\ UNCHANGED <<invoices, counter, thisMonth, mails, overlapped, unfinished>>
<1>0. InvoiceIds \subseteq Numbers
  BY LeasesAssumption DEF Typed, InvoiceIds, Numbers
<1>1. calls[c] \in Reminding /\ calls[c].at = "list"
  BY CallKinds DEF ListReminders
<1>2. UNCHANGED <<invoices, counter, thisMonth, mails, overlapped, unfinished>>
  BY DEF ListReminders, GoOn
<1> DEFINE left == {i \in ToBeReminded : invoices[i].due < calls[c].now}
           call == [calls[c] EXCEPT !.at = "mail", !.left = left]
<1>3. Goes(c, call)
  BY DEF ListReminders, GoOn, Goes
<1>4. left \subseteq {i \in InvoiceIds : ~invoices[i].reminded} /\ left \in SUBSET Numbers
  BY <1>0 DEF ToBeReminded
<1> HIDE DEF left
<1>5. call \in Reminding /\ call.at = "mail" /\ call.sent = calls[c].sent /\ call.left = left
  BY <1>1, <1>4, ReminderListed
<1> HIDE DEF call
<1>6. QED
  BY <1>1, <1>2, <1>3, <1>4, <1>5

LEMMA MailDoes ==
    ASSUME Typed, NEW c \in Callers, Mail(c)
    PROVE  /\ calls[c] \in Reminding /\ calls[c].left \subseteq InvoiceIds /\ calls[c].sent = {}
           /\ \E i \in calls[c].left :
                 /\ mails' = [mails EXCEPT ![i] = mails[i] + 1]
                 /\ \E call \in Reminding :
                       /\ Goes(c, call) /\ call.at = calls[c].at /\ call.sent = {i}
                       /\ call.left = calls[c].left \ {i}
           /\ UNCHANGED <<invoices, counter, thisMonth, overlapped, unfinished>>
<1>0. InvoiceIds \subseteq Numbers
  BY LeasesAssumption DEF Typed, InvoiceIds, Numbers
<1>1. calls[c] \in Reminding /\ calls[c].left \subseteq InvoiceIds /\ calls[c].sent = {}
  BY CallKinds DEF Mail, Typed
<1>2. UNCHANGED <<invoices, counter, thisMonth, overlapped, unfinished>>
  BY DEF Mail, GoOn
<1>3. PICK i \in calls[c].left :
         /\ mails' = [mails EXCEPT ![i] = mails[i] + 1]
         /\ Goes(c, [calls[c] EXCEPT !.left = calls[c].left \ {i}, !.sent = {i}])
  BY DEF Mail, GoOn, Goes
<1> DEFINE left == calls[c].left \ {i}
           sent == {i}
           call == [calls[c] EXCEPT !.left = left, !.sent = sent]
<1>4. left \in SUBSET Numbers /\ sent \in SUBSET Numbers
  BY <1>0, <1>1
<1>5. Goes(c, call) /\ left = calls[c].left \ {i} /\ sent = {i}
  BY <1>3
<1> HIDE DEF left, sent
<1>6. call \in Reminding /\ call.at = calls[c].at /\ call.sent = sent /\ call.left = left
  BY <1>1, <1>4 DEF Reminding
<1> HIDE DEF call
<1>7. QED
  BY <1>1, <1>2, <1>3, <1>5, <1>6

LEMMA MarkDoes ==
    ASSUME Typed, NEW c \in Callers, MarkReminded(c)
    PROVE  /\ calls[c] \in Reminding
           /\ \E i \in calls[c].sent : invoices' = WithMark(i)
           /\ \E call \in Reminding :
                 /\ Goes(c, call) /\ call.at = calls[c].at /\ call.sent = {}
                 /\ call.left = calls[c].left
           /\ UNCHANGED <<counter, thisMonth, mails, overlapped, unfinished>>
<1>1. calls[c] \in Reminding
  BY CallKinds DEF MarkReminded
<1>2. /\ UNCHANGED <<counter, thisMonth, mails, overlapped, unfinished>>
      /\ \E i \in calls[c].sent : invoices' = WithMark(i)
  BY DEF MarkReminded, GoOn, WithMark
<1> DEFINE call == [calls[c] EXCEPT !.sent = {}]
<1>3. Goes(c, call)
  BY DEF MarkReminded, GoOn, Goes
<1>4. /\ call \in Reminding /\ call.at = calls[c].at /\ call.sent = {}
      /\ call.left = calls[c].left
  BY <1>1, ReminderMarked
<1> HIDE DEF call
<1>5. QED
  BY <1>1, <1>2, <1>3, <1>4

LEMMA SkipDoes ==
    ASSUME Typed, NEW c \in Callers, SkipInvoice(c)
    PROVE  /\ calls[c] \in Reminding
           /\ unfinished \subseteq unfinished'
           /\ \E call \in Reminding :
                 /\ Goes(c, call) /\ call.at = calls[c].at
                 /\ call.left \subseteq calls[c].left
                 /\ "remind" \in unfinished' \/ call.sent = calls[c].sent
           /\ UNCHANGED <<invoices, counter, thisMonth, mails, overlapped>>
<1>0. InvoiceIds \subseteq Numbers
  BY LeasesAssumption DEF Typed, InvoiceIds, Numbers
<1>1. calls[c] \in Reminding /\ calls[c].left \subseteq InvoiceIds
  BY CallKinds DEF SkipInvoice, Typed
<1>2. /\ UNCHANGED <<invoices, counter, thisMonth, mails, overlapped>>
      /\ unfinished \subseteq unfinished'
  BY DEF SkipInvoice
<1>3. CASE "remind" \in unfinished' /\ calls' = [calls EXCEPT ![c].sent = {}]
  <2> DEFINE call == [calls[c] EXCEPT !.sent = {}]
  <2>1. Goes(c, call)
    BY <1>3 DEF Goes
  <2>2. call \in Reminding /\ call.at = calls[c].at /\ call.left = calls[c].left
    BY <1>1, ReminderMarked
  <2> HIDE DEF call
  <2>3. QED
    BY <1>1, <1>2, <1>3, <2>1, <2>2
<1>4. CASE \E i \in calls[c].left : calls' = [calls EXCEPT ![c].left = @ \ {i}]
  <2>1. PICK i \in calls[c].left : Goes(c, [calls[c] EXCEPT !.left = calls[c].left \ {i}])
    BY <1>4 DEF Goes
  <2> DEFINE left == calls[c].left \ {i}
             call == [calls[c] EXCEPT !.left = left]
  <2>2. left \in SUBSET Numbers /\ left \subseteq calls[c].left
    BY <1>0, <1>1
  <2>3. Goes(c, call)
    BY <2>1
  <2> HIDE DEF left
  <2>4. call \in Reminding /\ call.at = calls[c].at /\ call.sent = calls[c].sent
        /\ call.left = left
    BY <1>1, <2>2, ReminderSkipped
  <2> HIDE DEF call
  <2>5. QED
    BY <1>1, <1>2, <2>2, <2>3, <2>4
<1>5. QED
  BY <1>3, <1>4 DEF SkipInvoice

-------------------------------------------------------------------------------
THEOREM TypedInit ==
    BillingInit => Typed
<1>1. NoCall.fn \notin {"generate", "overdue", "remind"}
  BY DEF NoCall
<1>2. QED
  BY <1>1, LeasesAssumption DEF BillingInit, Typed, Numbers

\* Every step keeps the types.
THEOREM TypedStep ==
    Typed /\ [BillingNext]_billingVars => Typed'
<1> SUFFICES ASSUME Typed, [BillingNext]_billingVars
             PROVE  Typed'
  OBVIOUS
<1>0. /\ invoices \in Seq(Bill) /\ Len(invoices) <= MaxInvoices /\ InvoiceIds \subseteq Numbers
      /\ counter \in Nat /\ thisMonth \in Nat /\ thisMonth + 1 \in Nat
      /\ mails \in [Numbers -> Nat] /\ MaxInvoices \in Nat
  BY LeasesAssumption DEF Typed, InvoiceIds, Numbers
<1>1. UNCHANGED invoices => /\ invoices' \in Seq(Bill) /\ Len(invoices') <= MaxInvoices
                            /\ InvoiceIds' = InvoiceIds
  BY <1>0 DEF InvoiceIds
<1>2. ASSUME NEW c \in Callers, Generate(c)
      PROVE  Typed'
  <2> DEFINE call == [fn |-> "generate", month |-> thisMonth, number |-> counter,
                      stored |-> settings = "saved", left |-> Leases, at |-> "look"]
  <2>1. call \in Generating /\ call.at = "look" /\ call.fn = "generate"
    BY NewCalls
  <2>2. Goes(c, call) /\ UNCHANGED <<invoices, counter, thisMonth, mails>>
    BY <1>2 DEF Generate, BeginCall, Goes
  <2> HIDE DEF call
  <2>3. QED
    BY <1>0, <1>1, <2>1, <2>2, OneCall DEF Goes
<1>3. ASSUME NEW c \in Callers, Look(c)
      PROVE  Typed'
  <2>1. PICK call \in Generating : Goes(c, call) /\ (call.at = "create" => call.left # <<>>)
    BY <1>3, LookDoes
  <2>2. UNCHANGED <<invoices, counter, thisMonth, mails>> /\ call.fn = "generate"
    BY <1>3, LookDoes DEF Generating
  <2>3. QED
    BY <1>0, <1>1, <2>1, <2>2, OneCall DEF Goes
<1>4. ASSUME NEW c \in Callers, CreateInvoice(c)
      PROVE  Typed'
  <2>1. PICK call \in Generating : Goes(c, call) /\ call.at = "look"
    BY <1>4, CreateDoes
  <2>2. PICK bill \in Bill : invoices' = Append(invoices, bill)
    BY <1>4, CreateDoes
  <2>3. /\ UNCHANGED <<counter, thisMonth, mails>> /\ Len(invoices) < MaxInvoices
        /\ call.fn = "generate"
    BY <1>4, CreateDoes DEF Generating
  <2>4. /\ invoices' \in Seq(Bill) /\ Len(invoices') <= MaxInvoices
        /\ InvoiceIds \subseteq InvoiceIds'
    BY <1>0, <2>2, <2>3, AddedBill DEF InvoiceIds
  <2>5. QED
    BY <1>0, <2>1, <2>3, <2>4, OneCall DEF Goes
<1>5. ASSUME NEW c \in Callers, Count(c)
      PROVE  Typed'
  <2>1. calls[c].number \in Nat
    BY <1>5, CallKinds DEF Count, Generating
  <2>2. NoCall.fn \notin {"generate", "overdue", "remind"}
    BY DEF NoCall
  <2>3. /\ counter' \in {calls[c].number, counter} /\ Goes(c, NoCall)
        /\ UNCHANGED <<invoices, thisMonth, mails>>
    BY <1>5 DEF Count, Goes
  <2>4. QED
    BY <1>0, <1>1, <2>1, <2>2, <2>3, OneCall DEF Goes
<1>6. ASSUME NEW c \in Callers, Overdue(c)
      PROVE  Typed'
  <2> DEFINE call == [fn |-> "overdue", now |-> thisMonth, wants |-> <<"open", "sent">>,
                      left |-> {}]
  <2>1. call \in Sweeping /\ call.left \subseteq InvoiceIds
    BY NewCalls
  <2>2. Goes(c, call) /\ UNCHANGED <<invoices, counter, thisMonth, mails>>
    BY <1>6 DEF Overdue, BeginCall, Goes
  <2> HIDE DEF call
  <2>3. QED
    BY <1>0, <1>1, <2>1, <2>2, OneListCall DEF Goes
<1>7. ASSUME NEW c \in Callers, ListDue(c) \/ MarkOverdue(c)
      PROVE  Typed'
  <2>1. PICK call \in Sweeping : Goes(c, call) /\ call.left \subseteq InvoiceIds
    BY <1>7, SweepDoes
  <2>2. /\ UNCHANGED <<counter, thisMonth, mails>>
        /\ \/ UNCHANGED invoices
           \/ \E i \in InvoiceIds : invoices' = [invoices EXCEPT ![i].status = "overdue"]
    BY <1>7, SweepDoes
  <2>3. invoices' \in Seq(Bill) /\ Len(invoices') <= MaxInvoices /\ InvoiceIds' = InvoiceIds
    BY <1>0, <1>1, <2>2, Stated
  <2>4. QED
    BY <1>0, <2>1, <2>2, <2>3, OneListCall DEF Goes
<1>8. ASSUME NEW c \in Callers, Remind(c)
      PROVE  Typed'
  <2> DEFINE call == [fn |-> "remind", now |-> thisMonth, at |-> "list", left |-> {},
                      sent |-> {}]
  <2>1. call \in Reminding /\ call.left \subseteq InvoiceIds
    BY NewCalls
  <2>2. Goes(c, call) /\ UNCHANGED <<invoices, counter, thisMonth, mails>>
    BY <1>8 DEF Remind, BeginCall, Goes
  <2> HIDE DEF call
  <2>3. QED
    BY <1>0, <1>1, <2>1, <2>2, OneListCall DEF Goes
<1>9. ASSUME NEW c \in Callers, ListReminders(c)
      PROVE  Typed'
  <2>1. PICK call \in Reminding : Goes(c, call) /\ call.left \subseteq InvoiceIds
    BY <1>9, ListRemindersDoes
  <2>2. UNCHANGED <<invoices, counter, thisMonth, mails>>
    BY <1>9, ListRemindersDoes
  <2>3. QED
    BY <1>0, <1>1, <2>1, <2>2, OneListCall DEF Goes
<1>10. ASSUME NEW c \in Callers, Mail(c)
       PROVE  Typed'
  <2>1. calls[c].left \subseteq InvoiceIds /\ UNCHANGED <<invoices, counter, thisMonth>>
    BY <1>10, MailDoes
  <2>2. PICK i \in calls[c].left :
           /\ mails' = [mails EXCEPT ![i] = mails[i] + 1]
           /\ \E call \in Reminding : Goes(c, call) /\ call.left = calls[c].left \ {i}
    BY <1>10, MailDoes
  <2>3. PICK call \in Reminding : Goes(c, call) /\ call.left \subseteq InvoiceIds
    BY <2>1, <2>2
  <2>4. mails' \in [Numbers -> Nat]
    BY <1>0, <2>1, <2>2
  <2>5. QED
    BY <1>0, <1>1, <2>1, <2>3, <2>4, OneListCall DEF Goes
<1>11. ASSUME NEW c \in Callers, MarkReminded(c)
       PROVE  Typed'
  <2>1. PICK call \in Reminding : Goes(c, call) /\ call.left = calls[c].left
    BY <1>11, MarkDoes
  <2>2. PICK i \in calls[c].sent : invoices' = WithMark(i)
    BY <1>11, MarkDoes
  <2>3. /\ UNCHANGED <<counter, thisMonth, mails>> /\ calls[c] \in Reminding
        /\ calls[c].left \subseteq InvoiceIds
    BY <1>11, MarkDoes DEF Typed, Reminding
  <2>4. CASE i \in InvoiceIds
    BY <1>0, <2>1, <2>2, <2>3, <2>4, Marked, OneListCall DEF Goes
  <2>5. CASE i \notin InvoiceIds
    <3>1. UNCHANGED invoices
      BY <1>0, <2>2, <2>5 DEF InvoiceIds, WithMark
    <3>2. QED
      BY <1>0, <1>1, <2>1, <2>3, <3>1, OneListCall DEF Goes
  <2>6. QED
    BY <2>4, <2>5
<1>12. ASSUME NEW c \in Callers, SkipInvoice(c)
       PROVE  Typed'
  <2>1. PICK call \in Reminding : Goes(c, call) /\ call.left \subseteq calls[c].left
    BY <1>12, SkipDoes
  <2>2. /\ UNCHANGED <<invoices, counter, thisMonth, mails>> /\ calls[c] \in Reminding
        /\ calls[c].left \subseteq InvoiceIds
    BY <1>12, SkipDoes DEF Typed, Reminding
  <2>3. QED
    BY <1>0, <1>1, <2>1, <2>2, OneListCall DEF Goes
<1>13. ASSUME NEW c \in Callers, Return(c) \/ Break(c)
       PROVE  Typed'
  <2>1. NoCall.fn \notin {"generate", "overdue", "remind"}
    BY DEF NoCall
  <2>2. Goes(c, NoCall) /\ UNCHANGED <<invoices, counter, thisMonth, mails>>
    BY <1>13 DEF Return, Break, GoOn, Goes
  <2>3. QED
    BY <1>0, <1>1, <2>1, <2>2, OneCall DEF Goes
<1>14. CASE CreateByHand
  <2> PICK number \in TypedNumbers :
         invoices' = Append(invoices, NewInvoice(None, number, thisMonth, "open"))
    BY <1>14 DEF CreateByHand
  <2>1. NewInvoice(None, number, thisMonth, "open") \in Bill
    BY <1>0, LeasesAssumption DEF NewInvoice, Bill
  <2>2. /\ invoices' \in Seq(Bill) /\ Len(invoices') <= MaxInvoices
        /\ InvoiceIds \subseteq InvoiceIds'
    BY <1>0, <1>14, <2>1, AddedBill DEF CreateByHand, InvoiceIds
  <2>3. QED
    BY <1>14, <2>2 DEF CreateByHand, Typed
<1>15. ASSUME NEW i \in InvoiceIds, SetStatus(i)
       PROVE  Typed'
  <2>1. PICK status \in Statuses : invoices' = [invoices EXCEPT ![i].status = status]
    BY <1>15 DEF SetStatus
  <2>2. UNCHANGED <<counter, thisMonth, calls, mails>>
    BY <1>15 DEF SetStatus
  <2>3. invoices' \in Seq(Bill) /\ Len(invoices') <= MaxInvoices /\ InvoiceIds' = InvoiceIds
    BY <1>0, <2>1, Stated
  <2>4. QED
    BY <2>2, <2>3 DEF Typed
<1>16. CASE SaveSettings \/ NextMonth
  BY <1>0, <1>16 DEF SaveSettings, NextMonth, Typed, InvoiceIds
<1>17. CASE UNCHANGED billingVars
  BY <1>17 DEF billingVars, Typed, InvoiceIds
<1>18. QED
  BY <1>2, <1>3, <1>4, <1>5, <1>6, <1>7, <1>8, <1>9, <1>10, <1>11, <1>12, <1>13, <1>14,
     <1>15, <1>16, <1>17 DEF BillingNext, BillingRest

-------------------------------------------------------------------------------
\* A step that is none of a month's run: the invoices keep their leases, months and
\* numbers, those it adds are of no lease, and no run moves, unless it breaks off.
LEMMA Aside ==
    ASSUME Billed,
           \A c \in Callers : calls'[c].fn = "generate" => calls'[c] = calls[c],
           \/ "generate" \in unfinished'
           \/ \A c \in Callers : calls[c].fn = "generate" => calls'[c] = calls[c],
           InvoiceIds \subseteq InvoiceIds',
           \A i \in InvoiceIds : /\ invoices'[i].lease = invoices[i].lease
                                 /\ invoices'[i].month = invoices[i].month
                                 /\ invoices'[i].number = invoices[i].number,
           \A i \in InvoiceIds' \ InvoiceIds : invoices'[i].lease = None,
           counter' = counter, overlapped \subseteq overlapped', unfinished \subseteq unfinished'
    PROVE  Alone("generate")' /\ OnePerMonth' /\ NumbersBelow' /\ LeasesNumbered'
<1>1. Alone("generate")'
  BY DEF Billed, Alone
<1>2. LeasesNumbered'
  BY DEF Billed, LeasesNumbered
<1>3. OnePerMonth'
  <2> SUFFICES ASSUME "generate" \notin overlapped'
               PROVE  OnePerMonth'
    BY DEF OnePerMonth
  <2>1. ASSUME NEW i \in InvoiceIds', NEW j \in InvoiceIds', i # j, invoices'[i].lease # None
        PROVE  <<invoices'[i].lease, invoices'[i].month>>
               # <<invoices'[j].lease, invoices'[j].month>>
    <3>1. i \in InvoiceIds
      BY <2>1
    <3>2. CASE j \in InvoiceIds
      BY <2>1, <3>1, <3>2 DEF Billed, OnePerMonth
    <3>3. CASE j \notin InvoiceIds
      BY <2>1, <3>3
    <3>4. QED
      BY <3>2, <3>3
  <2>2. ASSUME NEW c \in Callers, calls'[c].fn = "generate", calls'[c].at = "create"
        PROVE  InvoicesOf(Head(calls[c].left), calls[c].month)' = {}
    <3>1. calls'[c] = calls[c] /\ InvoicesOf(Head(calls[c].left), calls[c].month) = {}
      BY <2>2 DEF Billed, OnePerMonth
    <3>2. Head(calls[c].left) # None
      <4>1. calls[c] \in Generating /\ calls[c].left # <<>>
        BY <2>2, <3>1, CallKinds DEF Billed, Typed
      <4>2. calls[c].left \in Seq(LeaseIds)
        BY <4>1 DEF Generating
      <4>3. Head(calls[c].left) \in LeaseIds
        BY <4>1, <4>2
      <4>4. QED
        BY <4>3, LeasesAssumption DEF LeaseIds
    <3>3. ASSUME NEW i \in InvoiceIds'
          PROVE  ~(invoices'[i].lease = Head(calls[c].left) /\ invoices'[i].month = calls[c].month)
      BY <3>1, <3>2 DEF InvoicesOf
    <3>4. QED
      BY <3>1, <3>3 DEF InvoicesOf
  <2>3. QED
    BY <2>1, <2>2 DEF OnePerMonth
<1>4. NumbersBelow'
  <2> SUFFICES ASSUME {"generate"} \cap (overlapped' \cup unfinished') = {}
               PROVE  NumbersBelow'
    BY DEF NumbersBelow
  <2>1. {"generate"} \cap (overlapped \cup unfinished) = {}
    OBVIOUS
  <2>2. \A c \in Callers : calls[c].fn = "generate" \/ calls'[c].fn = "generate"
                              => calls'[c] = calls[c]
    OBVIOUS
  <2>3. \A i, j \in InvoiceIds' :
              i # j /\ None \notin {invoices'[i].lease, invoices'[j].lease} =>
                 invoices'[i].number # invoices'[j].number
    BY <2>1 DEF Billed, NumbersBelow
  <2>4. \A c \in Callers : calls'[c].fn = "generate" =>
              \A i \in InvoiceIds' : invoices'[i].lease # None =>
                    invoices'[i].number < calls'[c].number
    BY <2>1, <2>2 DEF Billed, NumbersBelow
  <2>5. (\A c \in Callers : calls'[c].fn # "generate") =>
              \A i \in InvoiceIds' : invoices'[i].lease # None => invoices'[i].number < counter'
    BY <2>1, <2>2 DEF Billed, NumbersBelow
  <2>6. QED
    BY <2>3, <2>4, <2>5 DEF NumbersBelow
<1>5. QED
  BY <1>1, <1>2, <1>3, <1>4

\* A month's run begins where none is under way, or counts as an overlap.
LEMMA GenerateBills ==
    ASSUME Billed, NEW c \in Callers, Generate(c)
    PROVE  Alone("generate")' /\ OnePerMonth' /\ NumbersBelow' /\ LeasesNumbered'
<1> DEFINE call == [fn |-> "generate", month |-> thisMonth, number |-> counter,
                    stored |-> settings = "saved", left |-> Leases, at |-> "look"]
<1>1. Typed /\ Alone("generate") /\ OnePerMonth /\ NumbersBelow /\ LeasesNumbered
  BY DEF Billed
<1>2. /\ Goes(c, call) /\ call.fn = "generate"
      /\ UNCHANGED <<invoices, counter, unfinished>>
      /\ overlapped' = IF \E e \in Callers : calls[e].fn = "generate"
                       THEN overlapped \cup {"generate"} ELSE overlapped
  BY DEF Generate, BeginCall, Goes
<1>3. call \in Generating /\ call.at = "look" /\ call.number = counter
  BY <1>1, NewCalls
<1> HIDE DEF call
<1>4. calls'[c] = call /\ \A d \in Callers \ {c} : calls'[d] = calls[d]
  BY <1>1, <1>2, <1>3, CallsTyped DEF Goes
<1>5. /\ overlapped \subseteq overlapped' /\ InvoiceIds' = InvoiceIds
      /\ "generate" \notin overlapped' => \A e \in Callers : calls[e].fn # "generate"
  BY <1>2 DEF InvoiceIds
<1>6. LeasesNumbered'
  BY <1>1, <1>2, <1>5 DEF LeasesNumbered
<1>7. Alone("generate")'
  BY <1>4, <1>5 DEF Alone
<1>8. OnePerMonth'
  BY <1>1, <1>2, <1>3, <1>4, <1>5 DEF OnePerMonth
<1>9. NumbersBelow'
  BY <1>1, <1>2, <1>3, <1>4, <1>5 DEF NumbersBelow
<1>10. QED
  BY <1>6, <1>7, <1>8, <1>9

LEMMA LookBills ==
    ASSUME Billed, NEW c \in Callers, Look(c)
    PROVE  Alone("generate")' /\ OnePerMonth' /\ NumbersBelow' /\ LeasesNumbered'
<1>1. Typed /\ Alone("generate") /\ OnePerMonth /\ NumbersBelow /\ LeasesNumbered
  BY DEF Billed
<1>2. PICK call \in Generating :
         /\ Goes(c, call) /\ call.number = calls[c].number
         /\ call.at = "create" =>
               call.left # <<>> /\ InvoicesOf(Head(call.left), call.month) = {}
  BY <1>1, LookDoes
<1>3. /\ UNCHANGED <<invoices, counter, overlapped, unfinished>> /\ InvoiceIds' = InvoiceIds
      /\ calls[c].fn = "generate" /\ call.fn = "generate"
  BY <1>1, LookDoes DEF InvoiceIds, Generating
<1>4. calls'[c] = call /\ \A d \in Callers \ {c} : calls'[d] = calls[d]
  BY <1>1, <1>2, CallsTyped DEF Goes
<1>5. LeasesNumbered'
  BY <1>1, <1>3 DEF LeasesNumbered
<1>6. Alone("generate")'
  BY <1>1, <1>3, <1>4 DEF Alone
<1>7. \A lease, month : InvoicesOf(lease, month)' = InvoicesOf(lease, month)
  BY <1>3 DEF InvoicesOf
<1>8. OnePerMonth'
  BY <1>1, <1>2, <1>3, <1>4, <1>7 DEF OnePerMonth
<1>9. NumbersBelow'
  BY <1>1, <1>2, <1>3, <1>4 DEF NumbersBelow
<1>10. QED
  BY <1>5, <1>6, <1>8, <1>9

LEMMA CreateBills ==
    ASSUME Billed, NEW c \in Callers, CreateInvoice(c)
    PROVE  Alone("generate")' /\ OnePerMonth' /\ NumbersBelow' /\ LeasesNumbered'
<1>1. Typed /\ Alone("generate") /\ OnePerMonth /\ NumbersBelow /\ LeasesNumbered
  BY DEF Billed
<1>2. PICK call \in Generating :
         Goes(c, call) /\ call.number = calls[c].number + 1 /\ call.at = "look"
  BY <1>1, CreateDoes
<1>3. PICK bill \in Bill :
         /\ invoices' = Append(invoices, bill)
         /\ bill.lease = Head(calls[c].left) /\ bill.month = calls[c].month
         /\ bill.number = calls[c].number
  BY <1>1, CreateDoes
<1>4. /\ UNCHANGED <<counter, overlapped, unfinished>>
      /\ calls[c].fn = "generate" /\ calls[c].at = "create" /\ call.fn = "generate"
      /\ calls[c].number \in Nat
  BY <1>1, CreateDoes DEF Generating
<1> DEFINE new == Len(invoices) + 1
<1>5. /\ InvoiceIds' = InvoiceIds \cup {new} /\ new \notin InvoiceIds /\ invoices'[new] = bill
      /\ \A i \in InvoiceIds : invoices'[i] = invoices[i]
  BY <1>1, <1>3, AddedBill DEF Typed, InvoiceIds
<1> HIDE DEF new
<1>6. calls'[c] = call /\ \A d \in Callers \ {c} : calls'[d] = calls[d]
  BY <1>1, <1>2, CallsTyped DEF Goes
<1>7. bill.number # None
  BY <1>3, <1>4, NoneAssumption
<1>8. LeasesNumbered'
  BY <1>1, <1>5, <1>7 DEF LeasesNumbered
<1>9. Alone("generate")'
  BY <1>1, <1>4, <1>6 DEF Alone
<1>10. OnePerMonth'
  <2> SUFFICES ASSUME "generate" \notin overlapped
               PROVE  OnePerMonth'
    BY <1>4 DEF OnePerMonth
  <2>1. InvoicesOf(bill.lease, bill.month) = {}
    BY <1>1, <1>3, <1>4 DEF OnePerMonth
  <2>2. \A i \in InvoiceIds : ~(invoices[i].lease = bill.lease /\ invoices[i].month = bill.month)
    BY <2>1 DEF InvoicesOf
  <2>3. \A i, j \in InvoiceIds : i # j /\ invoices[i].lease # None =>
           <<invoices[i].lease, invoices[i].month>> # <<invoices[j].lease, invoices[j].month>>
    BY <1>1 DEF OnePerMonth
  <2>4. \A i, j \in InvoiceIds' : i # j /\ invoices'[i].lease # None =>
           <<invoices'[i].lease, invoices'[i].month>> # <<invoices'[j].lease, invoices'[j].month>>
    BY <1>5, <2>2, <2>3
  <2>5. \A d \in Callers : ~(calls'[d].fn = "generate" /\ calls'[d].at = "create")
    BY <1>1, <1>2, <1>4, <1>6 DEF Alone
  <2>6. QED
    BY <2>4, <2>5 DEF OnePerMonth
<1>11. NumbersBelow'
  <2> SUFFICES ASSUME {"generate"} \cap (overlapped \cup unfinished) = {}
               PROVE  NumbersBelow'
    BY <1>4 DEF NumbersBelow
  <2>1. \A i \in InvoiceIds : invoices[i].lease # None => invoices[i].number < bill.number
    BY <1>1, <1>3, <1>4 DEF NumbersBelow
  <2>2. \A i \in InvoiceIds : invoices[i].lease # None => invoices[i].number \in Nat
    <3>1. \A i \in InvoiceIds : invoices[i] \in Bill
      BY <1>1 DEF Typed, InvoiceIds
    <3>2. QED
      BY <1>1, <3>1 DEF Bill, LeasesNumbered
  <2>3. ASSUME NEW i \in InvoiceIds', NEW j \in InvoiceIds', i # j,
               invoices'[i].lease # None, invoices'[j].lease # None
        PROVE  invoices'[i].number # invoices'[j].number
    <3>1. CASE i = new
      <4>1. j \in InvoiceIds /\ invoices'[j] = invoices[j] /\ invoices'[i] = bill
        BY <1>5, <2>3, <3>1
      <4>2. QED
        BY <1>3, <1>4, <2>1, <2>2, <2>3, <4>1
    <3>2. CASE j = new
      <4>1. i \in InvoiceIds /\ invoices'[i] = invoices[i] /\ invoices'[j] = bill
        BY <1>5, <2>3, <3>2
      <4>2. QED
        BY <1>3, <1>4, <2>1, <2>2, <2>3, <4>1
    <3>3. CASE i # new /\ j # new
      BY <1>1, <1>5, <2>3, <3>3 DEF NumbersBelow
    <3>4. QED
      BY <3>1, <3>2, <3>3
  <2>4. ASSUME NEW i \in InvoiceIds', invoices'[i].lease # None
        PROVE  invoices'[i].number < call.number
    <3>1. CASE i = new
      <4>1. /\ invoices'[i].number = calls[c].number /\ call.number = calls[c].number + 1
            /\ calls[c].number \in Nat
        BY <1>2, <1>3, <1>4, <1>5, <3>1
      <4>2. QED
        BY <4>1
    <3>2. CASE i # new
      <4>1. i \in InvoiceIds /\ invoices'[i] = invoices[i]
        BY <1>5, <3>2
      <4>2. QED
        BY <1>2, <1>3, <1>4, <2>1, <2>2, <2>4, <4>1
    <3>3. QED
      BY <3>1, <3>2
  <2>5. \A d \in Callers : calls'[d].fn = "generate" => d = c
    BY <1>1, <1>4, <1>6 DEF Alone
  <2>6. QED
    BY <1>4, <1>6, <2>3, <2>4, <2>5 DEF NumbersBelow
<1>12. QED
  BY <1>8, <1>9, <1>10, <1>11

\* The counter that is stored lies above every number of the run; or it is lost.
LEMMA CountBills ==
    ASSUME Billed, NEW c \in Callers, Count(c)
    PROVE  Alone("generate")' /\ OnePerMonth' /\ NumbersBelow' /\ LeasesNumbered'
<1>1. Typed /\ Alone("generate") /\ OnePerMonth /\ NumbersBelow /\ LeasesNumbered
  BY DEF Billed
<1>2. /\ calls[c].fn = "generate" /\ Goes(c, NoCall)
      /\ UNCHANGED <<invoices, overlapped>> /\ NoCall.fn # "generate"
      /\ InvoiceIds' = InvoiceIds /\ unfinished \subseteq unfinished'
      /\ "generate" \notin unfinished' => counter' = calls[c].number
  BY DEF Count, Goes, NoCall, InvoiceIds
<1>3. calls'[c] = NoCall /\ \A d \in Callers \ {c} : calls'[d] = calls[d]
  BY <1>1, <1>2, CallsTyped DEF Goes
<1>4. LeasesNumbered'
  BY <1>1, <1>2 DEF LeasesNumbered
<1>5. Alone("generate")'
  BY <1>1, <1>2, <1>3 DEF Alone
<1>6. \A lease, month : InvoicesOf(lease, month)' = InvoicesOf(lease, month)
  BY <1>2 DEF InvoicesOf
<1>7. OnePerMonth'
  BY <1>1, <1>2, <1>3, <1>6 DEF OnePerMonth
<1>8. NumbersBelow'
  <2> SUFFICES ASSUME {"generate"} \cap (overlapped' \cup unfinished') = {}
               PROVE  NumbersBelow'
    BY DEF NumbersBelow
  <2>1. \A d \in Callers : calls'[d].fn # "generate"
    BY <1>1, <1>2, <1>3 DEF Alone
  <2>2. QED
    BY <1>1, <1>2, <2>1 DEF NumbersBelow
<1>9. QED
  BY <1>4, <1>5, <1>7, <1>8

\* What the steps of the other functions, the administrator and the calendar leave alone.
LEMMA OtherSteps ==
    ASSUME Typed,
           \/ \E c \in Callers :
                 \/ Overdue(c) \/ ListDue(c) \/ MarkOverdue(c) \/ Remind(c) \/ ListReminders(c)
                 \/ Mail(c) \/ MarkReminded(c) \/ SkipInvoice(c) \/ Return(c) \/ Break(c)
           \/ CreateByHand \/ SaveSettings \/ NextMonth \/ UNCHANGED billingVars
           \/ \E i \in InvoiceIds : SetStatus(i)
    PROVE  /\ InvoiceIds \subseteq InvoiceIds'
           /\ \A i \in InvoiceIds : /\ invoices'[i].lease = invoices[i].lease
                                    /\ invoices'[i].month = invoices[i].month
                                    /\ invoices'[i].number = invoices[i].number
           /\ \A i \in InvoiceIds' \ InvoiceIds : invoices'[i].lease = None
           /\ counter' = counter
           /\ overlapped \subseteq overlapped' /\ unfinished \subseteq unfinished'
           /\ \A c \in Callers : calls'[c].fn = "generate" => calls'[c] = calls[c]
           /\ \/ "generate" \in unfinished'
              \/ \A c \in Callers : calls[c].fn = "generate" => calls'[c] = calls[c]
<1> DEFINE Bills == /\ InvoiceIds \subseteq InvoiceIds'
                    /\ \A i \in InvoiceIds : /\ invoices'[i].lease = invoices[i].lease
                                             /\ invoices'[i].month = invoices[i].month
                                             /\ invoices'[i].number = invoices[i].number
                    /\ \A i \in InvoiceIds' \ InvoiceIds : invoices'[i].lease = None
           Rest == /\ counter' = counter
                   /\ overlapped \subseteq overlapped' /\ unfinished \subseteq unfinished'
           Unmoved == /\ \A c \in Callers : calls'[c].fn = "generate" => calls'[c] = calls[c]
                      /\ \/ "generate" \in unfinished'
                         \/ \A c \in Callers : calls[c].fn = "generate" => calls'[c] = calls[c]
<1> SUFFICES Bills /\ Rest /\ Unmoved
  OBVIOUS
<1>1. UNCHANGED invoices => Bills
  BY DEF InvoiceIds
<1>2. UNCHANGED calls => Unmoved
  OBVIOUS
<1>3. ASSUME NEW c \in Callers, NEW call \in {NoCall} \cup Sweeping \cup Reminding, Goes(c, call),
             calls[c].fn # "generate" \/ "generate" \in unfinished'
      PROVE  Unmoved
  <2>1. call.fn # "generate"
    BY DEF NoCall, Sweeping, Reminding
  <2>2. calls'[c] = call /\ \A d \in Callers \ {c} : calls'[d] = calls[d]
    BY <1>3, CallsTyped DEF Goes
  <2>3. QED
    BY <1>3, <2>1, <2>2
<1>4. NoCall.fn # "generate" /\ \A call \in Sweeping \cup Reminding : call.fn # "generate"
  BY DEF NoCall, Sweeping, Reminding
<1> HIDE DEF Unmoved
<1>5. ASSUME NEW c \in Callers, Overdue(c)
      PROVE  Bills /\ Rest /\ Unmoved
  <2> DEFINE call == [fn |-> "overdue", now |-> thisMonth, wants |-> <<"open", "sent">>,
                      left |-> {}]
  <2>1. call \in Sweeping
    BY NewCalls
  <2>2. /\ Goes(c, call)
        /\ UNCHANGED <<invoices, counter, unfinished>> /\ overlapped \subseteq overlapped'
        /\ calls[c] = NoCall
    BY <1>5 DEF Overdue, BeginCall, Goes
  <2> HIDE DEF call
  <2>3. QED
    BY <1>1, <1>3, <1>4, <2>1, <2>2
<1>6. ASSUME NEW c \in Callers, Remind(c)
      PROVE  Bills /\ Rest /\ Unmoved
  <2> DEFINE call == [fn |-> "remind", now |-> thisMonth, at |-> "list", left |-> {},
                      sent |-> {}]
  <2>1. call \in Reminding
    BY NewCalls
  <2>2. /\ Goes(c, call)
        /\ UNCHANGED <<invoices, counter, unfinished>> /\ overlapped \subseteq overlapped'
        /\ calls[c] = NoCall
    BY <1>6 DEF Remind, BeginCall, Goes
  <2> HIDE DEF call
  <2>3. QED
    BY <1>1, <1>3, <1>4, <2>1, <2>2
<1>7. ASSUME NEW c \in Callers, ListDue(c) \/ MarkOverdue(c)
      PROVE  Bills /\ Rest /\ Unmoved
  <2>1. PICK call \in Sweeping : Goes(c, call)
    BY <1>7, SweepDoes
  <2>2. /\ UNCHANGED <<counter, overlapped, unfinished>> /\ calls[c] \in Sweeping
        /\ \/ UNCHANGED invoices
           \/ \E i \in InvoiceIds : invoices' = [invoices EXCEPT ![i].status = "overdue"]
    BY <1>7, SweepDoes
  <2>3. Bills
    BY <1>1, <2>2, Stated
  <2>4. QED
    BY <1>3, <1>4, <2>1, <2>2, <2>3
<1>8. ASSUME NEW c \in Callers, ListReminders(c)
      PROVE  Bills /\ Rest /\ Unmoved
  BY <1>1, <1>3, <1>4, <1>8, ListRemindersDoes
<1>9. ASSUME NEW c \in Callers, Mail(c)
      PROVE  Bills /\ Rest /\ Unmoved
  <2>1. PICK call \in Reminding : Goes(c, call)
    BY <1>9, MailDoes
  <2>2. UNCHANGED <<invoices, counter, overlapped, unfinished>> /\ calls[c] \in Reminding
    BY <1>9, MailDoes
  <2>3. QED
    BY <1>1, <1>3, <1>4, <2>1, <2>2
<1>10. ASSUME NEW c \in Callers, MarkReminded(c)
       PROVE  Bills /\ Rest /\ Unmoved
  <2>1. PICK call \in Reminding : Goes(c, call)
    BY <1>10, MarkDoes
  <2>2. PICK i \in calls[c].sent : invoices' = WithMark(i)
    BY <1>10, MarkDoes
  <2>3. UNCHANGED <<counter, overlapped, unfinished>> /\ calls[c] \in Reminding
    BY <1>10, MarkDoes
  <2>4. CASE i \in InvoiceIds
    <3>1. Bills
      BY <2>2, <2>4, Marked
    <3>2. QED
      BY <1>3, <1>4, <2>1, <2>3, <3>1
  <2>5. CASE i \notin InvoiceIds
    <3>1. UNCHANGED invoices
      BY <2>2, <2>5 DEF InvoiceIds, WithMark, Typed
    <3>2. QED
      BY <1>1, <1>3, <1>4, <2>1, <2>3, <3>1
  <2>6. QED
    BY <2>4, <2>5
<1>11. ASSUME NEW c \in Callers, SkipInvoice(c)
       PROVE  Bills /\ Rest /\ Unmoved
  <2>1. PICK call \in Reminding : Goes(c, call)
    BY <1>11, SkipDoes
  <2>2. /\ UNCHANGED <<invoices, counter, overlapped>> /\ unfinished \subseteq unfinished'
        /\ calls[c] \in Reminding
    BY <1>11, SkipDoes
  <2>3. QED
    BY <1>1, <1>3, <1>4, <2>1, <2>2
<1>12. ASSUME NEW c \in Callers, Return(c) \/ Break(c)
       PROVE  Bills /\ Rest /\ Unmoved
  <2>1. /\ Goes(c, NoCall) /\ UNCHANGED <<invoices, counter, overlapped>>
        /\ unfinished \subseteq unfinished'
        /\ calls[c].fn \in {"overdue", "remind"} \/ calls[c].fn \in unfinished'
    BY <1>12 DEF Return, Break, GoOn, Goes
  <2>2. QED
    BY <1>1, <1>3, <2>1
<1>13. CASE CreateByHand
  <2>1. PICK number \in TypedNumbers :
           /\ invoices' = Append(invoices, NewInvoice(None, number, thisMonth, "open"))
           /\ UNCHANGED <<counter, calls, overlapped, unfinished>>
    BY <1>13 DEF CreateByHand
  <2> DEFINE bill == NewInvoice(None, number, thisMonth, "open")
  <2>2. bill \in Bill /\ bill.lease = None
    BY LeasesAssumption DEF NewInvoice, Bill, Typed
  <2>3. invoices' = Append(invoices, bill)
    BY <2>1
  <2> HIDE DEF bill
  <2>4. Bills
    BY <2>2, <2>3, AddedBill DEF Typed, InvoiceIds
  <2>5. QED
    BY <1>2, <2>1, <2>4
<1>14. CASE \E i \in InvoiceIds : SetStatus(i)
  <2>1. PICK i \in InvoiceIds, status \in Statuses :
           invoices' = [invoices EXCEPT ![i].status = status]
    BY <1>14 DEF SetStatus
  <2>2. UNCHANGED <<counter, calls, overlapped, unfinished>>
    BY <1>14 DEF SetStatus
  <2>3. Bills
    BY <2>1, Stated
  <2>4. QED
    BY <1>2, <2>2, <2>3
<1>15. CASE SaveSettings \/ NextMonth \/ UNCHANGED billingVars
  BY <1>1, <1>2, <1>15 DEF SaveSettings, NextMonth, billingVars
<1>16. QED
  BY <1>5, <1>6, <1>7, <1>8, <1>9, <1>10, <1>11, <1>12, <1>13, <1>14, <1>15

THEOREM BilledStep ==
    Billed /\ [BillingNext]_billingVars => Billed'
<1> SUFFICES ASSUME Billed, [BillingNext]_billingVars
             PROVE  Billed'
  OBVIOUS
<1>1. Typed /\ Typed'
  BY TypedStep DEF Billed
<1>2. ASSUME NEW c \in Callers, Generate(c) \/ Look(c) \/ CreateInvoice(c) \/ Count(c)
      PROVE  Alone("generate")' /\ OnePerMonth' /\ NumbersBelow' /\ LeasesNumbered'
  BY <1>2, GenerateBills, LookBills, CreateBills, CountBills
<1>3. CASE \/ \E c \in Callers :
                 \/ Overdue(c) \/ ListDue(c) \/ MarkOverdue(c) \/ Remind(c) \/ ListReminders(c)
                 \/ Mail(c) \/ MarkReminded(c) \/ SkipInvoice(c) \/ Return(c) \/ Break(c)
           \/ CreateByHand \/ SaveSettings \/ NextMonth \/ UNCHANGED billingVars
           \/ \E i \in InvoiceIds : SetStatus(i)
  <2>1. /\ InvoiceIds \subseteq InvoiceIds'
        /\ \A i \in InvoiceIds : /\ invoices'[i].lease = invoices[i].lease
                                 /\ invoices'[i].month = invoices[i].month
                                 /\ invoices'[i].number = invoices[i].number
        /\ \A i \in InvoiceIds' \ InvoiceIds : invoices'[i].lease = None
        /\ counter' = counter /\ overlapped \subseteq overlapped' /\ unfinished \subseteq unfinished'
        /\ \A c \in Callers : calls'[c].fn = "generate" => calls'[c] = calls[c]
        /\ \/ "generate" \in unfinished'
           \/ \A c \in Callers : calls[c].fn = "generate" => calls'[c] = calls[c]
    BY <1>1, <1>3, OtherSteps, Zenon
  <2>2. Alone("generate")' /\ OnePerMonth' /\ NumbersBelow' /\ LeasesNumbered'
    BY <2>1, Aside
  <2>3. QED
    BY <1>1, <2>2 DEF Billed
<1>4. QED
  BY <1>1, <1>2, <1>3 DEF BillingNext, BillingRest, Billed

\* A lease is billed once a month, for any leases and any number of calls, for as long as
\* no two runs overlap; and no two of its invoices have the same number, if each run has
\* stored what it had counted.
THEOREM LeasesBilledOnce ==
    BillingSpec => []BilledOnce
<1>1. BillingInit => Billed
  <2>1. NoCall.fn # "generate"
    BY DEF NoCall
  <2>2. QED
    BY <2>1, TypedInit DEF BillingInit, Billed, Alone, OnePerMonth, NumbersBelow, LeasesNumbered,
                           InvoiceIds
<1>2. Billed => BilledOnce
  BY DEF Billed, OnePerMonth, NumbersBelow, LeasesNumbered, BilledOnce
<1>3. QED
  BY <1>1, <1>2, BilledStep, PTL DEF BillingSpec

-------------------------------------------------------------------------------
\* A step that mails and marks nothing: every reminder under way stays as it is, or has
\* no mark to make.
LEMMA AsideOfReminders ==
    ASSUME Reminded,
           \A c \in Callers : calls'[c].fn = "remind" => calls'[c] = calls[c],
           \/ "remind" \in unfinished'
           \/ \A c \in Callers :
                 calls[c].fn = "remind" => calls'[c] = calls[c] \/ calls[c].sent = {},
           InvoiceIds \subseteq InvoiceIds',
           \A i \in InvoiceIds : invoices'[i].reminded = invoices[i].reminded,
           mails' = mails, overlapped \subseteq overlapped', unfinished \subseteq unfinished'
    PROVE  Alone("remind")' /\ RemindedSafe'
<1>1. Alone("remind")'
  BY DEF Reminded, Alone
<1>2. RemindedSafe'
  <2> SUFFICES ASSUME {"remind"} \cap (overlapped' \cup unfinished') = {}
               PROVE  RemindedSafe'
    BY DEF RemindedSafe
  <2>1. {"remind"} \cap (overlapped \cup unfinished) = {} /\ \A i : Mailed(i)' = Mailed(i)
    BY DEF Mailed
  <2>2. \A i \in Numbers : mails'[i] <= 1
    BY <2>1 DEF Reminded, RemindedSafe
  <2>3. ASSUME NEW i \in Numbers, Mailed(i)
        PROVE  /\ i \in InvoiceIds'
               /\ \/ invoices'[i].reminded
                  \/ \E c \in Callers : calls'[c].fn = "remind" /\ i \in calls'[c].sent
    <3>1. /\ i \in InvoiceIds
          /\ \/ invoices[i].reminded
             \/ \E c \in Callers : calls[c].fn = "remind" /\ i \in calls[c].sent
      BY <2>1, <2>3 DEF Reminded, RemindedSafe
    <3>2. CASE invoices[i].reminded
      BY <3>1, <3>2
    <3>3. CASE \E c \in Callers : calls[c].fn = "remind" /\ i \in calls[c].sent
      BY <3>1, <3>3
    <3>4. QED
      BY <3>1, <3>2, <3>3
  <2>4. \A c \in Callers : calls'[c].fn = "remind" =>
              /\ \A i \in calls'[c].left : ~Mailed(i)
              /\ \A i, j \in calls'[c].sent : i = j
              /\ calls'[c].at = "list" => calls'[c].left = {} /\ calls'[c].sent = {}
    BY <2>1 DEF Reminded, RemindedSafe
  <2>5. QED
    BY <2>1, <2>2, <2>3, <2>4 DEF RemindedSafe
<1>3. QED
  BY <1>1, <1>2

\* A step of the reminders that is the only call of its kind, with what it leaves behind.
LEMMA OnlyReminder ==
    ASSUME Reminded, NEW c \in Callers, NEW call \in Reminding, Goes(c, call),
           calls[c].fn = "remind", InvoiceIds' = InvoiceIds, UNCHANGED overlapped,
           "remind" \notin overlapped /\ "remind" \notin unfinished' =>
              /\ \A i \in Numbers : mails'[i] <= 1
              /\ \A i \in Numbers : Mailed(i)' =>
                    i \in InvoiceIds /\ (invoices'[i].reminded \/ i \in call.sent)
              /\ \A i \in call.left : ~Mailed(i)'
              /\ \A i, j \in call.sent : i = j
              /\ call.at = "list" => call.left = {} /\ call.sent = {}
    PROVE  Alone("remind")' /\ RemindedSafe'
<1>1. calls'[c] = call /\ (\A d \in Callers \ {c} : calls'[d] = calls[d]) /\ call.fn = "remind"
  BY CallsTyped DEF Goes, Reminded, Reminding
<1>2. Alone("remind")'
  BY <1>1 DEF Reminded, Alone
<1>3. RemindedSafe'
  <2> SUFFICES ASSUME {"remind"} \cap (overlapped' \cup unfinished') = {}
               PROVE  RemindedSafe'
    BY DEF RemindedSafe
  <2>1. \A d \in Callers : calls'[d].fn = "remind" => d = c
    BY <1>1, <1>2 DEF Alone
  <2>2. /\ \A i \in Numbers : mails'[i] <= 1
        /\ \A i \in Numbers : Mailed(i)' =>
              i \in InvoiceIds /\ (invoices'[i].reminded \/ i \in call.sent)
        /\ \A i \in call.left : ~Mailed(i)'
        /\ \A i, j \in call.sent : i = j
        /\ call.at = "list" => call.left = {} /\ call.sent = {}
    OBVIOUS
  <2>3. \A i \in Numbers : Mailed(i)' =>
           /\ i \in InvoiceIds'
           /\ \/ invoices'[i].reminded
              \/ \E d \in Callers : calls'[d].fn = "remind" /\ i \in calls'[d].sent
    BY <1>1, <2>2
  <2>4. \A d \in Callers : calls'[d].fn = "remind" =>
           /\ \A i \in calls'[d].left : ~Mailed(i)'
           /\ \A i, j \in calls'[d].sent : i = j
           /\ calls'[d].at = "list" => calls'[d].left = {} /\ calls'[d].sent = {}
    BY <1>1, <2>1, <2>2
  <2>5. QED
    BY <2>2, <2>3, <2>4 DEF RemindedSafe
<1>4. QED
  BY <1>2, <1>3

\* What holds while one reminder call at most is under way and none has broken off.
LEMMA Meanwhile ==
    ASSUME Reminded, NEW c \in Callers, calls[c].fn = "remind",
           "remind" \notin overlapped, "remind" \notin unfinished
    PROVE  /\ \A i \in Numbers : mails[i] <= 1
           /\ \A i \in Numbers : Mailed(i) =>
                 i \in InvoiceIds /\ (invoices[i].reminded \/ i \in calls[c].sent)
           /\ \A i \in calls[c].left : ~Mailed(i)
           /\ \A i, j \in calls[c].sent : i = j
           /\ calls[c].at = "list" => calls[c].left = {} /\ calls[c].sent = {}
<1>1. {"remind"} \cap (overlapped \cup unfinished) = {}
  OBVIOUS
<1>2. \A d \in Callers : calls[d].fn = "remind" => d = c
  BY DEF Reminded, Alone
<1>3. QED
  BY <1>1, <1>2 DEF Reminded, RemindedSafe

LEMMA RemindersList ==
    ASSUME Reminded, NEW c \in Callers, ListReminders(c)
    PROVE  Alone("remind")' /\ RemindedSafe'
<1>1. /\ Typed /\ UNCHANGED <<invoices, mails, overlapped, unfinished>> /\ InvoiceIds' = InvoiceIds
      /\ InvoiceIds \subseteq Numbers /\ calls[c].fn = "remind" /\ calls[c].at = "list"
  BY ListRemindersDoes, LeasesAssumption DEF Reminded, InvoiceIds, Reminding, Typed, Numbers
<1>2. PICK call \in Reminding :
         /\ Goes(c, call) /\ call.at = "mail" /\ call.sent = calls[c].sent
         /\ call.left \subseteq {i \in InvoiceIds : ~invoices[i].reminded}
  BY <1>1, ListRemindersDoes
<1>3. ASSUME "remind" \notin overlapped, "remind" \notin unfinished'
      PROVE  /\ \A i \in Numbers : mails'[i] <= 1
             /\ \A i \in Numbers : Mailed(i)' =>
                   i \in InvoiceIds /\ (invoices'[i].reminded \/ i \in call.sent)
             /\ \A i \in call.left : ~Mailed(i)'
             /\ \A i, j \in call.sent : i = j
             /\ call.at = "list" => call.left = {} /\ call.sent = {}
  <2>1. calls[c].sent = {} /\ \A i : Mailed(i)' = Mailed(i)
    BY <1>1, <1>3, Meanwhile DEF Mailed
  <2>2. QED
    BY <1>1, <1>2, <1>3, <2>1, Meanwhile
<1>4. QED
  BY <1>1, <1>2, <1>3, OnlyReminder

LEMMA RemindersMail ==
    ASSUME Reminded, NEW c \in Callers, Mail(c)
    PROVE  Alone("remind")' /\ RemindedSafe'
<1>1. /\ Typed /\ UNCHANGED <<invoices, overlapped, unfinished>> /\ InvoiceIds' = InvoiceIds
      /\ InvoiceIds \subseteq Numbers /\ calls[c].fn = "remind" /\ calls[c].sent = {}
      /\ calls[c].left \subseteq InvoiceIds
  <2>1. Typed
    BY DEF Reminded
  <2>2. /\ UNCHANGED <<invoices, overlapped, unfinished>> /\ calls[c] \in Reminding
        /\ calls[c].left \subseteq InvoiceIds /\ calls[c].sent = {}
    BY <2>1, MailDoes
  <2>3. calls[c].fn = "remind"
    BY DEF Mail
  <2>4. InvoiceIds \subseteq Numbers
    BY <2>1, LeasesAssumption DEF Typed, InvoiceIds, Numbers
  <2>5. InvoiceIds' = InvoiceIds
    BY <2>2 DEF InvoiceIds
  <2>6. QED
    BY <2>1, <2>2, <2>3, <2>4, <2>5
<1>2. PICK i \in calls[c].left :
         /\ mails' = [mails EXCEPT ![i] = mails[i] + 1]
         /\ \E call \in Reminding :
               /\ Goes(c, call) /\ call.at = calls[c].at /\ call.sent = {i}
               /\ call.left = calls[c].left \ {i}
  BY <1>1, MailDoes
<1>3. PICK call \in Reminding : /\ Goes(c, call) /\ call.at = calls[c].at /\ call.sent = {i}
                                /\ call.left = calls[c].left \ {i}
  BY <1>2
<1>4. /\ mails'[i] = mails[i] + 1 /\ \A j \in Numbers : j # i => mails'[j] = mails[j]
      /\ \A j \in Numbers : mails[j] \in Nat
  BY <1>1, <1>2 DEF Typed
<1>5. ASSUME "remind" \notin overlapped, "remind" \notin unfinished'
      PROVE  /\ \A j \in Numbers : mails'[j] <= 1
             /\ \A j \in Numbers : Mailed(j)' =>
                   j \in InvoiceIds /\ (invoices'[j].reminded \/ j \in call.sent)
             /\ \A j \in call.left : ~Mailed(j)'
             /\ \A j, k \in call.sent : j = k
             /\ call.at = "list" => call.left = {} /\ call.sent = {}
  <2>1. /\ \A j \in Numbers : mails[j] <= 1
        /\ \A j \in Numbers : Mailed(j) =>
              j \in InvoiceIds /\ (invoices[j].reminded \/ j \in calls[c].sent)
        /\ \A j \in calls[c].left : ~Mailed(j)
        /\ calls[c].at = "list" => calls[c].left = {}
    BY <1>1, <1>5, Meanwhile
  <2>2. mails[i] = 0
    BY <2>1 DEF Mailed
  <2>3. \A j \in Numbers : mails'[j] <= 1
    BY <1>1, <1>4, <2>1, <2>2
  <2>4. \A j \in Numbers : Mailed(j)' => Mailed(j) \/ j = i
    BY <1>4 DEF Mailed
  <2>5. QED
    BY <1>1, <1>3, <2>1, <2>3, <2>4
<1>6. QED
  BY <1>1, <1>3, <1>5, OnlyReminder

LEMMA RemindersMark ==
    ASSUME Reminded, NEW c \in Callers, MarkReminded(c)
    PROVE  Alone("remind")' /\ RemindedSafe'
<1>1. /\ Typed /\ UNCHANGED <<mails, overlapped, unfinished>> /\ calls[c].fn = "remind"
  BY MarkDoes DEF Reminded, Reminding
<1>2. PICK call \in Reminding : /\ Goes(c, call) /\ call.at = calls[c].at /\ call.sent = {}
                                /\ call.left = calls[c].left
  BY <1>1, MarkDoes
<1>3. PICK i \in calls[c].sent : invoices' = WithMark(i)
  BY <1>1, MarkDoes
<1>4. /\ InvoiceIds' = InvoiceIds
      /\ \A j \in InvoiceIds : invoices'[j].reminded = (invoices[j].reminded \/ j = i)
  <2>1. CASE i \in InvoiceIds
    BY <1>1, <1>3, <2>1, Marked
  <2>2. CASE i \notin InvoiceIds
    <3>1. UNCHANGED invoices
      BY <1>1, <1>3, <2>2 DEF InvoiceIds, WithMark, Typed
    <3>2. \A j \in InvoiceIds : invoices[j] \in Bill
      BY <1>1 DEF Typed, InvoiceIds
    <3>3. \A j \in InvoiceIds : invoices[j].reminded \in BOOLEAN
      BY <3>2 DEF Bill
    <3>4. QED
      BY <2>2, <3>1, <3>3 DEF InvoiceIds
  <2>3. QED
    BY <2>1, <2>2
<1>5. ASSUME "remind" \notin overlapped, "remind" \notin unfinished'
      PROVE  /\ \A j \in Numbers : mails'[j] <= 1
             /\ \A j \in Numbers : Mailed(j)' =>
                   j \in InvoiceIds /\ (invoices'[j].reminded \/ j \in call.sent)
             /\ \A j \in call.left : ~Mailed(j)'
             /\ \A j, k \in call.sent : j = k
             /\ call.at = "list" => call.left = {} /\ call.sent = {}
  <2>1. \A j : Mailed(j)' = Mailed(j)
    BY <1>1 DEF Mailed
  <2>2. /\ \A j \in Numbers : mails[j] <= 1
        /\ \A j \in Numbers : Mailed(j) =>
              j \in InvoiceIds /\ (invoices[j].reminded \/ j \in calls[c].sent)
        /\ \A j \in calls[c].left : ~Mailed(j)
        /\ \A j, k \in calls[c].sent : j = k
        /\ calls[c].at = "list" => calls[c].left = {}
    BY <1>1, <1>5, Meanwhile
  <2>3. \A j \in Numbers : Mailed(j) => j \in InvoiceIds /\ invoices'[j].reminded
    BY <1>3, <1>4, <2>2
  <2>4. QED
    BY <1>1, <1>2, <2>1, <2>2, <2>3
<1>6. QED
  BY <1>1, <1>2, <1>4, <1>5, OnlyReminder

LEMMA RemindersSkip ==
    ASSUME Reminded, NEW c \in Callers, SkipInvoice(c)
    PROVE  Alone("remind")' /\ RemindedSafe'
<1>1. /\ Typed /\ UNCHANGED <<invoices, mails, overlapped>> /\ InvoiceIds' = InvoiceIds
      /\ calls[c].fn = "remind" /\ unfinished \subseteq unfinished'
  BY SkipDoes DEF Reminded, Reminding, InvoiceIds
<1>2. PICK call \in Reminding : /\ Goes(c, call) /\ call.at = calls[c].at
                                /\ call.left \subseteq calls[c].left
                                /\ "remind" \in unfinished' \/ call.sent = calls[c].sent
  BY <1>1, SkipDoes
<1>3. ASSUME "remind" \notin overlapped, "remind" \notin unfinished'
      PROVE  /\ \A j \in Numbers : mails'[j] <= 1
             /\ \A j \in Numbers : Mailed(j)' =>
                   j \in InvoiceIds /\ (invoices'[j].reminded \/ j \in call.sent)
             /\ \A j \in call.left : ~Mailed(j)'
             /\ \A j, k \in call.sent : j = k
             /\ call.at = "list" => call.left = {} /\ call.sent = {}
  <2>1. \A j : Mailed(j)' = Mailed(j)
    BY <1>1 DEF Mailed
  <2>2. call.sent = calls[c].sent /\ "remind" \notin unfinished
    BY <1>1, <1>2, <1>3
  <2>3. /\ \A j \in Numbers : mails[j] <= 1
        /\ \A j \in Numbers : Mailed(j) =>
              j \in InvoiceIds /\ (invoices[j].reminded \/ j \in calls[c].sent)
        /\ \A j \in calls[c].left : ~Mailed(j)
        /\ \A j, k \in calls[c].sent : j = k
        /\ calls[c].at = "list" => calls[c].left = {} /\ calls[c].sent = {}
    BY <1>1, <1>3, <2>2, Meanwhile
  <2>4. QED
    BY <1>1, <1>2, <2>1, <2>2, <2>3
<1>4. QED
  BY <1>1, <1>2, <1>3, OnlyReminder

\* A call begins with nothing listed, and alone, or counts as an overlap.
LEMMA RemindersBegin ==
    ASSUME Reminded, NEW c \in Callers, Remind(c)
    PROVE  Alone("remind")' /\ RemindedSafe'
<1> DEFINE call == [fn |-> "remind", now |-> thisMonth, at |-> "list", left |-> {}, sent |-> {}]
<1>1. /\ Typed /\ UNCHANGED <<invoices, mails, unfinished>> /\ InvoiceIds' = InvoiceIds
      /\ Goes(c, call) /\ calls[c] = NoCall /\ call \in Reminding /\ call.fn = "remind"
      /\ call.left = {} /\ call.sent = {}
      /\ overlapped' = IF \E e \in Callers : calls[e].fn = "remind"
                       THEN overlapped \cup {"remind"} ELSE overlapped
  BY NewCalls DEF Remind, BeginCall, Goes, Reminded, InvoiceIds
<1> HIDE DEF call
<1>2. calls'[c] = call /\ \A d \in Callers \ {c} : calls'[d] = calls[d]
  BY <1>1, CallsTyped DEF Goes
<1>3. /\ overlapped \subseteq overlapped' /\ \A i : Mailed(i)' = Mailed(i)
      /\ "remind" \notin overlapped' => \A e \in Callers : calls[e].fn # "remind"
  BY <1>1 DEF Mailed
<1>4. Alone("remind")'
  BY <1>1, <1>2, <1>3 DEF Alone
<1>5. RemindedSafe'
  <2> SUFFICES ASSUME {"remind"} \cap (overlapped' \cup unfinished') = {}
               PROVE  RemindedSafe'
    BY DEF RemindedSafe
  <2>1. {"remind"} \cap (overlapped \cup unfinished) = {}
    BY <1>1, <1>3
  <2>2. \A d \in Callers : calls[d].fn # "remind"
    BY <1>3
  <2>3. \A i \in Numbers : mails[i] <= 1 /\ (Mailed(i) => i \in InvoiceIds /\ invoices[i].reminded)
    BY <2>1, <2>2 DEF Reminded, RemindedSafe
  <2>4. \A d \in Callers : calls'[d].fn = "remind" => calls'[d].left = {} /\ calls'[d].sent = {}
    BY <1>1, <1>2, <2>2
  <2>5. QED
    BY <1>1, <1>3, <2>3, <2>4 DEF RemindedSafe
<1>6. QED
  BY <1>4, <1>5

\* What every other step leaves alone.
LEMMA OtherThanReminders ==
    ASSUME Typed,
           \/ \E c \in Callers :
                 \/ Generate(c) \/ Look(c) \/ CreateInvoice(c) \/ Count(c)
                 \/ Overdue(c) \/ ListDue(c) \/ MarkOverdue(c) \/ Return(c) \/ Break(c)
           \/ CreateByHand \/ SaveSettings \/ NextMonth \/ UNCHANGED billingVars
           \/ \E i \in InvoiceIds : SetStatus(i)
    PROVE  /\ InvoiceIds \subseteq InvoiceIds'
           /\ \A i \in InvoiceIds : invoices'[i].reminded = invoices[i].reminded
           /\ mails' = mails /\ overlapped \subseteq overlapped' /\ unfinished \subseteq unfinished'
           /\ \A c \in Callers : calls'[c].fn = "remind" => calls'[c] = calls[c]
           /\ \/ "remind" \in unfinished'
              \/ \A c \in Callers : calls[c].fn = "remind" =>
                    calls'[c] = calls[c] \/ calls[c].sent = {}
<1> DEFINE Bills == /\ InvoiceIds \subseteq InvoiceIds'
                    /\ \A i \in InvoiceIds : invoices'[i].reminded = invoices[i].reminded
           Rest == /\ mails' = mails
                   /\ overlapped \subseteq overlapped' /\ unfinished \subseteq unfinished'
           Unmoved == /\ \A c \in Callers : calls'[c].fn = "remind" => calls'[c] = calls[c]
                      /\ \/ "remind" \in unfinished'
                         \/ \A c \in Callers : calls[c].fn = "remind" =>
                               calls'[c] = calls[c] \/ calls[c].sent = {}
<1> SUFFICES Bills /\ Rest /\ Unmoved
  OBVIOUS
<1>1. UNCHANGED invoices => Bills
  BY DEF InvoiceIds
<1>2. UNCHANGED calls => Unmoved
  OBVIOUS
<1>3. ASSUME NEW c \in Callers, NEW call \in {NoCall} \cup Generating \cup Sweeping, Goes(c, call),
             calls[c].fn # "remind" \/ calls[c].sent = {} \/ "remind" \in unfinished'
      PROVE  Unmoved
  <2>1. call.fn # "remind"
    BY DEF NoCall, Generating, Sweeping
  <2>2. calls'[c] = call /\ \A d \in Callers \ {c} : calls'[d] = calls[d]
    BY <1>3, CallsTyped DEF Goes
  <2>3. QED
    BY <1>3, <2>1, <2>2
<1>4. NoCall.fn # "remind" /\ \A call \in Generating \cup Sweeping : call.fn # "remind"
  BY DEF NoCall, Generating, Sweeping
<1>5. ASSUME NEW bill \in Bill, invoices' = Append(invoices, bill)
      PROVE  Bills
  BY <1>5, AddedBill DEF Typed, InvoiceIds
<1> HIDE DEF Unmoved
<1>6. ASSUME NEW c \in Callers, Generate(c)
      PROVE  Bills /\ Rest /\ Unmoved
  <2> DEFINE call == [fn |-> "generate", month |-> thisMonth, number |-> counter,
                      stored |-> settings = "saved", left |-> Leases, at |-> "look"]
  <2>1. call \in Generating
    BY NewCalls
  <2>2. /\ Goes(c, call)
        /\ UNCHANGED <<invoices, mails, unfinished>> /\ overlapped \subseteq overlapped'
        /\ calls[c] = NoCall
    BY <1>6 DEF Generate, BeginCall, Goes
  <2> HIDE DEF call
  <2>3. QED
    BY <1>1, <1>3, <1>4, <2>1, <2>2
<1>7. ASSUME NEW c \in Callers, Overdue(c)
      PROVE  Bills /\ Rest /\ Unmoved
  <2> DEFINE call == [fn |-> "overdue", now |-> thisMonth, wants |-> <<"open", "sent">>,
                      left |-> {}]
  <2>1. call \in Sweeping
    BY NewCalls
  <2>2. /\ Goes(c, call)
        /\ UNCHANGED <<invoices, mails, unfinished>> /\ overlapped \subseteq overlapped'
        /\ calls[c] = NoCall
    BY <1>7 DEF Overdue, BeginCall, Goes
  <2> HIDE DEF call
  <2>3. QED
    BY <1>1, <1>3, <1>4, <2>1, <2>2
<1>8. ASSUME NEW c \in Callers, Look(c)
      PROVE  Bills /\ Rest /\ Unmoved
  <2>1. PICK call \in Generating : Goes(c, call)
    BY <1>8, LookDoes
  <2>2. UNCHANGED <<invoices, mails, overlapped, unfinished>> /\ calls[c] \in Generating
    BY <1>8, LookDoes
  <2>3. QED
    BY <1>1, <1>3, <1>4, <2>1, <2>2
<1>9. ASSUME NEW c \in Callers, CreateInvoice(c)
      PROVE  Bills /\ Rest /\ Unmoved
  <2>1. PICK call \in Generating : Goes(c, call)
    BY <1>9, CreateDoes
  <2>2. PICK bill \in Bill : invoices' = Append(invoices, bill)
    BY <1>9, CreateDoes
  <2>3. UNCHANGED <<mails, overlapped, unfinished>> /\ calls[c] \in Generating
    BY <1>9, CreateDoes
  <2>4. QED
    BY <1>3, <1>4, <1>5, <2>1, <2>2, <2>3
<1>10. ASSUME NEW c \in Callers, ListDue(c) \/ MarkOverdue(c)
       PROVE  Bills /\ Rest /\ Unmoved
  <2>1. PICK call \in Sweeping : Goes(c, call)
    BY <1>10, SweepDoes
  <2>2. /\ UNCHANGED <<mails, overlapped, unfinished>> /\ calls[c] \in Sweeping
        /\ \/ UNCHANGED invoices
           \/ \E i \in InvoiceIds : invoices' = [invoices EXCEPT ![i].status = "overdue"]
    BY <1>10, SweepDoes
  <2>3. Bills
    BY <1>1, <2>2, Stated
  <2>4. QED
    BY <1>3, <1>4, <2>1, <2>2, <2>3
<1>11. ASSUME NEW c \in Callers, Count(c) \/ Return(c) \/ Break(c)
       PROVE  Bills /\ Rest /\ Unmoved
  <2>1. /\ Goes(c, NoCall) /\ UNCHANGED <<invoices, mails, overlapped>>
        /\ unfinished \subseteq unfinished'
        /\ \/ calls[c].fn \in {"generate", "overdue"}
           \/ calls[c].fn = "remind" /\ calls[c].sent = {}
           \/ calls[c].fn \in unfinished'
    BY <1>11 DEF Count, Return, Break, GoOn, Goes
  <2>2. QED
    BY <1>1, <1>3, <2>1
<1>12. CASE CreateByHand
  <2>1. PICK number \in TypedNumbers :
           /\ invoices' = Append(invoices, NewInvoice(None, number, thisMonth, "open"))
           /\ UNCHANGED <<mails, calls, overlapped, unfinished>>
    BY <1>12 DEF CreateByHand
  <2>2. NewInvoice(None, number, thisMonth, "open") \in Bill
    BY LeasesAssumption DEF NewInvoice, Bill, Typed
  <2>3. QED
    BY <1>2, <1>5, <2>1, <2>2
<1>13. CASE \E i \in InvoiceIds : SetStatus(i)
  <2>1. PICK i \in InvoiceIds, status \in Statuses :
           invoices' = [invoices EXCEPT ![i].status = status]
    BY <1>13 DEF SetStatus
  <2>2. UNCHANGED <<mails, calls, overlapped, unfinished>>
    BY <1>13 DEF SetStatus
  <2>3. Bills
    BY <2>1, Stated
  <2>4. QED
    BY <1>2, <2>2, <2>3
<1>14. CASE SaveSettings \/ NextMonth \/ UNCHANGED billingVars
  BY <1>1, <1>2, <1>14 DEF SaveSettings, NextMonth, billingVars
<1>15. QED
  BY <1>6, <1>7, <1>8, <1>9, <1>10, <1>11, <1>12, <1>13, <1>14

THEOREM RemindedStep ==
    Reminded /\ [BillingNext]_billingVars => Reminded'
<1> SUFFICES ASSUME Reminded, [BillingNext]_billingVars
             PROVE  Reminded'
  OBVIOUS
<1>1. Typed /\ Typed'
  BY TypedStep DEF Reminded
<1>2. ASSUME NEW c \in Callers,
             Remind(c) \/ ListReminders(c) \/ Mail(c) \/ MarkReminded(c) \/ SkipInvoice(c)
      PROVE  Alone("remind")' /\ RemindedSafe'
  BY <1>2, RemindersBegin, RemindersList, RemindersMail, RemindersMark, RemindersSkip
<1>3. CASE \/ \E c \in Callers :
                 \/ Generate(c) \/ Look(c) \/ CreateInvoice(c) \/ Count(c)
                 \/ Overdue(c) \/ ListDue(c) \/ MarkOverdue(c) \/ Return(c) \/ Break(c)
           \/ CreateByHand \/ SaveSettings \/ NextMonth \/ UNCHANGED billingVars
           \/ \E i \in InvoiceIds : SetStatus(i)
  <2>1. /\ InvoiceIds \subseteq InvoiceIds'
        /\ \A i \in InvoiceIds : invoices'[i].reminded = invoices[i].reminded
        /\ mails' = mails /\ overlapped \subseteq overlapped' /\ unfinished \subseteq unfinished'
        /\ \A c \in Callers : calls'[c].fn = "remind" => calls'[c] = calls[c]
        /\ \/ "remind" \in unfinished'
           \/ \A c \in Callers : calls[c].fn = "remind" =>
                 calls'[c] = calls[c] \/ calls[c].sent = {}
    BY <1>1, <1>3, OtherThanReminders, Zenon
  <2>2. Alone("remind")' /\ RemindedSafe'
    BY <2>1, AsideOfReminders
  <2>3. QED
    BY <1>1, <2>2 DEF Reminded
<1>4. QED
  BY <1>1, <1>2, <1>3 DEF BillingNext, BillingRest, Reminded

\* A tenant is reminded of an invoice once, for any number of calls, for as long as no two
\* calls overlap and none has broken off.
THEOREM TenantsRemindedOnce ==
    BillingSpec => []RemindedOnce
<1>1. BillingInit => Reminded
  <2>1. NoCall.fn # "remind"
    BY DEF NoCall
  <2>2. QED
    BY <2>1, TypedInit DEF BillingInit, Reminded, Alone, RemindedSafe, Mailed, Numbers
<1>2. Reminded => RemindedOnce
  <2>1. Reminded => InvoiceIds \subseteq Numbers
    BY LeasesAssumption DEF Reminded, Typed, InvoiceIds, Numbers
  <2>2. QED
    BY <2>1 DEF Reminded, RemindedSafe, RemindedOnce
<1>3. QED
  BY <1>1, <1>2, RemindedStep, PTL DEF BillingSpec
===============================================================================
