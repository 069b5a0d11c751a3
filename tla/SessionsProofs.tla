----------------------------- MODULE SessionsProofs -----------------------------
(***************************************************************************)
(* Theorems of Sessions, for any number of tabs and of requests.           *)
(***************************************************************************)
EXTENDS Sessions, TLAPS

Token == [live: BOOLEAN, pv: Nat]

-------------------------------------------------------------------------------
(***************************************************************************)
(* What the commits make of the table.                                     *)
(***************************************************************************)

LEMMA RowType == ASSUME tokens \in Seq(Token), NEW i \in TokenIds PROVE tokens[i] \in Token
  BY DEF TokenIds

\* A revoked row keeps its place and its version, and the other rows are kept.
LEMMA RevokedRows ==
    ASSUME tokens \in Seq(Token), NEW i \in TokenIds
    PROVE  /\ Revoked(i) \in Seq(Token)
           /\ Len(Revoked(i)) = Len(tokens) /\ DOMAIN Revoked(i) = TokenIds
           /\ \A j \in TokenIds :
                 /\ Revoked(i)[j].pv = tokens[j].pv
                 /\ Revoked(i)[j].live => tokens[j].live
<1>1. tokens[i] \in Token
  BY DEF TokenIds
<1>2. [tokens[i] EXCEPT !.live = FALSE] \in Token
  BY <1>1 DEF Token
<1>3. Revoked(i) = [tokens EXCEPT ![i] = [tokens[i] EXCEPT !.live = FALSE]]
  BY DEF Revoked
<1>4. Revoked(i) \in Seq(Token) /\ Len(Revoked(i)) = Len(tokens) /\ DOMAIN Revoked(i) = TokenIds
  BY <1>2, <1>3 DEF TokenIds
<1>5. ASSUME NEW j \in TokenIds
      PROVE  Revoked(i)[j].pv = tokens[j].pv /\ (Revoked(i)[j].live => tokens[j].live)
  BY <1>1, <1>3 DEF TokenIds, Token
<1> QED
  BY <1>4, <1>5

\* So does a change of the password.
LEMMA RevokeAllRows ==
    ASSUME tokens \in Seq(Token), NEW seen
    PROVE  /\ RevokeAll(seen) \in Seq(Token)
           /\ DOMAIN RevokeAll(seen) = TokenIds
           /\ \A j \in TokenIds : RevokeAll(seen)[j].live => j \notin seen /\ tokens[j].live
<1>1. \A j \in TokenIds : tokens[j] \in Token
  BY DEF TokenIds
<1>2. \A j \in TokenIds : RevokeAll(seen)[j] \in Token
  BY <1>1 DEF RevokeAll, Token
<1>3. RevokeAll(seen) = [j \in 1..Len(tokens) |-> RevokeAll(seen)[j]] /\ Len(tokens) \in Nat
  BY DEF RevokeAll, TokenIds
<1>4. RevokeAll(seen) \in Seq(Token)
  BY <1>2, <1>3 DEF TokenIds
<1>5. \A j \in TokenIds : RevokeAll(seen)[j].live => j \notin seen /\ tokens[j].live
  BY <1>1 DEF RevokeAll, Token
<1> QED
  BY <1>4, <1>5 DEF RevokeAll

\* A new row comes after the others.
LEMMA InsertedRow ==
    ASSUME NEW s \in Seq(Token), NEW row \in Token
    PROVE  /\ Append(s, row) \in Seq(Token)
           /\ DOMAIN Append(s, row) = DOMAIN s \cup {Len(s) + 1}
           /\ Append(s, row)[Len(s) + 1] = row
           /\ \A j \in DOMAIN s : Append(s, row)[j] = s[j] /\ j # Len(s) + 1
  OBVIOUS
-------------------------------------------------------------------------------
(***************************************************************************)
(* Type correctness.                                                       *)
(***************************************************************************)

\* A request that moves on, and one that is over.
LEMMA CallsMoveOn ==
    ASSUME requests \subseteq {c \in Calls : Sound(c)}, TokenIds \subseteq TokenIds',
           NEW c \in requests, NEW d \in Calls', Sound(d)', Set(c, d)
    PROVE  (requests \subseteq {x \in Calls : Sound(x)})'
<1>1. \A x \in requests : x \in Calls' /\ Sound(x)'
  BY DEF Calls, Sound
<1> QED
  BY <1>1 DEF Set

LEMMA CallsOver ==
    ASSUME requests \subseteq {c \in Calls : Sound(c)}, TokenIds \subseteq TokenIds',
           NEW c \in requests, Over(c)
    PROVE  (requests \subseteq {x \in Calls : Sound(x)})'
<1>1. \A x \in requests : x \in Calls' /\ Sound(x)'
  BY DEF Calls, Sound
<1> QED
  BY <1>1 DEF Over

\* What an answer leaves in the memory of its page.
LEMMA UpdatedMemory ==
    ASSUME tab \in [Tabs -> Memory], NEW c \in Calls, NEW m \in Memory, UpdateTab(c, m)
    PROVE  tab' \in [Tabs -> Memory]
BY DEF UpdateTab, Calls

LEMMA InitTypeOK == SessionsInit => SessionsTypeOK
<1> SUFFICES ASSUME SessionsInit PROVE SessionsTypeOK
  OBVIOUS
<1>1. tokens = <<>> => tokens \in Seq(Token) /\ cookie \in TokenIds \cup {None}
  BY DEF SessionsInit, TokenIds
<1>2. ASSUME tokens # <<>>
      PROVE  tokens \in Seq(Token) /\ cookie \in TokenIds \cup {None}
  <2>1. PICK row \in Token : tokens = <<row>>
    BY <1>2 DEF SessionsInit, Token
  <2>2. tokens \in Seq(Token) /\ Len(tokens) = 1
    BY <2>1
  <2>3. DOMAIN tokens = 1..1 /\ cookie = 1
    BY <1>2, <2>2 DEF SessionsInit
  <2> QED
    BY <2>2, <2>3 DEF TokenIds
<1>3. Nobody \in Memory
  BY DEF Nobody, Fresh, Memory
<1>4. /\ pv \in Nat /\ change \in (SUBSET TokenIds) \cup {None}
      /\ tab \in [Tabs -> Memory] /\ requests = {} /\ astray = {}
      /\ clashed \in BOOLEAN /\ left \in BOOLEAN /\ rushed = {}
      /\ tabsUsed \in [calls: Nat, changes: Nat, lost: Nat]
  BY <1>3 DEF SessionsInit
<1> QED
  BY <1>1, <1>2, <1>4 DEF SessionsTypeOK, Token

\* A request that leaves.
LEMMA CallType ==
    ASSUME SessionsTypeOK, NEW t \in Tabs, NEW task \in {"refresh", "login", "logout"}
    PROVE  Call(t, task) \in {c \in Calls : Sound(c)}
BY DEF SessionsTypeOK, Call, Calls, Sound

LEMMA NextTypeOK == SessionsTypeOK /\ [SessionsNext]_sessionVars => SessionsTypeOK'
<1> SUFFICES ASSUME SessionsTypeOK, [SessionsNext]_sessionVars
             PROVE  SessionsTypeOK'
  OBVIOUS
<1> USE DEF Token
<1>1. ASSUME NEW t \in Tabs, LoadSession(t)
      PROVE  SessionsTypeOK'
  <2>1. TokenIds' = TokenIds
    BY <1>1 DEF LoadSession, TokenIds
  <2>2. \A c \in requests : [c EXCEPT !.alive = FALSE] \in {x \in Calls : Sound(x)}
    BY DEF SessionsTypeOK, Calls, Sound
  <2>3. requests' \subseteq {c \in Calls : Sound(c)}
    BY <1>1, <2>2, CallType DEF LoadSession, SessionsTypeOK
  <2>4. tab' \in [Tabs -> Memory]
    BY <1>1 DEF LoadSession, SessionsTypeOK, Memory, Fresh
  <2>5. tabsUsed' \in [calls: Nat, changes: Nat, lost: Nat]
    BY <1>1 DEF LoadSession, SessionsTypeOK, TabClicked
  <2> QED
    BY <1>1, <2>1, <2>3, <2>4, <2>5 DEF LoadSession, SessionsTypeOK, Calls, Sound
<1>2. ASSUME NEW t \in Tabs, SubmitLogin(t) \/ Logout(t)
      PROVE  SessionsTypeOK'
  <2>1. TokenIds' = TokenIds
    BY <1>2 DEF SubmitLogin, Logout, TokenIds
  <2>2. requests' \subseteq {c \in Calls : Sound(c)}
    BY <1>2, CallType DEF SubmitLogin, Logout, SessionsTypeOK
  <2>3. tabsUsed' \in [calls: Nat, changes: Nat, lost: Nat] /\ rushed' \subseteq Tabs
    BY <1>2 DEF SubmitLogin, Logout, SessionsTypeOK, TabClicked
  <2> QED
    BY <1>2, <2>1, <2>2, <2>3 DEF SubmitLogin, Logout, SessionsTypeOK, Calls, Sound
<1>3. ASSUME NEW c \in requests, Find(c)
      PROVE  SessionsTypeOK'
  <2>1. TokenIds' = TokenIds
    BY <1>3 DEF Find, TokenIds
  <2>2. PICK d \in Calls : Sound(d) /\ Set(c, d)
    <3>1. CASE /\ c.task = "refresh"
               /\ Set(c, [c EXCEPT !.at = IF Usable(c.sent) THEN "found" ELSE "refused"])
      <4>1. [c EXCEPT !.at = IF Usable(c.sent) THEN "found" ELSE "refused"] \in Calls
        BY DEF SessionsTypeOK, Calls
      <4>2. Sound([c EXCEPT !.at = IF Usable(c.sent) THEN "found" ELSE "refused"])
        BY <3>1 DEF SessionsTypeOK, Calls, Sound, Usable
      <4> QED
        BY <3>1, <4>1, <4>2
    <3>2. CASE c.task = "login" /\ Set(c, [c EXCEPT !.at = "found", !.ver = pv])
      <4>1. [c EXCEPT !.at = "found", !.ver = pv] \in Calls
        BY DEF SessionsTypeOK, Calls
      <4>2. Sound([c EXCEPT !.at = "found", !.ver = pv])
        BY <3>2 DEF SessionsTypeOK, Calls, Sound
      <4> QED
        BY <3>2, <4>1, <4>2
    <3>3. CASE c.task = "login" /\ Set(c, [c EXCEPT !.at = "refused"])
      <4>1. [c EXCEPT !.at = "refused"] \in Calls
        BY DEF SessionsTypeOK, Calls
      <4>2. Sound([c EXCEPT !.at = "refused"])
        BY DEF SessionsTypeOK, Calls, Sound
      <4> QED
        BY <3>3, <4>1, <4>2
    <3> QED
      BY <1>3, <3>1, <3>2, <3>3 DEF Find
  <2>3. (requests \subseteq {x \in Calls : Sound(x)})'
    BY <2>1, <2>2, CallsMoveOn DEF SessionsTypeOK, Calls, Sound
  <2> QED
    BY <1>3, <2>1, <2>3 DEF Find, SessionsTypeOK
<1>4. ASSUME NEW c \in requests, Rotate(c)
      PROVE  SessionsTypeOK'
  <2> DEFINE kept  == IF c.task = "login" THEN tokens ELSE Revoked(c.sent)
             began == IF c.task = "login" THEN c.ver ELSE tokens[c.sent].pv
             row   == [live |-> TRUE, pv |-> began]
             new   == Len(tokens) + 1
  <2>1. c \in Calls /\ Sound(c) /\ c.at = "found" /\ tokens \in Seq(Token)
    BY <1>4 DEF Rotate, SessionsTypeOK
  <2>2. c.task # "login" => c.sent \in TokenIds /\ tokens[c.sent] \in Token
    <3>1. c.task # "login" => c.sent \in TokenIds
      BY <2>1 DEF Sound
    <3>2. \A i \in TokenIds : tokens[i] \in Token
      BY <2>1, RowType
    <3> QED
      BY <3>1, <3>2
  <2>3. row \in Token
    BY <2>1, <2>2 DEF Sound
  <2>4. kept \in Seq(Token) /\ Len(kept) = Len(tokens) /\ DOMAIN kept = TokenIds
    BY <2>1, <2>2, RevokedRows DEF TokenIds
  <2>5. tokens' = Append(kept, row)
    BY <1>4 DEF Rotate
  <2> HIDE DEF kept, row
  <2>6. tokens' \in Seq(Token) /\ TokenIds' = TokenIds \cup {new}
    BY <2>3, <2>4, <2>5, InsertedRow DEF TokenIds
  <2>7. PICK d \in Calls' : d = [c EXCEPT !.at = "done", !.got = new, !.ver = pv]
    BY <2>1, <2>6 DEF Calls, SessionsTypeOK
  <2>8. (requests \subseteq {x \in Calls : Sound(x)})'
    <3>1. Set(c, d)
      BY <1>4, <2>7 DEF Rotate
    <3>2. d.at = "done" /\ d.got \in TokenIds' /\ d.ver \in Nat
      BY <2>1, <2>6, <2>7 DEF Calls, SessionsTypeOK
    <3>3. Sound(d)'
      BY <3>2 DEF Sound
    <3> QED
      BY <2>6, <2>7, <3>1, <3>3, CallsMoveOn DEF SessionsTypeOK
  <2>9. astray' \subseteq TokenIds' /\ change' \in ((SUBSET TokenIds) \cup {None})'
    BY <1>4, <2>6 DEF Rotate, SessionsTypeOK
  <2> QED
    BY <1>4, <2>6, <2>8, <2>9 DEF Rotate, SessionsTypeOK
<1>5. ASSUME NEW c \in requests, EndSession(c)
      PROVE  SessionsTypeOK'
  <2>1. c \in Calls /\ Sound(c) /\ c.at = "sent" /\ c.task = "logout" /\ tokens \in Seq(Token)
    BY <1>5 DEF EndSession, SessionsTypeOK
  <2>2. tokens' \in Seq(Token) /\ TokenIds' = TokenIds
    <3>1. CASE c.sent = None
      BY <1>5, <2>1, <3>1 DEF EndSession, TokenIds
    <3>2. CASE c.sent # None
      <4>1. c.sent \in TokenIds /\ tokens' = Revoked(c.sent)
        BY <1>5, <2>1, <3>2 DEF EndSession, Calls
      <4> QED
        BY <2>1, <4>1, RevokedRows DEF TokenIds
    <3> QED
      BY <3>1, <3>2
  <2>3. [c EXCEPT !.at = "done"] \in Calls /\ Sound([c EXCEPT !.at = "done"])
    BY <2>1 DEF Calls, Sound
  <2>4. Set(c, [c EXCEPT !.at = "done"])
    BY <1>5 DEF EndSession
  <2>5. (requests \subseteq {x \in Calls : Sound(x)})'
    BY <2>2, <2>3, <2>4, CallsMoveOn DEF SessionsTypeOK, Calls, Sound
  <2> QED
    BY <1>5, <2>2, <2>5 DEF EndSession, SessionsTypeOK
<1>6. ASSUME ReadSessions
      PROVE  SessionsTypeOK'
  <2>1. TokenIds' = TokenIds
    BY <1>6 DEF ReadSessions, TokenIds
  <2>2. change' \in SUBSET TokenIds /\ tabsUsed' \in [calls: Nat, changes: Nat, lost: Nat]
    BY <1>6 DEF ReadSessions, SessionsTypeOK
  <2>3. (requests \subseteq {x \in Calls : Sound(x)})'
    BY <1>6, <2>1 DEF ReadSessions, SessionsTypeOK, Calls, Sound
  <2> QED
    BY <1>6, <2>1, <2>2, <2>3 DEF ReadSessions, SessionsTypeOK
<1>7. ASSUME ChangePassword
      PROVE  SessionsTypeOK'
  <2>1. tokens \in Seq(Token)
    BY DEF SessionsTypeOK
  <2>2. tokens' \in Seq(Token) /\ TokenIds' = TokenIds
    BY <1>7, <2>1, RevokeAllRows DEF ChangePassword, TokenIds
  <2>3. astray' \subseteq TokenIds /\ pv' \in Nat /\ clashed' \in BOOLEAN
    BY <1>7 DEF ChangePassword, SessionsTypeOK
  <2>4. (requests \subseteq {x \in Calls : Sound(x)})'
    BY <1>7, <2>2 DEF ChangePassword, SessionsTypeOK, Calls, Sound
  <2> QED
    BY <1>7, <2>2, <2>3, <2>4 DEF ChangePassword, SessionsTypeOK
<1>8. ASSUME NEW c \in requests, AnswerRequest(c)
      PROVE  SessionsTypeOK'
  <2> DEFINE ver == IF c.task = "login" THEN c.ver ELSE pv
             t   == tab[c.of]
             d   == [c EXCEPT !.at = "me", !.ver = ver]
             won == [t EXCEPT !.token = ver, !.store = ver, !.loading = @ \/ c.task = "login"]
             gone == [Nobody EXCEPT !.loading = t.loading]
  <2>1. c \in Calls /\ Sound(c) /\ t \in Memory /\ Nobody \in Memory
    BY DEF SessionsTypeOK, Calls, Memory, Nobody, Fresh
  <2>2. TokenIds' = TokenIds
    BY <1>8 DEF AnswerRequest, TokenIds
  <2>3. cookie' \in TokenIds \cup {None}
    BY <1>8, <2>1 DEF AnswerRequest, NewCookie, SessionsTypeOK, Calls, Sound
  <2>4. /\ (requests \subseteq {x \in Calls : Sound(x)})'
        /\ tab' \in [Tabs -> Memory]
    <3>1. CASE c.task = "logout"
      <4>1. Over(c) /\ UpdateTab(c, gone)
        BY <1>8, <3>1 DEF AnswerRequest
      <4>2. gone \in Memory
        BY <2>1 DEF Memory
      <4> HIDE DEF gone
      <4> QED
        BY <2>1, <2>2, <4>1, <4>2, CallsOver, UpdatedMemory DEF SessionsTypeOK
    <3>2. CASE c.task # "logout" /\ c.at = "done"
      <4>1. /\ IF c.alive THEN Set(c, d) ELSE Over(c)
            /\ UpdateTab(c, won)
        BY <1>8, <3>2 DEF AnswerRequest
      <4>2. ver \in Nat
        BY <2>1, <3>2 DEF SessionsTypeOK, Sound
      <4>3. won \in Memory
        BY <2>1, <4>2 DEF Memory
      <4>4. PICK n : n = d
        OBVIOUS
      <4>5. n \in Calls /\ Sound(n)
        BY <2>1, <4>2, <4>4 DEF Calls, Sound
      <4>6. n \in Calls' /\ Sound(n)'
        BY <2>2, <4>5 DEF Calls, Sound
      <4>7. (requests \subseteq {x \in Calls : Sound(x)})'
        <5>1. CASE c.alive
          BY <2>2, <4>1, <4>4, <4>6, <5>1, CallsMoveOn DEF SessionsTypeOK
        <5>2. CASE ~c.alive
          BY <2>2, <4>1, <5>2, CallsOver DEF SessionsTypeOK
        <5> QED
          BY <5>1, <5>2
      <4> HIDE DEF won
      <4> QED
        BY <2>1, <4>1, <4>3, <4>7, UpdatedMemory DEF SessionsTypeOK
    <3>3. CASE c.task # "logout" /\ c.at # "done" /\ c.task = "refresh"
      <4>1. Over(c) /\ UpdateTab(c, Nobody)
        BY <1>8, <3>3 DEF AnswerRequest
      <4> QED
        BY <2>1, <2>2, <4>1, CallsOver, UpdatedMemory DEF SessionsTypeOK
    <3>4. CASE c.task # "logout" /\ c.at # "done" /\ c.task # "refresh"
      <4>1. Over(c) /\ UNCHANGED tab
        BY <1>8, <3>4 DEF AnswerRequest
      <4> QED
        BY <2>1, <2>2, <4>1, CallsOver DEF SessionsTypeOK
    <3> QED
      BY <3>1, <3>2, <3>3, <3>4
  <2>5. clashed' \in BOOLEAN /\ left' \in BOOLEAN
    BY <1>8 DEF AnswerRequest, SessionsTypeOK
  <2>6. UNCHANGED <<tokens, pv, change, astray, rushed, tabsUsed>>
    BY <1>8 DEF AnswerRequest
  <2> QED
    BY <2>2, <2>3, <2>4, <2>5, <2>6 DEF SessionsTypeOK
<1>9. ASSUME NEW c \in requests, GetMe(c)
      PROVE  SessionsTypeOK'
  <2> DEFINE t == tab[c.of]
             m == [t EXCEPT !.loading = FALSE,
                            !.token = IF c.ver = pv THEN @ ELSE None,
                            !.user  = IF c.ver = pv THEN TRUE
                                      ELSE IF c.task = "login" THEN FALSE ELSE @]
  <2>1. c \in Calls /\ t \in Memory
    BY DEF SessionsTypeOK, Calls
  <2>2. m \in Memory
    BY <2>1 DEF Memory
  <2>3. Over(c) /\ UpdateTab(c, m)
    BY <1>9 DEF GetMe
  <2>4. /\ TokenIds' = TokenIds
        /\ UNCHANGED <<tokens, pv, change, cookie, astray, clashed, rushed, left, tabsUsed>>
    BY <1>9 DEF GetMe, TokenIds
  <2> HIDE DEF m
  <2>5. tab' \in [Tabs -> Memory] /\ (requests \subseteq {x \in Calls : Sound(x)})'
    BY <2>1, <2>2, <2>3, <2>4, CallsOver, UpdatedMemory DEF SessionsTypeOK
  <2> QED
    BY <2>4, <2>5 DEF SessionsTypeOK
<1>10. ASSUME NEW c \in requests, Lose(c)
       PROVE  SessionsTypeOK'
  <2> DEFINE t    == tab[c.of]
             out  == [t EXCEPT !.token = None, !.user = FALSE, !.loading = FALSE]
             gone == [Nobody EXCEPT !.loading = t.loading]
  <2>1. c \in Calls /\ t \in Memory /\ Nobody \in Memory
    BY DEF SessionsTypeOK, Calls, Memory, Nobody, Fresh
  <2>2. out \in Memory /\ gone \in Memory
    BY <2>1 DEF Memory
  <2>3. /\ Over(c)
        /\ UNCHANGED tab \/ UpdateTab(c, out) \/ UpdateTab(c, gone) \/ UpdateTab(c, Nobody)
    BY <1>10 DEF Lose
  <2>4. /\ TokenIds' = TokenIds
        /\ UNCHANGED <<tokens, pv, change, cookie, astray, clashed, rushed, left>>
    BY <1>10 DEF Lose, TokenIds
  <2>5. tabsUsed' \in [calls: Nat, changes: Nat, lost: Nat]
    BY <1>10 DEF Lose, SessionsTypeOK
  <2> HIDE DEF out, gone
  <2>6. tab' \in [Tabs -> Memory]
    BY <2>1, <2>2, <2>3, UpdatedMemory DEF SessionsTypeOK
  <2>7. (requests \subseteq {x \in Calls : Sound(x)})'
    BY <2>3, <2>4, CallsOver DEF SessionsTypeOK
  <2> QED
    BY <2>4, <2>5, <2>6, <2>7 DEF SessionsTypeOK
<1>11. ASSUME UNCHANGED sessionVars
       PROVE  SessionsTypeOK'
  BY <1>11 DEF sessionVars, SessionsTypeOK, Calls, Sound, TokenIds
<1> QED
  BY <1>1, <1>2, <1>3, <1>4, <1>5, <1>6, <1>7, <1>8, <1>9, <1>10, <1>11
  DEF SessionsNext, SessionsRest

\* Every reachable state is type correct: a cookie and a request name rows that exist, a
\* request that found its row knows with which password its chain began.
THEOREM SessionsTypeCorrect == SessionsSpec => []SessionsTypeOK
<1>1. SessionsInit => SessionsTypeOK
  BY InitTypeOK
<1>2. SessionsTypeOK /\ [SessionsNext]_sessionVars => SessionsTypeOK'
  BY NextTypeOK
<1> QED
  BY <1>1, <1>2, PTL DEF SessionsSpec

-------------------------------------------------------------------------------
(***************************************************************************)
(* A changed password ends the sessions.  The property is inductive by      *)
(* itself, given the types: a row is inserted with the version of its chain,*)
(* and one that is revoked stays so.                                        *)
(***************************************************************************)

LEMMA InitOldSessionsEnd == SessionsInit => OldSessionsEnd
<1> SUFFICES ASSUME SessionsInit, NEW i \in TokenIds
             PROVE  tokens[i].pv = pv
  BY DEF OldSessionsEnd
<1>1. tokens # <<>>
  BY DEF TokenIds
<1>2. tokens = <<[live |-> TRUE, pv |-> 0]>> /\ pv = 0
  BY <1>1 DEF SessionsInit
<1>3. i = 1
  BY <1>2 DEF TokenIds
<1> QED
  BY <1>2, <1>3

LEMMA NextOldSessionsEnd ==
    SessionsTypeOK /\ OldSessionsEnd /\ [SessionsNext]_sessionVars => OldSessionsEnd'
<1> SUFFICES ASSUME SessionsTypeOK, OldSessionsEnd, [SessionsNext]_sessionVars
             PROVE  OldSessionsEnd'
  OBVIOUS
<1>0. tokens \in Seq(Token)
  BY DEF SessionsTypeOK, Token
<1>1. ASSUME UNCHANGED <<tokens, pv, astray>>
      PROVE  OldSessionsEnd'
  BY <1>1 DEF OldSessionsEnd, TokenIds
<1>2. ASSUME NEW c \in requests, Rotate(c)
      PROVE  OldSessionsEnd'
  <2> DEFINE login == c.task = "login"
             kept  == IF login THEN tokens ELSE Revoked(c.sent)
             began == IF login THEN c.ver ELSE tokens[c.sent].pv
             stale == IF login THEN c.ver # pv
                      ELSE c.sent \in astray \/ (~tokens[c.sent].live /\ began # pv)
             row   == [live |-> TRUE, pv |-> began]
             new   == Len(tokens) + 1
  <2>1. c \in Calls /\ Sound(c) /\ c.at = "found"
    BY <1>2 DEF Rotate, SessionsTypeOK
  <2>2. ~login => c.sent \in TokenIds /\ tokens[c.sent] \in Token
    BY <1>0, <2>1 DEF Sound, TokenIds
  <2>3. row \in Token
    BY <2>1, <2>2 DEF Sound, Token
  <2>4. /\ kept \in Seq(Token) /\ Len(kept) = Len(tokens) /\ DOMAIN kept = TokenIds
        /\ \A j \in TokenIds : kept[j].pv = tokens[j].pv /\ (kept[j].live => tokens[j].live)
    BY <1>0, <2>2, RevokedRows DEF TokenIds
  <2>5. tokens' = Append(kept, row) /\ astray' = astray \cup {i \in {new} : stale} /\ pv' = pv
    BY <1>2 DEF Rotate
  <2>6. stale \/ began = pv
    BY <2>1, <2>2 DEF OldSessionsEnd
  <2>7. row.pv = began
    OBVIOUS
  <2> HIDE DEF kept, row, began, stale
  <2>8. /\ TokenIds' = TokenIds \cup {new} /\ tokens'[new] = row
        /\ \A j \in TokenIds : tokens'[j] = kept[j]
    BY <2>3, <2>4, <2>5, InsertedRow DEF TokenIds
  <2>9. tokens'[new].pv = pv' \/ new \in astray'
    BY <2>5, <2>6, <2>7, <2>8
  <2>10. ASSUME NEW j \in TokenIds, tokens'[j].live
         PROVE  tokens'[j].pv = pv' \/ j \in astray'
    BY <2>4, <2>5, <2>8, <2>10 DEF OldSessionsEnd
  <2> QED
    BY <2>8, <2>9, <2>10 DEF OldSessionsEnd
<1>3. ASSUME NEW c \in requests, EndSession(c)
      PROVE  OldSessionsEnd'
  <2>1. UNCHANGED <<pv, astray>>
    BY <1>3 DEF EndSession
  <2>2. CASE c.sent = None
    BY <1>1, <1>3, <2>1, <2>2 DEF EndSession
  <2>3. CASE c.sent # None
    <3>1. c.sent \in TokenIds /\ tokens' = Revoked(c.sent)
      BY <1>3, <2>3 DEF EndSession, SessionsTypeOK, Calls
    <3>2. /\ TokenIds' = TokenIds
          /\ \A j \in TokenIds :
                tokens'[j].pv = tokens[j].pv /\ (tokens'[j].live => tokens[j].live)
      BY <1>0, <3>1, RevokedRows DEF TokenIds
    <3> QED
      BY <2>1, <3>2 DEF OldSessionsEnd
  <2> QED
    BY <2>2, <2>3
<1>4. ASSUME ChangePassword
      PROVE  OldSessionsEnd'
  <2>1. /\ tokens' = RevokeAll(change)
        /\ astray' = astray \cup {i \in TokenIds : tokens[i].live /\ i \notin change}
    BY <1>4 DEF ChangePassword
  <2>2. /\ TokenIds' = TokenIds
        /\ \A j \in TokenIds : tokens'[j].live => j \notin change /\ tokens[j].live
    BY <1>0, <2>1, RevokeAllRows DEF TokenIds
  <2> QED
    BY <2>1, <2>2 DEF OldSessionsEnd
<1>5. ASSUME \/ \E t \in Tabs : LoadSession(t) \/ SubmitLogin(t) \/ Logout(t)
             \/ \E c \in requests : Find(c) \/ AnswerRequest(c) \/ GetMe(c) \/ Lose(c)
             \/ ReadSessions \/ UNCHANGED sessionVars
      PROVE  UNCHANGED <<tokens, pv, astray>>
  BY <1>5 DEF LoadSession, SubmitLogin, Logout, Find, AnswerRequest, GetMe, Lose, ReadSessions,
              sessionVars
<1> QED
  BY <1>1, <1>2, <1>3, <1>4, <1>5 DEF SessionsNext, SessionsRest

\* After a change of the password no session that began with an older one goes on,
\* whatever crosses, but for the chains whose rotation or login was under way.
THEOREM ChangedPasswordEndsSessions == SessionsSpec => []OldSessionsEnd
<1>1. SessionsInit => SessionsTypeOK /\ OldSessionsEnd
  BY InitTypeOK, InitOldSessionsEnd
<1>2. SessionsTypeOK /\ OldSessionsEnd /\ [SessionsNext]_sessionVars
          => SessionsTypeOK' /\ OldSessionsEnd'
  BY NextTypeOK, NextOldSessionsEnd
<1> QED
  BY <1>1, <1>2, PTL DEF SessionsSpec

-------------------------------------------------------------------------------
(***************************************************************************)
(* What a tab shows.  A tab is loading as long as a request that will end   *)
(* it is under way; the requests of a tab that come one at a time find it   *)
(* without a user, or with the token of the answer before.                 *)
(***************************************************************************)

EndsLoading(c) == c.task = "refresh" \/ (c.task = "login" /\ c.at = "me")

TabSound(t) ==
    /\ tab[t].token # None => tab[t].store # None
    /\ tab[t].loading => \E c \in Busy(t) : EndsLoading(c)
    /\ t \notin rushed =>
          /\ tab[t].user => tab[t].token # None
          /\ \A c, d \in Busy(t) : c = d
          /\ \A c \in Busy(t) :
                /\ c.task = "refresh" => ~tab[t].user
                /\ c.at = "me" => c.task # "logout" /\ tab[t].token # None

TabsSound == \A t \in Tabs : TabSound(t)

\* A request that is over, with the memory it leaves in its tab.
LEMMA OverKeepsTabs ==
    ASSUME SessionsTypeOK, TabsSound, NEW c \in requests, NEW m \in Memory,
           Over(c), UpdateTab(c, m), UNCHANGED rushed,
           m.token # None => m.store # None,
           m.loading => tab[c.of].loading /\ ~EndsLoading(c),
           c.of \notin rushed => (m.user => m.token # None)
    PROVE  TabsSound'
<1> SUFFICES ASSUME NEW t \in Tabs
             PROVE  TabSound(t)'
  BY DEF TabsSound
<1>1. requests' = requests \ {c} /\ Busy(t)' = Busy(t) \ {c}
  BY DEF Over, Busy
<1>2. TabSound(t) /\ tab \in [Tabs -> Memory]
  BY DEF TabsSound, SessionsTypeOK
<1>3. CASE c.alive /\ c.of = t
  <2>1. tab'[t] = m
    BY <1>2, <1>3 DEF UpdateTab
  <2>2. c \in Busy(t)
    BY <1>3 DEF Busy
  <2>3. t \notin rushed => Busy(t)' = {}
    BY <1>1, <1>2, <2>2 DEF TabSound
  <2>4. m.loading => \E d \in Busy(t)' : EndsLoading(d)
    BY <1>1, <1>2, <1>3 DEF TabSound
  <2>5. QED
    BY <1>3, <2>1, <2>3, <2>4 DEF TabSound
<1>4. CASE ~(c.alive /\ c.of = t)
  <2>1. tab'[t] = tab[t]
    BY <1>2, <1>4 DEF UpdateTab
  <2>2. Busy(t)' = Busy(t)
    BY <1>1, <1>4 DEF Busy
  <2>3. QED
    BY <1>2, <2>1, <2>2 DEF TabSound
<1>5. QED
  BY <1>3, <1>4

LEMMA DeadKeepsTabs ==
    ASSUME TabsSound, NEW c \in requests, ~c.alive, Over(c), UNCHANGED <<tab, rushed>>
    PROVE  TabsSound'
<1>1. \A t \in Tabs : Busy(t)' = Busy(t)
  BY DEF Busy, Over
<1>2. QED
  BY <1>1 DEF TabsSound, TabSound

\* A request that moves on before its answer, or without one.
LEMMA MoveKeepsTabs ==
    ASSUME TabsSound, NEW c \in requests, NEW d, Set(c, d), UNCHANGED <<tab, rushed>>,
           d.of = c.of, d.alive = c.alive, d.task = c.task, d.at # "me", c.at # "me"
    PROVE  TabsSound'
<1> SUFFICES ASSUME NEW t \in Tabs
             PROVE  TabSound(t)'
  BY DEF TabsSound
<1>1. requests' = (requests \ {c}) \cup {d} /\ TabSound(t)
  BY DEF Set, TabsSound
<1>2. CASE c \in Busy(t)
  <2>1. Busy(t)' = (Busy(t) \ {c}) \cup {d}
    BY <1>1, <1>2 DEF Busy
  <2>2. EndsLoading(c) => EndsLoading(d)
    BY DEF EndsLoading
  <2>3. QED
    BY <1>1, <1>2, <2>1, <2>2 DEF TabSound
<1>3. CASE c \notin Busy(t)
  <2>1. Busy(t)' = Busy(t)
    BY <1>1, <1>3 DEF Busy
  <2>2. QED
    BY <1>1, <2>1 DEF TabSound
<1>4. QED
  BY <1>2, <1>3

\* The answer with a token, after which the page asks for its user.
LEMMA TokenKeepsTabs ==
    ASSUME SessionsTypeOK, TabsSound, NEW c \in requests, c.alive, NEW d, Set(c, d),
           NEW m \in Memory, UpdateTab(c, m), UNCHANGED rushed,
           d.of = c.of, d.alive = c.alive, d.task = c.task, d.at = "me", c.task # "logout",
           m.token # None, m.store # None, m.user = tab[c.of].user
    PROVE  TabsSound'
<1> SUFFICES ASSUME NEW t \in Tabs
             PROVE  TabSound(t)'
  BY DEF TabsSound
<1>1. requests' = (requests \ {c}) \cup {d} /\ TabSound(t) /\ tab \in [Tabs -> Memory]
  BY DEF Set, TabsSound, SessionsTypeOK
<1>2. CASE c.of = t
  <2>1. c \in Busy(t) /\ d \in Busy(t)' /\ Busy(t)' = (Busy(t) \ {c}) \cup {d}
    BY <1>1, <1>2 DEF Busy
  <2>2. tab'[t] = m
    BY <1>1, <1>2 DEF UpdateTab
  <2>3. EndsLoading(d)
    BY DEF EndsLoading, SessionsTypeOK, Calls
  <2>4. t \notin rushed => Busy(t)' = {d}
    BY <1>1, <2>1 DEF TabSound
  <2>5. t \notin rushed => (d.task = "refresh" => ~m.user)
    BY <1>1, <1>2, <2>1 DEF TabSound
  <2>6. QED
    BY <2>1, <2>2, <2>3, <2>4, <2>5 DEF TabSound
<1>3. CASE c.of # t
  <2>1. Busy(t)' = Busy(t) /\ tab'[t] = tab[t]
    BY <1>1, <1>3 DEF Busy, UpdateTab
  <2>2. QED
    BY <1>1, <2>1 DEF TabSound
<1>4. QED
  BY <1>2, <1>3

LEMMA LoadKeepsTabs ==
    ASSUME SessionsTypeOK, TabsSound, NEW u \in Tabs, LoadSession(u)
    PROVE  TabsSound'
<1> SUFFICES ASSUME NEW t \in Tabs
             PROVE  TabSound(t)'
  BY DEF TabsSound
<1> DEFINE left_(c) == IF c.of = u THEN [c EXCEPT !.alive = FALSE] ELSE c
           n == Call(u, "refresh")
<1>1. /\ requests' = {left_(c) : c \in requests} \cup {n} /\ tab' = [tab EXCEPT ![u] = Fresh]
      /\ rushed' = rushed \ {u}
  BY DEF LoadSession
<1>2. TabSound(t) /\ tab \in [Tabs -> Memory] /\ \A c \in requests : c \in Calls
  BY DEF TabsSound, SessionsTypeOK
<1>3. n.of = u /\ n.alive /\ n.task = "refresh" /\ n.at = "sent"
  BY DEF Call
<1>4. \A c \in requests :
         /\ c.of = u => left_(c).of = u /\ ~left_(c).alive
         /\ c.of # u => left_(c) = c
  BY <1>2 DEF Calls
<1> HIDE DEF n, left_
<1>5. CASE t = u
  <2>1. Busy(t)' = {n}
    BY <1>1, <1>3, <1>4, <1>5 DEF Busy
  <2>2. tab'[t] = Fresh /\ Fresh.token = None /\ ~Fresh.user /\ EndsLoading(n)
    BY <1>1, <1>2, <1>3, <1>5 DEF Fresh, EndsLoading
  <2>3. QED
    BY <1>3, <2>1, <2>2 DEF TabSound
<1>6. CASE t # u
  <2>1. Busy(t)' = Busy(t) /\ tab'[t] = tab[t]
    BY <1>1, <1>2, <1>3, <1>4, <1>6 DEF Busy
  <2>2. t \in rushed' <=> t \in rushed
    BY <1>1, <1>6
  <2>3. QED
    BY <1>2, <2>1, <2>2 DEF TabSound
<1>7. QED
  BY <1>5, <1>6

LEMMA SubmitKeepsTabs ==
    ASSUME SessionsTypeOK, TabsSound, NEW u \in Tabs, SubmitLogin(u) \/ Logout(u)
    PROVE  TabsSound'
<1> SUFFICES ASSUME NEW t \in Tabs
             PROVE  TabSound(t)'
  BY DEF TabsSound
<1>1. PICK n : /\ requests' = requests \cup {n} /\ n.of = u /\ n.task # "refresh" /\ n.at = "sent"
               /\ rushed' = rushed \cup {x \in {u} : Busy(u) # {}} /\ UNCHANGED tab
  <2>1. \A task : Call(u, task).of = u /\ Call(u, task).task = task /\ Call(u, task).at = "sent"
    BY DEF Call
  <2>2. QED
    BY <2>1 DEF SubmitLogin, Logout
<1>2. TabSound(t)
  BY DEF TabsSound
<1>3. Busy(t) \subseteq Busy(t)' /\ Busy(t)' \subseteq Busy(t) \cup {n}
  BY <1>1 DEF Busy
<1>4. CASE t = u /\ Busy(u) = {}
  BY <1>1, <1>2, <1>3, <1>4 DEF TabSound
<1>5. CASE t = u /\ Busy(u) # {}
  BY <1>1, <1>2, <1>3, <1>5 DEF TabSound
<1>6. CASE t # u
  <2>1. Busy(t)' = Busy(t)
    BY <1>1, <1>3, <1>6 DEF Busy
  <2>2. QED
    BY <1>1, <1>2, <1>6, <2>1 DEF TabSound
<1>7. QED
  BY <1>4, <1>5, <1>6

\* What an answer, a look-up of the user and a loss leave in the tab.
LEMMA MemoryLeft ==
    ASSUME NEW t \in Memory, NEW token, NEW b, NEW u
    PROVE  /\ LET m == [t EXCEPT !.token = token, !.store = token, !.loading = b]
              IN  m.token = token /\ m.store = token /\ m.user = t.user /\ m.loading = b
           /\ LET m == [t EXCEPT !.loading = b, !.token = token, !.user = u]
              IN  m.token = token /\ m.store = t.store /\ m.user = u /\ m.loading = b
           /\ LET m == [t EXCEPT !.token = token, !.user = u, !.loading = b]
              IN  m.token = token /\ m.store = t.store /\ m.user = u /\ m.loading = b
           /\ LET m == [t EXCEPT !.loading = b]
              IN  m.token = t.token /\ m.store = t.store /\ m.user = t.user /\ m.loading = b
BY DEF Memory

\* The requests that the back end answers to change no tab.
LEMMA BackEndKeepsTabs ==
    ASSUME SessionsTypeOK, TabsSound, NEW c \in requests, Find(c) \/ Rotate(c) \/ EndSession(c)
    PROVE  TabsSound'
<1>1. c \in Calls /\ UNCHANGED <<tab, rushed>>
  BY DEF SessionsTypeOK, Find, Rotate, EndSession
<1>2. c.at # "me"
  BY DEF Find, Rotate, EndSession
<1>3. \A at, ver, got :
         /\ LET d == [c EXCEPT !.at = at]
            IN  d.of = c.of /\ d.alive = c.alive /\ d.task = c.task /\ d.at = at
         /\ LET d == [c EXCEPT !.at = at, !.ver = ver]
            IN  d.of = c.of /\ d.alive = c.alive /\ d.task = c.task /\ d.at = at
         /\ LET d == [c EXCEPT !.at = at, !.got = got, !.ver = ver]
            IN  d.of = c.of /\ d.alive = c.alive /\ d.task = c.task /\ d.at = at
  BY <1>1 DEF Calls
<1>4. \E d : /\ Set(c, d)
             /\ d.of = c.of /\ d.alive = c.alive /\ d.task = c.task /\ d.at # "me"
  <2>1. \/ \E at \in {"found", "refused", "done"} : Set(c, [c EXCEPT !.at = at])
        \/ \E ver : Set(c, [c EXCEPT !.at = "found", !.ver = ver])
        \/ \E ver, got : Set(c, [c EXCEPT !.at = "done", !.got = got, !.ver = ver])
    <3>1. CASE Find(c)
      <4>1. (IF Usable(c.sent) THEN "found" ELSE "refused") \in {"found", "refused", "done"}
        OBVIOUS
      <4>2. QED
        BY <3>1, <4>1 DEF Find
    <3>2. CASE Rotate(c)
      BY <3>2 DEF Rotate
    <3>3. CASE EndSession(c)
      BY <3>3 DEF EndSession
    <3>4. QED
      BY <3>1, <3>2, <3>3
  <2>2. CASE \E at \in {"found", "refused", "done"} : Set(c, [c EXCEPT !.at = at])
    <3>1. PICK at \in {"found", "refused", "done"} : Set(c, [c EXCEPT !.at = at])
      BY <2>2
    <3> DEFINE d == [c EXCEPT !.at = at]
    <3>2. d.of = c.of /\ d.alive = c.alive /\ d.task = c.task /\ d.at # "me" /\ Set(c, d)
      BY <1>3, <3>1
    <3> HIDE DEF d
    <3>3. QED
      BY <3>2
  <2>3. CASE \E ver : Set(c, [c EXCEPT !.at = "found", !.ver = ver])
    <3>1. PICK ver : Set(c, [c EXCEPT !.at = "found", !.ver = ver])
      BY <2>3
    <3> DEFINE d == [c EXCEPT !.at = "found", !.ver = ver]
    <3>2. d.of = c.of /\ d.alive = c.alive /\ d.task = c.task /\ d.at # "me" /\ Set(c, d)
      BY <1>3, <3>1
    <3> HIDE DEF d
    <3>3. QED
      BY <3>2
  <2>4. CASE \E ver, got : Set(c, [c EXCEPT !.at = "done", !.got = got, !.ver = ver])
    <3>1. PICK ver, got : Set(c, [c EXCEPT !.at = "done", !.got = got, !.ver = ver])
      BY <2>4
    <3> DEFINE d == [c EXCEPT !.at = "done", !.got = got, !.ver = ver]
    <3>2. d.of = c.of /\ d.alive = c.alive /\ d.task = c.task /\ d.at # "me" /\ Set(c, d)
      BY <1>3, <3>1
    <3> HIDE DEF d
    <3>3. QED
      BY <3>2
  <2>5. QED
    BY <2>1, <2>2, <2>3, <2>4
<1>5. PICK d : /\ Set(c, d)
               /\ d.of = c.of /\ d.alive = c.alive /\ d.task = c.task /\ d.at # "me"
  BY <1>4
<1>6. QED
  BY <1>1, <1>2, <1>5, MoveKeepsTabs

LEMMA AnswerKeepsTabs ==
    ASSUME SessionsTypeOK, TabsSound, NEW c \in requests, AnswerRequest(c)
    PROVE  TabsSound'
<1> DEFINE ver == IF c.task = "login" THEN c.ver ELSE pv
           t   == tab[c.of]
           b   == t.loading \/ c.task = "login"
           d   == [c EXCEPT !.at = "me", !.ver = ver]
           won == [t EXCEPT !.token = ver, !.store = ver, !.loading = b]
           gone == [Nobody EXCEPT !.loading = t.loading]
<1>1. c \in Calls /\ Sound(c) /\ t \in Memory /\ Nobody \in Memory /\ UNCHANGED rushed
  BY DEF SessionsTypeOK, Calls, Memory, Nobody, Fresh, AnswerRequest
<1>2. Nobody.token = None /\ ~Nobody.user /\ ~Nobody.loading
  BY DEF Nobody, Fresh
<1>3. CASE c.task = "logout"
  <2>1. Over(c) /\ UpdateTab(c, gone)
    BY <1>3 DEF AnswerRequest
  <2>2. gone \in Memory
    BY <1>1 DEF Memory
  <2>3. gone.token = None /\ ~gone.user /\ gone.loading = t.loading
    BY <1>1, <1>2 DEF Memory
  <2>4. ~EndsLoading(c)
    BY <1>3 DEF EndsLoading
  <2> HIDE DEF gone
  <2>5. QED
    BY <1>1, <2>1, <2>2, <2>3, <2>4, OverKeepsTabs
<1>4. CASE c.task # "logout" /\ c.at = "done"
  <2>1. /\ IF c.alive THEN Set(c, d) ELSE Over(c)
        /\ UpdateTab(c, won)
    BY <1>4 DEF AnswerRequest
  <2>2. ver \in Nat /\ ver # None
    BY <1>1, <1>4, NoneAssumption DEF SessionsTypeOK, Sound
  <2>3. won \in Memory
    BY <1>1, <2>2 DEF Memory
  <2>4. won.token = ver /\ won.store = ver /\ won.user = t.user
    <3> HIDE DEF ver, b
    <3>1. QED
      BY <1>1, MemoryLeft
  <2>5. d.of = c.of /\ d.alive = c.alive /\ d.task = c.task /\ d.at = "me"
    BY <1>1 DEF Calls
  <2> HIDE DEF won, d, ver
  <2>6. CASE c.alive
    BY <1>1, <1>4, <2>1, <2>2, <2>3, <2>4, <2>5, <2>6, TokenKeepsTabs
  <2>7. CASE ~c.alive
    <3>1. Over(c) /\ UNCHANGED tab
      BY <2>1, <2>7 DEF UpdateTab
    <3>2. QED
      BY <1>1, <2>7, <3>1, DeadKeepsTabs
  <2>8. QED
    BY <2>6, <2>7
<1>5. CASE c.task # "logout" /\ c.at # "done" /\ c.task = "refresh"
  <2>1. Over(c) /\ UpdateTab(c, Nobody)
    BY <1>5 DEF AnswerRequest
  <2>2. QED
    BY <1>1, <1>2, <2>1, OverKeepsTabs
<1>6. CASE c.task # "logout" /\ c.at # "done" /\ c.task # "refresh"
  <2>1. Over(c) /\ UNCHANGED tab /\ c.at = "refused" /\ c.of \in Tabs
    BY <1>1, <1>6 DEF AnswerRequest, Calls
  <2>2. UpdateTab(c, t) /\ ~EndsLoading(c)
    BY <1>6, <2>1 DEF UpdateTab, EndsLoading, SessionsTypeOK
  <2>3. /\ t.token # None => t.store # None
        /\ c.of \notin rushed => (t.user => t.token # None)
    BY <2>1 DEF TabsSound, TabSound
  <2> HIDE DEF t
  <2>4. QED
    BY <1>1, <2>1, <2>2, <2>3, OverKeepsTabs DEF t
<1>7. QED
  BY <1>3, <1>4, <1>5, <1>6

LEMMA GetMeKeepsTabs ==
    ASSUME SessionsTypeOK, TabsSound, NEW c \in requests, GetMe(c)
    PROVE  TabsSound'
<1> DEFINE t == tab[c.of]
           token == IF c.ver = pv THEN t.token ELSE None
           user  == IF c.ver = pv THEN TRUE ELSE IF c.task = "login" THEN FALSE ELSE t.user
           m == [t EXCEPT !.loading = FALSE, !.token = token, !.user = user]
<1>1. /\ c \in Calls /\ c.of \in Tabs /\ c.at = "me" /\ t \in Memory /\ UNCHANGED rushed
      /\ Over(c) /\ UpdateTab(c, m)
  BY DEF SessionsTypeOK, Calls, GetMe
<1>2. m \in Memory
  BY <1>1 DEF Memory
<1>3. m.token = token /\ m.store = t.store /\ m.user = user /\ m.loading = FALSE
  <2> HIDE DEF token, user
  <2>1. QED
    BY <1>1 DEF Memory
<1>4. TabSound(c.of)
  BY <1>1 DEF TabsSound
<1>5. m.token # None => m.store # None
  BY <1>3, <1>4 DEF TabSound
<1>6. c.alive /\ c.of \notin rushed => (m.user => m.token # None)
  <2> SUFFICES ASSUME c.alive, c.of \notin rushed, m.user
               PROVE  m.token # None
    OBVIOUS
  <2>1. c \in Busy(c.of)
    BY DEF Busy
  <2>2. c.task \in {"refresh", "login"} /\ t.token # None /\ (c.task = "refresh" => ~t.user)
    BY <1>1, <1>4, <2>1 DEF TabSound, Calls
  <2>3. c.ver = pv
    BY <1>3, <2>2
  <2>4. QED
    BY <1>3, <2>2, <2>3
<1> HIDE DEF m
<1>7. CASE c.alive
  BY <1>1, <1>2, <1>3, <1>5, <1>6, <1>7, OverKeepsTabs
<1>8. CASE ~c.alive
  BY <1>1, <1>8, DeadKeepsTabs DEF UpdateTab
<1>9. QED
  BY <1>7, <1>8

LEMMA LoseKeepsTabs ==
    ASSUME SessionsTypeOK, TabsSound, NEW c \in requests, Lose(c)
    PROVE  TabsSound'
<1> DEFINE t    == tab[c.of]
           out  == [t EXCEPT !.token = None, !.user = FALSE, !.loading = FALSE]
           gone == [Nobody EXCEPT !.loading = t.loading]
<1>1. /\ c \in Calls /\ c.of \in Tabs /\ t \in Memory /\ Nobody \in Memory
      /\ Nobody.token = None /\ ~Nobody.user /\ ~Nobody.loading /\ TabSound(c.of)
  BY DEF SessionsTypeOK, Calls, Memory, Nobody, Fresh, TabsSound
<1>2. Over(c) /\ UNCHANGED rushed
  BY DEF Lose
<1>3. PICK m \in Memory :
         /\ UpdateTab(c, m)
         /\ m.token # None => m.store # None
         /\ m.loading => t.loading /\ ~EndsLoading(c)
         /\ c.of \notin rushed => (m.user => m.token # None)
  <2>1. CASE c.task = "login" /\ c.at # "me"
    <3>1. UNCHANGED tab /\ ~EndsLoading(c)
      BY <2>1 DEF Lose, EndsLoading
    <3>2. UpdateTab(c, t)
      BY <1>1, <3>1 DEF UpdateTab, SessionsTypeOK
    <3> HIDE DEF t
    <3>3. (t.token # None => t.store # None) /\ (c.of \notin rushed => (t.user => t.token # None))
      BY <1>1 DEF TabSound, t
    <3>4. QED
      BY <1>1, <3>1, <3>2, <3>3
  <2>2. CASE c.task = "login" /\ c.at = "me"
    <3>1. UpdateTab(c, out)
      BY <2>2 DEF Lose
    <3>2. out \in Memory /\ out.token = None /\ ~out.user /\ ~out.loading
      BY <1>1 DEF Memory
    <3> HIDE DEF out
    <3>3. QED
      BY <3>1, <3>2
  <2>3. CASE c.task = "logout"
    <3>1. UpdateTab(c, gone)
      BY <2>3 DEF Lose
    <3>2. gone \in Memory /\ gone.token = None /\ ~gone.user /\ gone.loading = t.loading
      BY <1>1 DEF Memory
    <3>3. ~EndsLoading(c)
      BY <2>3 DEF EndsLoading
    <3> HIDE DEF gone
    <3>4. QED
      BY <3>1, <3>2, <3>3
  <2>4. CASE c.task \notin {"login", "logout"}
    <3>1. UpdateTab(c, Nobody)
      BY <2>4 DEF Lose
    <3>2. QED
      BY <1>1, <3>1
  <2>5. QED
    BY <2>1, <2>2, <2>3, <2>4
<1>4. QED
  BY <1>1, <1>2, <1>3, OverKeepsTabs

LEMMA InitTabsSound == SessionsInit => TabsSound
BY DEF SessionsInit, TabsSound, TabSound, Busy, Nobody, Fresh

LEMMA NextTabsSound ==
    SessionsTypeOK /\ TabsSound /\ [SessionsNext]_sessionVars => TabsSound'
<1> SUFFICES ASSUME SessionsTypeOK, TabsSound, [SessionsNext]_sessionVars
             PROVE  TabsSound'
  OBVIOUS
<1>1. CASE UNCHANGED sessionVars \/ ReadSessions \/ ChangePassword
  <2>1. UNCHANGED <<tab, requests, rushed>>
    BY <1>1 DEF sessionVars, ReadSessions, ChangePassword
  <2>2. QED
    BY <2>1 DEF TabsSound, TabSound, Busy
<1>2. CASE \E t \in Tabs : LoadSession(t)
  BY <1>2, LoadKeepsTabs
<1>3. CASE \E t \in Tabs : SubmitLogin(t) \/ Logout(t)
  BY <1>3, SubmitKeepsTabs
<1>4. CASE \E c \in requests : Find(c) \/ Rotate(c) \/ EndSession(c)
  BY <1>4, BackEndKeepsTabs
<1>5. CASE \E c \in requests : AnswerRequest(c)
  BY <1>5, AnswerKeepsTabs
<1>6. CASE \E c \in requests : GetMe(c)
  BY <1>6, GetMeKeepsTabs
<1>7. CASE \E c \in requests : Lose(c)
  BY <1>7, LoseKeepsTabs
<1>8. QED
  BY <1>1, <1>2, <1>3, <1>4, <1>5, <1>6, <1>7 DEF SessionsNext, SessionsRest

-------------------------------------------------------------------------------
(***************************************************************************)
(* The cookie.  As long as no logout has given it up, no refusal has        *)
(* cleared a newer one and no answer was lost, the cookie of a tab that is  *)
(* signed in is live, or a request is under way that will replace it.      *)
(***************************************************************************)

Brings(c) == c.task # "logout" /\ c.at = "done"
Comes(c)  == c.at \in {"found", "done"} \/ (c.task = "logout" /\ c.at = "sent")

Versions ==
    /\ \A t \in Tabs : tab[t].token # None => tab[t].token <= pv
    /\ \A c \in requests : c.ver # None => c.ver <= pv

\* A token on its way to the browser is live, and nobody has sent it or holds it.
Unseen ==
    \A c \in requests : Brings(c) =>
        /\ cookie # c.got
        /\ ~clashed => tokens[c.got].live
        /\ \A d \in requests : d.sent # c.got /\ (Brings(d) /\ d.got = c.got => d = c)

RefusedDead ==
    \A c \in requests :
        c.at = "refused" /\ c.task = "refresh" /\ c.sent # None => ~tokens[c.sent].live

Restorable ==
    /\ left => cookie = None
    /\ ~clashed /\ tabsUsed.lost = 0 /\ ~left /\ (\E t \in Tabs : tab[t].token = pv) =>
          Usable(cookie) \/ \E c \in requests : Comes(c)

CookieSound == Versions /\ Unseen /\ RefusedDead /\ Restorable

LEMMA InitCookieSound == SessionsInit => CookieSound
<1> SUFFICES ASSUME SessionsInit
             PROVE  CookieSound
  OBVIOUS
<1>1. /\ requests = {} /\ pv = 0 /\ ~left /\ \A t \in Tabs : tab[t] = Nobody
      /\ Nobody.token = None
  BY DEF SessionsInit, Nobody, Fresh
<1>2. \A t \in Tabs : tab[t].token # pv
  BY <1>1, NoneAssumption
<1>3. QED
  BY <1>1, <1>2 DEF CookieSound, Versions, Unseen, RefusedDead, Restorable

\* A request that leaves takes the cookie of the moment along.
LEMMA AskKeepsCookie ==
    ASSUME SessionsTypeOK, CookieSound, NEW n, NEW g,
           n.sent = cookie, n.at = "sent", n.ver = None,
           \A c \in requests :
               /\ g[c] \in requests'
               /\ g[c].task = c.task /\ g[c].at = c.at /\ g[c].sent = c.sent
               /\ g[c].got = c.got /\ g[c].ver = c.ver,
           \A d \in requests' : d = n \/ \E c \in requests : d = g[c],
           \A t \in Tabs : tab'[t].token \in {tab[t].token, None},
           UNCHANGED <<tokens, pv, cookie, clashed, left>>, tabsUsed'.lost = tabsUsed.lost
    PROVE  CookieSound'
<1>1. Versions'
  BY DEF CookieSound, Versions
<1>2. Unseen'
  <2> SUFFICES ASSUME NEW d \in requests', Brings(d)
               PROVE  /\ cookie # d.got
                      /\ ~clashed => tokens[d.got].live
                      /\ \A e \in requests' :
                            e.sent # d.got /\ (Brings(e) /\ e.got = d.got => e = d)
    BY DEF Unseen
  <2>1. d # n
    BY DEF Brings
  <2>2. PICK c \in requests : d = g[c]
    BY <2>1
  <2>3. Brings(c) /\ d.got = c.got
    BY <2>2 DEF Brings
  <2>4. /\ cookie # c.got /\ (~clashed => tokens[c.got].live)
        /\ \A e \in requests : e.sent # c.got /\ (Brings(e) /\ e.got = c.got => e = c)
    BY <2>3 DEF CookieSound, Unseen
  <2>5. ASSUME NEW e \in requests'
        PROVE  e.sent # d.got /\ (Brings(e) /\ e.got = d.got => e = d)
    <3>1. CASE e = n
      BY <2>3, <2>4, <3>1 DEF Brings
    <3>2. CASE \E x \in requests : e = g[x]
      BY <2>2, <2>3, <2>4, <3>2 DEF Brings
    <3>3. QED
      BY <3>1, <3>2
  <2>6. QED
    BY <2>3, <2>4, <2>5
<1>3. RefusedDead'
  <2> SUFFICES ASSUME NEW d \in requests', d.at = "refused", d.task = "refresh", d.sent # None
               PROVE  ~tokens[d.sent].live
    BY DEF RefusedDead
  <2>1. PICK c \in requests : d = g[c]
    OBVIOUS
  <2>2. QED
    BY <2>1 DEF CookieSound, RefusedDead
<1>4. Restorable'
  <2>1. left => cookie = None
    BY DEF CookieSound, Restorable
  <2>2. ASSUME ~clashed, tabsUsed.lost = 0, ~left, NEW t \in Tabs, tab'[t].token = pv
        PROVE  Usable(cookie) \/ \E c \in requests' : Comes(c)
    <3>1. tab[t].token = pv
      BY <2>2, NoneAssumption DEF SessionsTypeOK
    <3>2. Usable(cookie) \/ \E c \in requests : Comes(c)
      BY <2>2, <3>1 DEF CookieSound, Restorable
    <3>3. ASSUME NEW c \in requests, Comes(c)
          PROVE  Comes(g[c])
      BY <3>3 DEF Comes
    <3>4. QED
      BY <3>2, <3>3
  <2>3. QED
    BY <2>1, <2>2 DEF Restorable, Usable
<1>5. QED
  BY <1>1, <1>2, <1>3, <1>4 DEF CookieSound

LEMMA TabsKeepCookie ==
    ASSUME SessionsTypeOK, CookieSound, NEW u \in Tabs,
           LoadSession(u) \/ SubmitLogin(u) \/ Logout(u)
    PROVE  CookieSound'
<1>1. \A c \in requests : c \in Calls
  BY DEF SessionsTypeOK
<1>2. tabsUsed'.lost = tabsUsed.lost
  <2>1. tabsUsed \in [calls: Nat, changes: Nat, lost: Nat]
    BY DEF SessionsTypeOK
  <2>2. tabsUsed' = [tabsUsed EXCEPT !.calls = tabsUsed.calls + 1]
    BY DEF LoadSession, SubmitLogin, Logout, TabClicked
  <2>3. QED
    BY <2>1, <2>2
<1>3. UNCHANGED <<tokens, pv, cookie, clashed, left>>
  BY DEF LoadSession, SubmitLogin, Logout
<1>4. \A task : /\ Call(u, task).sent = cookie /\ Call(u, task).at = "sent"
                /\ Call(u, task).ver = None
  BY DEF Call
<1>5. \A t \in Tabs : tab'[t].token \in {tab[t].token, None}
  <2>1. tab \in [Tabs -> Memory]
    BY DEF SessionsTypeOK
  <2>2. tab' = [tab EXCEPT ![u] = Fresh] \/ tab' = tab
    BY DEF LoadSession, SubmitLogin, Logout
  <2>3. Fresh.token = None
    BY DEF Fresh
  <2>4. QED
    BY <2>1, <2>2, <2>3
<1>6. CASE LoadSession(u)
  <2> DEFINE left_(c) == IF c.of = u THEN [c EXCEPT !.alive = FALSE] ELSE c
             n == Call(u, "refresh")
             g == [c \in requests |-> left_(c)]
  <2>1. requests' = {left_(c) : c \in requests} \cup {n}
    BY <1>6 DEF LoadSession
  <2>2. \A c \in requests :
           /\ left_(c).task = c.task /\ left_(c).at = c.at /\ left_(c).sent = c.sent
           /\ left_(c).got = c.got /\ left_(c).ver = c.ver
    BY <1>1 DEF Calls
  <2>3. n.sent = cookie /\ n.at = "sent" /\ n.ver = None
    BY <1>4
  <2> HIDE DEF left_, n
  <2>4. /\ \A c \in requests :
             /\ g[c] \in requests'
             /\ g[c].task = c.task /\ g[c].at = c.at /\ g[c].sent = c.sent
             /\ g[c].got = c.got /\ g[c].ver = c.ver
        /\ \A d \in requests' : d = n \/ \E c \in requests : d = g[c]
    BY <2>1, <2>2
  <2> HIDE DEF g
  <2>5. QED
    BY <1>2, <1>3, <1>5, <2>3, <2>4, AskKeepsCookie
<1>7. CASE SubmitLogin(u) \/ Logout(u)
  <2> DEFINE g == [c \in requests |-> c]
  <2>1. PICK n : n.sent = cookie /\ n.at = "sent" /\ n.ver = None /\ requests' = requests \cup {n}
    BY <1>4, <1>7 DEF SubmitLogin, Logout
  <2>2. /\ \A c \in requests :
             /\ g[c] \in requests'
             /\ g[c].task = c.task /\ g[c].at = c.at /\ g[c].sent = c.sent
             /\ g[c].got = c.got /\ g[c].ver = c.ver
        /\ \A d \in requests' : d = n \/ \E c \in requests : d = g[c]
    BY <2>1
  <2> HIDE DEF g
  <2>3. QED
    BY <1>2, <1>3, <1>5, <2>1, <2>2, AskKeepsCookie
<1>8. QED
  BY <1>6, <1>7

LEMMA FindKeepsCookie ==
    ASSUME SessionsTypeOK, CookieSound, NEW c \in requests, Find(c)
    PROVE  CookieSound'
<1>1. /\ c \in Calls /\ c.at = "sent" /\ c.task \in {"refresh", "login"} /\ pv \in Nat
      /\ UNCHANGED <<tokens, pv, cookie, tab, clashed, left, tabsUsed>>
  BY DEF SessionsTypeOK, Find
<1>2. PICK d : /\ requests' = (requests \ {c}) \cup {d}
               /\ d.task = c.task /\ d.sent = c.sent /\ d.at \in {"found", "refused"}
               /\ d.ver # None => d.ver <= pv
               /\ d.at = "refused" /\ d.task = "refresh" => ~Usable(d.sent)
  <2>1. \A at, ver :
           /\ LET d == [c EXCEPT !.at = at]
              IN  d.task = c.task /\ d.sent = c.sent /\ d.at = at /\ d.ver = c.ver
           /\ LET d == [c EXCEPT !.at = at, !.ver = ver]
              IN  d.task = c.task /\ d.sent = c.sent /\ d.at = at /\ d.ver = ver
    BY <1>1 DEF Calls
  <2>2. c.ver # None => c.ver <= pv
    BY DEF CookieSound, Versions
  <2>3. CASE /\ c.task = "refresh"
             /\ Set(c, [c EXCEPT !.at = IF Usable(c.sent) THEN "found" ELSE "refused"])
    <3> DEFINE at == IF Usable(c.sent) THEN "found" ELSE "refused"
               d == [c EXCEPT !.at = at]
    <3>1. d.task = c.task /\ d.sent = c.sent /\ d.at = at /\ d.ver = c.ver
      <4> HIDE DEF at
      <4>1. QED
        BY <2>1
    <3>2. requests' = (requests \ {c}) \cup {d}
      BY <2>3 DEF Set
    <3> HIDE DEF d
    <3>3. QED
      BY <2>2, <3>1, <3>2
  <2>4. CASE c.task = "login" /\ Set(c, [c EXCEPT !.at = "found", !.ver = pv])
    <3> DEFINE d == [c EXCEPT !.at = "found", !.ver = pv]
    <3>1. d.task = c.task /\ d.sent = c.sent /\ d.at = "found" /\ d.ver = pv
      BY <2>1
    <3>2. requests' = (requests \ {c}) \cup {d}
      BY <2>4 DEF Set
    <3> HIDE DEF d
    <3>3. QED
      BY <1>1, <3>1, <3>2
  <2>5. CASE c.task = "login" /\ Set(c, [c EXCEPT !.at = "refused"])
    <3> DEFINE d == [c EXCEPT !.at = "refused"]
    <3>1. d.task = c.task /\ d.sent = c.sent /\ d.at = "refused" /\ d.ver = c.ver
      BY <2>1
    <3>2. requests' = (requests \ {c}) \cup {d}
      BY <2>5 DEF Set
    <3> HIDE DEF d
    <3>3. QED
      BY <2>2, <2>5, <3>1, <3>2
  <2>6. QED
    BY <2>3, <2>4, <2>5 DEF Find
<1>3. Versions'
  BY <1>1, <1>2 DEF CookieSound, Versions
<1>4. Unseen'
  <2>1. ~Brings(d) /\ \A e \in requests' : e = d \/ (e \in requests /\ e # c)
    BY <1>2 DEF Brings
  <2>2. QED
    BY <1>1, <1>2, <2>1 DEF CookieSound, Unseen
<1>5. RefusedDead'
  BY <1>1, <1>2 DEF CookieSound, RefusedDead, Usable
<1>6. Restorable'
  <2>1. ~Comes(c)
    BY <1>1 DEF Comes
  <2>2. QED
    BY <1>1, <1>2, <2>1 DEF CookieSound, Restorable, Usable
<1>7. QED
  BY <1>3, <1>4, <1>5, <1>6 DEF CookieSound

LEMMA RotateKeepsCookie ==
    ASSUME SessionsTypeOK, CookieSound, NEW c \in requests, Rotate(c)
    PROVE  CookieSound'
<1> DEFINE login == c.task = "login"
           kept  == IF login THEN tokens ELSE Revoked(c.sent)
           began == IF login THEN c.ver ELSE tokens[c.sent].pv
           row   == [live |-> TRUE, pv |-> began]
           new   == Len(tokens) + 1
           d     == [c EXCEPT !.at = "done", !.got = new, !.ver = pv]
<1>1. /\ c \in Calls /\ Sound(c) /\ c.at = "found" /\ tokens \in Seq(Token) /\ pv \in Nat
      /\ tokens' = Append(kept, row) /\ Set(c, d)
      /\ UNCHANGED <<pv, cookie, tab, clashed, left, tabsUsed>>
  BY DEF SessionsTypeOK, Rotate, Token
<1>2. ~login => c.sent \in TokenIds /\ tokens[c.sent] \in Token
  BY <1>1 DEF Sound, TokenIds
<1>3. row \in Token /\ row.live
  BY <1>1, <1>2 DEF Sound, Token
<1>4. /\ kept \in Seq(Token) /\ Len(kept) = Len(tokens) /\ DOMAIN kept = TokenIds
      /\ \A j \in TokenIds : kept[j].live => tokens[j].live
      /\ \A j \in TokenIds : login \/ j # c.sent => kept[j] = tokens[j]
  <2>1. \A j \in TokenIds : j # c.sent => Revoked(c.sent)[j] = tokens[j]
    BY <1>1 DEF Revoked, TokenIds
  <2>2. QED
    BY <1>1, <1>2, <2>1, RevokedRows DEF TokenIds
<1>5. /\ d.of = c.of /\ d.task = c.task /\ d.sent = c.sent /\ d.at = "done" /\ d.got = new
      /\ d.ver = pv
  BY <1>1 DEF Calls
<1>6. requests' = (requests \ {c}) \cup {d}
  BY <1>1 DEF Set
<1>7. /\ TokenIds' = TokenIds \cup {new} /\ tokens'[new] = row /\ new \notin TokenIds \cup {None}
      /\ \A j \in TokenIds : tokens'[j] = kept[j]
  <2> HIDE DEF kept, row
  <2>1. /\ TokenIds' = TokenIds \cup {new} /\ tokens'[new] = row
        /\ \A j \in TokenIds : tokens'[j] = kept[j] /\ j # new
    BY <1>1, <1>3, <1>4, InsertedRow DEF TokenIds
  <2>2. new # None
    BY <1>1, NoneAssumption
  <2>3. QED
    BY <2>1, <2>2
<1>8. cookie # new /\ \A e \in requests : e.sent # new /\ e.got # new
  BY <1>7 DEF SessionsTypeOK, Calls
<1>9. tokens'[new].live
  BY <1>3, <1>7
<1>10. \A j \in TokenIds : tokens'[j].live => tokens[j].live
  BY <1>4, <1>7
<1>11. \A j \in TokenIds : j # c.sent /\ tokens[j].live => tokens'[j].live
  BY <1>4, <1>7
<1>12. \A e \in requests : Brings(e) => e.got \in TokenIds /\ e.got # c.sent
  <2>1. \A e \in requests : Brings(e) => e.got \in TokenIds
    BY DEF Brings, SessionsTypeOK, Sound
  <2>2. \A e \in requests : Brings(e) => e.got # c.sent
    BY DEF CookieSound, Unseen
  <2>3. QED
    BY <2>1, <2>2
<1>13. UNCHANGED <<pv, cookie, tab, clashed, left, tabsUsed>> /\ pv \in Nat /\ ~Brings(c)
  BY <1>1 DEF Brings
<1>14. \A e \in requests : e.sent \in TokenIds \cup {None}
  BY DEF SessionsTypeOK, Calls
<1>15. Comes(d)
  BY <1>5 DEF Comes
<1> HIDE DEF kept, row, d, new, login, began
<1>16. Versions'
  BY <1>5, <1>6, <1>13 DEF CookieSound, Versions
<1>17. Unseen'
  <2> SUFFICES ASSUME NEW e \in requests', Brings(e)
               PROVE  /\ cookie # e.got
                      /\ ~clashed => tokens'[e.got].live
                      /\ \A f \in requests' :
                            f.sent # e.got /\ (Brings(f) /\ f.got = e.got => f = e)
    BY <1>13 DEF Unseen
  <2>1. CASE e = d
    BY <1>5, <1>6, <1>8, <1>9, <2>1
  <2>2. CASE e \in requests /\ e # c
    <3>1. /\ cookie # e.got /\ (~clashed => tokens[e.got].live)
          /\ \A f \in requests : f.sent # e.got /\ (Brings(f) /\ f.got = e.got => f = e)
      BY <2>2 DEF CookieSound, Unseen
    <3>2. ~clashed => tokens'[e.got].live
      BY <1>11, <1>12, <2>2, <3>1
    <3>3. d.sent # e.got /\ d.got # e.got
      BY <1>5, <1>8, <2>2, <3>1
    <3>4. QED
      BY <1>6, <3>1, <3>2, <3>3
  <2>3. QED
    BY <1>6, <2>1, <2>2
<1>18. RefusedDead'
  <2>1. d.at # "refused"
    BY <1>5
  <2>2. QED
    BY <1>6, <1>10, <1>14, <2>1 DEF CookieSound, RefusedDead
<1>19. Restorable'
  BY <1>6, <1>13, <1>15 DEF CookieSound, Restorable
<1>20. QED
  BY <1>16, <1>17, <1>18, <1>19 DEF CookieSound

LEMMA EndKeepsCookie ==
    ASSUME SessionsTypeOK, CookieSound, NEW c \in requests, EndSession(c)
    PROVE  CookieSound'
<1> DEFINE d == [c EXCEPT !.at = "done"]
<1>1. /\ c \in Calls /\ c.at = "sent" /\ c.task = "logout" /\ tokens \in Seq(Token)
      /\ tokens' = (IF c.sent = None THEN tokens ELSE Revoked(c.sent)) /\ Set(c, d)
      /\ UNCHANGED <<pv, cookie, tab, clashed, left, tabsUsed>>
  BY DEF SessionsTypeOK, EndSession, Token
<1>2. /\ d.task = "logout" /\ d.sent = c.sent /\ d.at = "done" /\ d.ver = c.ver
  BY <1>1 DEF Calls
<1>3. requests' = (requests \ {c}) \cup {d}
  BY <1>1 DEF Set
<1> HIDE DEF d
<1>4. \A j \in TokenIds : /\ tokens'[j].live => tokens[j].live
                          /\ j # c.sent => tokens'[j] = tokens[j]
  <2>1. CASE c.sent = None
    BY <1>1, <2>1
  <2>2. CASE c.sent # None
    <3>1. c.sent \in TokenIds /\ tokens' = Revoked(c.sent)
      BY <1>1, <2>2 DEF Calls
    <3>2. \A j \in TokenIds : j # c.sent => Revoked(c.sent)[j] = tokens[j]
      BY <1>1 DEF Revoked, TokenIds
    <3>3. \A j \in TokenIds : Revoked(c.sent)[j].live => tokens[j].live
      BY <1>1, <3>1, RevokedRows
    <3>4. QED
      BY <3>1, <3>2, <3>3
  <2>3. QED
    BY <2>1, <2>2
<1>5. \A e \in requests : Brings(e) => e.got \in TokenIds /\ e.got # c.sent
  <2>1. \A e \in requests : Brings(e) => e.got \in TokenIds
    BY DEF Brings, SessionsTypeOK, Sound
  <2>2. \A e \in requests : Brings(e) => e.got # c.sent
    BY DEF CookieSound, Unseen
  <2>3. QED
    BY <2>1, <2>2
<1>6. \A e \in requests : e.sent \in TokenIds \cup {None}
  BY DEF SessionsTypeOK, Calls
<1>7. ~Brings(d) /\ Comes(d)
  BY <1>2 DEF Brings, Comes
<1>8. UNCHANGED <<pv, cookie, tab, clashed, left, tabsUsed>>
  BY <1>1
<1>9. Versions'
  BY <1>2, <1>3, <1>8 DEF CookieSound, Versions
<1>10. Unseen'
  <2>1. \A e \in requests' : Brings(e) => e \in requests
    BY <1>3, <1>7
  <2>2. \A e \in requests : Brings(e) => (~clashed => tokens'[e.got].live)
    BY <1>4, <1>5 DEF CookieSound, Unseen
  <2>3. QED
    BY <1>2, <1>3, <1>5, <1>7, <1>8, <2>1, <2>2 DEF CookieSound, Unseen
<1>11. RefusedDead'
  BY <1>2, <1>3, <1>4, <1>6 DEF CookieSound, RefusedDead
<1>12. Restorable'
  BY <1>3, <1>7, <1>8 DEF CookieSound, Restorable
<1>13. QED
  BY <1>9, <1>10, <1>11, <1>12 DEF CookieSound

LEMMA ChangeKeepsCookie ==
    ASSUME SessionsTypeOK, CookieSound, ChangePassword
    PROVE  CookieSound'
<1>1. /\ pv' = pv + 1 /\ pv \in Nat /\ tokens' = RevokeAll(change)
      /\ clashed' = (clashed \/ requests # {}) /\ tokens \in Seq(Token)
      /\ UNCHANGED <<cookie, tab, requests, left, tabsUsed>>
  BY DEF ChangePassword, SessionsTypeOK, Token
<1>2. \A j \in TokenIds : tokens'[j].live => tokens[j].live
  BY <1>1, RevokeAllRows
<1>3. /\ \A t \in Tabs : tab[t].token \in Nat \cup {None}
      /\ \A c \in requests : c.ver \in Nat \cup {None} /\ c.sent \in TokenIds \cup {None}
  BY DEF SessionsTypeOK, Memory, Calls
<1>4. \A t \in Tabs : tab[t].token # pv + 1
  BY <1>1, <1>3, NoneAssumption DEF CookieSound, Versions
<1>5. Versions'
  BY <1>1, <1>3 DEF CookieSound, Versions
<1>6. Unseen'
  BY <1>1 DEF CookieSound, Unseen
<1>7. RefusedDead'
  BY <1>1, <1>2, <1>3 DEF CookieSound, RefusedDead
<1>8. Restorable'
  BY <1>1, <1>4 DEF CookieSound, Restorable
<1>9. QED
  BY <1>5, <1>6, <1>7, <1>8 DEF CookieSound

\* A request that is over, and is not one that replaces the cookie.
LEMMA OverKeepsCookie ==
    ASSUME SessionsTypeOK, CookieSound, NEW c \in requests, Over(c),
           UNCHANGED <<tokens, pv, cookie, clashed, left>>,
           \A t \in Tabs : tab'[t].token \in {tab[t].token, None},
           (~Comes(c) /\ tabsUsed'.lost = tabsUsed.lost) \/ tabsUsed'.lost # 0
    PROVE  CookieSound'
<1>1. requests' = requests \ {c}
  BY DEF Over
<1>2. Versions'
  BY <1>1 DEF CookieSound, Versions
<1>3. Unseen' /\ RefusedDead'
  BY <1>1 DEF CookieSound, Unseen, RefusedDead
<1>4. Restorable'
  <2>1. left' => cookie' = None
    BY DEF CookieSound, Restorable
  <2>2. ASSUME ~clashed, tabsUsed'.lost = 0, ~left, NEW t \in Tabs, tab'[t].token = pv
        PROVE  Usable(cookie) \/ \E d \in requests' : Comes(d)
    <3>1. tab[t].token = pv /\ ~Comes(c) /\ tabsUsed.lost = 0
      BY <2>2, NoneAssumption DEF SessionsTypeOK
    <3>2. Usable(cookie) \/ \E d \in requests : Comes(d)
      BY <2>2, <3>1 DEF CookieSound, Restorable
    <3>3. QED
      BY <1>1, <3>1, <3>2
  <2>3. QED
    BY <2>1, <2>2 DEF Restorable, Usable
<1>5. QED
  BY <1>2, <1>3, <1>4 DEF CookieSound

LEMMA GetMeKeepsCookie ==
    ASSUME SessionsTypeOK, CookieSound, NEW c \in requests, GetMe(c)
    PROVE  CookieSound'
<1> DEFINE t == tab[c.of]
           token == IF c.ver = pv THEN t.token ELSE None
           user  == IF c.ver = pv THEN TRUE ELSE IF c.task = "login" THEN FALSE ELSE t.user
           m == [t EXCEPT !.loading = FALSE, !.token = token, !.user = user]
<1>1. /\ c \in Calls /\ c.of \in Tabs /\ c.at = "me" /\ t \in Memory
      /\ Over(c) /\ UpdateTab(c, m)
      /\ UNCHANGED <<tokens, pv, cookie, clashed, left, tabsUsed>>
  BY DEF SessionsTypeOK, Calls, GetMe
<1>2. m.token = token
  <2> HIDE DEF token, user
  <2>1. QED
    BY <1>1 DEF Memory
<1>3. token \in {t.token, None}
  OBVIOUS
<1> HIDE DEF m, token
<1>4. \A x \in Tabs : tab'[x].token \in {tab[x].token, None}
  BY <1>1, <1>2, <1>3 DEF UpdateTab, SessionsTypeOK
<1>5. QED
  BY <1>1, <1>4, OverKeepsCookie DEF Comes

LEMMA LoseKeepsCookie ==
    ASSUME SessionsTypeOK, CookieSound, NEW c \in requests, Lose(c)
    PROVE  CookieSound'
<1> DEFINE t    == tab[c.of]
           out  == [t EXCEPT !.token = None, !.user = FALSE, !.loading = FALSE]
           gone == [Nobody EXCEPT !.loading = t.loading]
<1>1. /\ c \in Calls /\ c.of \in Tabs /\ t \in Memory /\ Nobody \in Memory
      /\ Nobody.token = None /\ tab \in [Tabs -> Memory]
      /\ tabsUsed \in [calls: Nat, changes: Nat, lost: Nat]
  BY DEF SessionsTypeOK, Calls, Memory, Nobody, Fresh
<1>2. /\ Over(c) /\ tabsUsed' = [tabsUsed EXCEPT !.lost = tabsUsed.lost + 1]
      /\ UNCHANGED <<tokens, pv, cookie, clashed, left>>
      /\ UNCHANGED tab \/ UpdateTab(c, out) \/ UpdateTab(c, gone) \/ UpdateTab(c, Nobody)
  BY DEF Lose
<1>3. out.token = None /\ gone.token = None
  BY <1>1 DEF Memory
<1> HIDE DEF out, gone
<1>4. \A x \in Tabs : tab'[x].token \in {tab[x].token, None}
  BY <1>1, <1>2, <1>3 DEF UpdateTab
<1>5. tabsUsed'.lost # 0
  BY <1>1, <1>2
<1>6. QED
  BY <1>2, <1>4, <1>5, OverKeepsCookie

LEMMA AnswerKeepsCookie ==
    ASSUME SessionsTypeOK, CookieSound, NEW c \in requests, AnswerRequest(c)
    PROVE  CookieSound'
<1> DEFINE ver == IF c.task = "login" THEN c.ver ELSE pv
           t   == tab[c.of]
           b   == t.loading \/ c.task = "login"
           d   == [c EXCEPT !.at = "me", !.ver = ver]
           won == [t EXCEPT !.token = ver, !.store = ver, !.loading = b]
           gone == [Nobody EXCEPT !.loading = t.loading]
<1>1. /\ c \in Calls /\ Sound(c) /\ t \in Memory /\ Nobody \in Memory /\ c.of \in Tabs
      /\ Nobody.token = None /\ pv \in Nat /\ tab \in [Tabs -> Memory]
      /\ c.at \in {"done", "refused"} /\ UNCHANGED <<tokens, pv, tabsUsed>>
      /\ cookie' = NewCookie(c)
      /\ clashed' = (clashed \/ (c.at = "refused" /\ cookie # c.sent /\ cookie' # cookie))
      /\ left' = IF c.task = "logout" THEN TRUE ELSE left /\ cookie' = None
  BY DEF SessionsTypeOK, Calls, Memory, Nobody, Fresh, AnswerRequest
<1>2. /\ ver # None => ver <= pv
      /\ c.ver # None => c.ver <= pv
  BY <1>1 DEF CookieSound, Versions
<1>3. d.task = c.task /\ d.sent = c.sent /\ d.at = "me" /\ d.ver = ver
  BY <1>1 DEF Calls
<1>4. won.token = ver /\ gone.token = None
  <2>1. gone.token = None
    BY <1>1 DEF Memory
  <2> HIDE DEF ver, b
  <2>2. QED
    BY <1>1, <2>1, MemoryLeft
<1>5. /\ Set(c, d) \/ Over(c)
      /\ \/ UNCHANGED tab \/ UpdateTab(c, gone) \/ UpdateTab(c, Nobody)
         \/ UpdateTab(c, won) /\ c.at = "done" /\ c.task # "logout"
  BY DEF AnswerRequest
<1> HIDE DEF d, won, gone, ver
<1>6. /\ requests \ {c} \subseteq requests' /\ requests' \subseteq (requests \ {c}) \cup {d}
  BY <1>5 DEF Set, Over
<1>7. /\ \A x \in Tabs : tab'[x].token \in {tab[x].token, None, ver}
      /\ c.at = "refused" => \A x \in Tabs : tab'[x].token \in {tab[x].token, None}
  BY <1>1, <1>4, <1>5 DEF UpdateTab
<1>8. /\ Brings(c) => cookie' = c.got
      /\ ~Brings(c) => cookie' \in {cookie, None}
      /\ ~Brings(c) /\ c.task # "logout" /\ cookie' # cookie => c.task = "refresh" /\ c.sent # None
      /\ c.task = "logout" => cookie' = None
  BY <1>1 DEF NewCookie, Brings
<1>9. Versions'
  BY <1>1, <1>2, <1>3, <1>6, <1>7 DEF CookieSound, Versions
<1>10. Unseen'
  <2> SUFFICES ASSUME NEW e \in requests', Brings(e)
               PROVE  /\ cookie' # e.got
                      /\ ~clashed' => tokens[e.got].live
                      /\ \A f \in requests' :
                            f.sent # e.got /\ (Brings(f) /\ f.got = e.got => f = e)
    BY <1>1 DEF Unseen
  <2>1. e \in requests /\ e # c
    BY <1>3, <1>6 DEF Brings
  <2>2. /\ cookie # e.got /\ (~clashed => tokens[e.got].live)
        /\ \A f \in requests : f.sent # e.got /\ (Brings(f) /\ f.got = e.got => f = e)
    BY <2>1 DEF CookieSound, Unseen
  <2>3. e.got \in TokenIds /\ e.got # None
    BY <2>1, NoneAssumption DEF Brings, SessionsTypeOK, Sound, TokenIds
  <2>4. cookie' # e.got
    BY <1>8, <2>1, <2>2, <2>3
  <2>5. ~Brings(d) /\ d.sent # e.got
    BY <1>3, <2>2 DEF Brings
  <2>6. QED
    BY <1>1, <1>6, <2>2, <2>4, <2>5
<1>11. RefusedDead'
  <2>1. d.at # "refused"
    BY <1>3
  <2>2. QED
    BY <1>1, <1>6, <2>1 DEF CookieSound, RefusedDead
<1>12. Restorable'
  <2>1. left' => cookie' = None
    BY <1>1, <1>8
  <2>2. ASSUME ~clashed', tabsUsed.lost = 0, ~left', NEW x \in Tabs, tab'[x].token = pv
        PROVE  Usable(cookie)' \/ \E e \in requests' : Comes(e)
    <3>1. c.task # "logout" /\ ~clashed
      BY <1>1, <2>2
    <3>2. CASE c.at = "done"
      <4>1. Brings(c) /\ cookie' = c.got
        BY <1>8, <3>1, <3>2 DEF Brings
      <4>2. tokens[c.got].live /\ c.got # None
        BY <3>1, <4>1, NoneAssumption
           DEF CookieSound, Unseen, Brings, SessionsTypeOK, Sound, TokenIds
      <4>3. QED
        BY <1>1, <4>1, <4>2 DEF Usable
    <3>3. CASE c.at = "refused"
      <4>1. ~Comes(c) /\ ~Brings(c)
        BY <3>1, <3>3 DEF Comes, Brings
      <4>2. ~left
        BY <1>1, <1>8, <2>2, <3>1, <4>1 DEF CookieSound, Restorable
      <4>3. tab[x].token = pv
        BY <1>1, <1>7, <2>2, <3>3, NoneAssumption
      <4>4. Usable(cookie) \/ \E e \in requests : Comes(e)
        BY <2>2, <3>1, <4>2, <4>3 DEF CookieSound, Restorable
      <4>5. ASSUME NEW e \in requests, Comes(e)
            PROVE  e \in requests'
        BY <1>6, <4>1, <4>5
      <4>6. ASSUME Usable(cookie)
            PROVE  Usable(cookie)'
        <5>1. cookie # c.sent => cookie' = cookie
          BY <1>1, <2>2, <3>3
        <5>2. cookie = c.sent => cookie' = cookie
          BY <1>8, <3>1, <3>3, <4>1, <4>6 DEF CookieSound, RefusedDead, Usable
        <5>3. QED
          BY <1>1, <4>6, <5>1, <5>2 DEF Usable
      <4>7. QED
        BY <4>4, <4>5, <4>6
    <3>4. QED
      BY <1>1, <3>2, <3>3
  <2>3. QED
    BY <1>1, <2>1, <2>2 DEF Restorable
<1>13. QED
  BY <1>9, <1>10, <1>11, <1>12 DEF CookieSound

LEMMA NextCookieSound ==
    SessionsTypeOK /\ CookieSound /\ [SessionsNext]_sessionVars => CookieSound'
<1> SUFFICES ASSUME SessionsTypeOK, CookieSound, [SessionsNext]_sessionVars
             PROVE  CookieSound'
  OBVIOUS
<1>1. CASE UNCHANGED sessionVars \/ ReadSessions
  <2>1. UNCHANGED <<tokens, pv, cookie, tab, requests, clashed, left>>
    BY <1>1 DEF sessionVars, ReadSessions
  <2>2. tabsUsed'.lost = tabsUsed.lost
    <3>1. tabsUsed \in [calls: Nat, changes: Nat, lost: Nat]
      BY DEF SessionsTypeOK
    <3>2. tabsUsed' = tabsUsed \/ tabsUsed' = [tabsUsed EXCEPT !.changes = tabsUsed.changes + 1]
      BY <1>1 DEF sessionVars, ReadSessions
    <3>3. QED
      BY <3>1, <3>2
  <2>3. QED
    BY <2>1, <2>2 DEF CookieSound, Versions, Unseen, RefusedDead, Restorable, Usable
<1>2. CASE \E t \in Tabs : LoadSession(t) \/ SubmitLogin(t) \/ Logout(t)
  BY <1>2, TabsKeepCookie
<1>3. CASE \E c \in requests : Find(c)
  BY <1>3, FindKeepsCookie
<1>4. CASE \E c \in requests : Rotate(c)
  BY <1>4, RotateKeepsCookie
<1>5. CASE \E c \in requests : EndSession(c)
  BY <1>5, EndKeepsCookie
<1>6. CASE \E c \in requests : AnswerRequest(c)
  BY <1>6, AnswerKeepsCookie
<1>7. CASE \E c \in requests : GetMe(c)
  BY <1>7, GetMeKeepsCookie
<1>8. CASE \E c \in requests : Lose(c)
  BY <1>8, LoseKeepsCookie
<1>9. CASE ChangePassword
  BY <1>9, ChangeKeepsCookie
<1>10. QED
  BY <1>1, <1>2, <1>3, <1>4, <1>5, <1>6, <1>7, <1>8, <1>9 DEF SessionsNext, SessionsRest

\* However the requests of however many tabs cross: a tab that is signed in can be loaded
\* again, no tab stays loading, and none shows a user without a token.
THEOREM SessionsSurvive == SessionsSpec => []SessionSurvives
<1>1. SessionsInit => SessionsTypeOK /\ TabsSound /\ CookieSound
  BY InitTypeOK, InitTabsSound, InitCookieSound
<1>2. SessionsTypeOK /\ TabsSound /\ CookieSound /\ [SessionsNext]_sessionVars
          => SessionsTypeOK' /\ TabsSound' /\ CookieSound'
  BY NextTypeOK, NextTabsSound, NextCookieSound
<1>3. TabsSound /\ CookieSound => SessionSurvives
  <2> SUFFICES ASSUME TabsSound, CookieSound, NEW t \in Tabs
               PROVE  /\ tab[t].token # None => tab[t].store # None
                      /\ requests = {} => ~tab[t].loading
                      /\ requests = {} /\ t \notin rushed => (tab[t].user => tab[t].token # None)
                      /\ requests = {} /\ ~clashed /\ tabsUsed.lost = 0 =>
                             (SignedIn(t) /\ tab[t].token = pv => left \/ Usable(cookie))
    BY DEF SessionSurvives
  <2>1. TabSound(t)
    BY DEF TabsSound
  <2>2. requests = {} => Busy(t) = {}
    BY DEF Busy
  <2>3. QED
    BY <2>1, <2>2 DEF TabSound, CookieSound, Restorable
<1>4. QED
  BY <1>1, <1>2, <1>3, PTL DEF SessionsSpec
===============================================================================
