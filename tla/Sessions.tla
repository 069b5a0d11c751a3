-------------------------------- MODULE Sessions --------------------------------
(***************************************************************************)
(* The session of one user: the refresh tokens at the back end, the cookie  *)
(* that the tabs of a browser share, and what each tab keeps in memory.     *)
(*                                                                         *)
(* A refresh rotates the token in two statements, a read and a commit, and  *)
(* the cookie changes when the answer arrives.  Tabs restore their session  *)
(* on their own, so that any two requests may cross, an answer may be lost, *)
(* and a page may be reloaded while its requests are under way.             *)
(*                                                                         *)
(* An access token is the version of the password it carries.               *)
(***************************************************************************)
EXTENDS Absent, Sequences, FiniteSets

CONSTANTS
    Tabs,          \* tabs of the browser
    MaxRequests,   \* bound: pages loaded, logins and logouts
    MaxChanges,    \* bound: changes of the password
    MaxLost        \* bound: answers that are lost

VARIABLES
    tokens,      \* refresh tokens in the order of their rows: live, and the password
                 \* version its chain began with
    pv,          \* version of the password
    change,      \* a change of the password under way: the rows it has read
    cookie,      \* the refresh token in the browser
    tab,         \* of each tab: access token, as the context and as authStore hold it,
                 \* whether a user is set, whether it is loading
    requests,    \* requests under way
    astray,      \* history: tokens inserted past a change of the password
    clashed,     \* history: a refusal has cleared a newer cookie than the one refused, or
                 \* the password changed under a request
    rushed,      \* history: tabs of which two requests were under way at a time
    left,        \* history: the cookie has been given up by a logout
    tabsUsed     \* calls, changes and losses so far

sessionVars == <<tokens, pv, change, cookie, tab, requests, astray, clashed, rushed, left,
                tabsUsed>>

TokenIds == DOMAIN tokens
Fresh    == [token |-> None, store |-> None, user |-> FALSE, loading |-> TRUE]
Nobody   == [Fresh EXCEPT !.loading = FALSE]
Usable(i) == i # None /\ tokens[i].live

\* A user who has logged in before, or nobody; no page is open.
SessionsInit ==
    /\ tokens \in {<<>>, <<[live |-> TRUE, pv |-> 0]>>}
    /\ cookie = IF tokens = <<>> THEN None ELSE 1
    /\ pv = 0 /\ change = None
    /\ tab = [t \in Tabs |-> Nobody]
    /\ requests = {} /\ astray = {} /\ clashed = FALSE /\ rushed = {} /\ left = FALSE
    /\ tabsUsed = [calls |-> 0, changes |-> 0, lost |-> 0]

\* A request leaves a tab, with the cookie of the moment.  It gets a row, and the
\* version of the password for the access token; alive: its page is still there.
Call(t, task) ==
    [of |-> t, task |-> task, at |-> "sent", sent |-> cookie, got |-> None,
     ver |-> None, nr |-> tabsUsed.calls, alive |-> TRUE]

Busy(t) == {c \in requests : c.of = t /\ c.alive}
TabClicked == tabsUsed.calls < MaxRequests /\ tabsUsed' = [tabsUsed EXCEPT !.calls = @ + 1]
Set(c, d) == requests' = (requests \ {c}) \cup {d}
Over(c)   == requests' = requests \ {c}

-------------------------------------------------------------------------------
\* What the tabs do.

\* A page is loaded, or loaded again: memory is lost, requests are left to themselves.
LoadSession(t) ==
    /\ TabClicked
    /\ tab' = [tab EXCEPT ![t] = Fresh]
    /\ requests' = {IF c.of = t THEN [c EXCEPT !.alive = FALSE] ELSE c : c \in requests}
                   \cup {Call(t, "refresh")}
    /\ rushed' = rushed \ {t}
    /\ UNCHANGED <<tokens, pv, change, cookie, astray, clashed, left>>

\* The page of the login is shown while the session is still being restored.
SubmitLogin(t) ==
    /\ TabClicked
    /\ \A c \in Busy(t) : c.task # "login"
    /\ requests' = requests \cup {Call(t, "login")}
    /\ rushed' = rushed \cup {x \in {t} : Busy(t) # {}}
    /\ UNCHANGED <<tokens, pv, change, cookie, tab, astray, clashed, left>>

Logout(t) ==
    /\ TabClicked
    /\ requests' = requests \cup {Call(t, "logout")}
    /\ rushed' = rushed \cup {x \in {t} : Busy(t) # {}}
    /\ UNCHANGED <<tokens, pv, change, cookie, tab, astray, clashed, left>>

-------------------------------------------------------------------------------
\* What the back end does.

\* The look-up: a refresh token that is neither revoked nor unknown; a login with
\* the right password, or without.
Find(c) ==
    /\ c.at = "sent" /\ c.task \in {"refresh", "login"}
    /\ \/ /\ c.task = "refresh"
          /\ Set(c, [c EXCEPT !.at = IF Usable(c.sent) THEN "found" ELSE "refused"])
       \/ c.task = "login" /\ Set(c, [c EXCEPT !.at = "found", !.ver = pv])
       \/ c.task = "login" /\ Set(c, [c EXCEPT !.at = "refused"])
    /\ UNCHANGED <<tokens, pv, change, cookie, tab, astray, clashed, rushed, left, tabsUsed>>

Revoked(i) == [tokens EXCEPT ![i].live = FALSE]

\* The commit.  The chain goes on with the version it began with; a token whose
\* chain has been revoked since the look-up has gone astray.
Rotate(c) ==
    LET new   == Len(tokens) + 1
        began == IF c.task = "login" THEN c.ver ELSE tokens[c.sent].pv
        stale == IF c.task = "login" THEN c.ver # pv
                 ELSE c.sent \in astray \/ (~tokens[c.sent].live /\ began # pv)
    IN  /\ c.at = "found"
        /\ tokens' = Append(IF c.task = "login" THEN tokens ELSE Revoked(c.sent),
                            [live |-> TRUE, pv |-> began])
        /\ astray' = astray \cup {i \in {new} : stale}
        /\ Set(c, [c EXCEPT !.at = "done", !.got = new, !.ver = pv])
        /\ UNCHANGED <<pv, change, cookie, tab, clashed, rushed, left, tabsUsed>>

\* The token of the cookie, if there is one, is revoked.
EndSession(c) ==
    /\ c.at = "sent" /\ c.task = "logout"
    /\ tokens' = IF c.sent = None THEN tokens ELSE Revoked(c.sent)
    /\ Set(c, [c EXCEPT !.at = "done"])
    /\ UNCHANGED <<pv, change, cookie, tab, astray, clashed, rushed, left, tabsUsed>>

\* /change-password and /reset-password: the live rows are read, then all is
\* committed; what was inserted meanwhile is not among them.
ReadSessions ==
    /\ change = None /\ tabsUsed.changes < MaxChanges
    /\ change' = {i \in TokenIds : tokens[i].live}
    /\ tabsUsed' = [tabsUsed EXCEPT !.changes = @ + 1]
    /\ UNCHANGED <<tokens, pv, cookie, tab, requests, astray, clashed, rushed, left>>

\* A plausible slip: the sessions are left to run out.
LeavesSessions(seen) == tokens

RevokeAll(seen) ==
    [i \in TokenIds |-> IF i \in seen THEN [tokens[i] EXCEPT !.live = FALSE] ELSE tokens[i]]

ChangePassword ==
    /\ change # None
    /\ pv' = pv + 1
    /\ tokens' = RevokeAll(change)
    /\ astray' = astray \cup {i \in TokenIds : tokens[i].live /\ i \notin change}
    /\ clashed' = (clashed \/ requests # {})
    /\ change' = None
    /\ UNCHANGED <<cookie, tab, requests, rushed, left, tabsUsed>>

-------------------------------------------------------------------------------
\* What the browser makes of an answer.

UpdateTab(c, t) == tab' = IF c.alive THEN [tab EXCEPT ![c.of] = t] ELSE tab

\* A plausible slip: the new cookie is not sent along.
KeepsCookie(c) == cookie

NewCookie(c) ==
    CASE c.task = "logout" -> None
      [] c.task # "logout" /\ c.at = "done" -> c.got
      [] c.task = "refresh" /\ c.at = "refused" /\ c.sent # None -> None
      [] OTHER -> cookie

\* The answer arrives.  That of a page that has gone is taken in by the browser alone.
\* A login has read the version for the access token before its commit, a refresh
\* reads it after.
AnswerRequest(c) ==
    LET ver == IF c.task = "login" THEN c.ver ELSE pv
        t   == tab[c.of]
    IN  /\ c.at \in {"done", "refused"}
        /\ cookie' = NewCookie(c)
        /\ clashed' = (clashed \/ (c.at = "refused" /\ cookie # c.sent /\ cookie' # cookie))
        /\ left' = IF c.task = "logout" THEN TRUE ELSE left /\ cookie' = None
        /\ \/ /\ c.task = "logout"
              /\ Over(c)
              /\ UpdateTab(c, [Nobody EXCEPT !.loading = t.loading])
           \/ /\ c.task # "logout" /\ c.at = "done"
              /\ IF c.alive THEN Set(c, [c EXCEPT !.at = "me", !.ver = ver]) ELSE Over(c)
              /\ UpdateTab(c, [t EXCEPT !.token = ver, !.store = ver,
                                     !.loading = @ \/ c.task = "login"])
           \/ c.task = "refresh" /\ c.at = "refused" /\ Over(c) /\ UpdateTab(c, Nobody)
           \/ c.task = "login" /\ c.at = "refused" /\ Over(c) /\ UNCHANGED tab
        /\ UNCHANGED <<tokens, pv, change, astray, rushed, tabsUsed>>

\* GET /auth/me with the token of the answer: the user, or 401.
GetMe(c) ==
    LET t == tab[c.of]
    IN  /\ c.at = "me"
        /\ Over(c)
        /\ UpdateTab(c, [t EXCEPT !.loading = FALSE,
                               !.token = IF c.ver = pv THEN @ ELSE None,
                               !.user  = IF c.ver = pv THEN TRUE
                                         ELSE IF c.task = "login" THEN FALSE ELSE @])
        /\ UNCHANGED <<tokens, pv, change, cookie, astray, clashed, rushed, left, tabsUsed>>

\* The answer is lost, or is dropped with the page that asked.
Lose(c) ==
    LET t == tab[c.of]
    IN  /\ c.at # "found" /\ tabsUsed.lost < MaxLost
        /\ tabsUsed' = [tabsUsed EXCEPT !.lost = @ + 1]
        /\ Over(c)
        /\ CASE c.task = "login" /\ c.at # "me" -> UNCHANGED tab
             [] c.task = "login" /\ c.at = "me" ->
                    UpdateTab(c, [t EXCEPT !.token = None, !.user = FALSE, !.loading = FALSE])
             [] c.task = "logout" -> UpdateTab(c, [Nobody EXCEPT !.loading = t.loading])
             [] OTHER             -> UpdateTab(c, Nobody)
        /\ UNCHANGED <<tokens, pv, change, cookie, astray, clashed, rushed, left>>

SessionsRest == requests = {} /\ change = None /\ UNCHANGED sessionVars

SessionsNext ==
    \/ SessionsRest
    \/ \E t \in Tabs : LoadSession(t) \/ SubmitLogin(t) \/ Logout(t)
    \/ \E c \in requests :
          Find(c) \/ Rotate(c) \/ EndSession(c) \/ AnswerRequest(c) \/ GetMe(c) \/ Lose(c)
    \/ ReadSessions
    \/ ChangePassword

SessionsSpec == SessionsInit /\ [][SessionsNext]_sessionVars

-------------------------------------------------------------------------------
\* A request that has found what it looked for has sent a row, or holds the version of
\* the password that was right; one that is done has a row of its own.
Calls == [of: Tabs, task: {"refresh", "login", "logout"},
          at: {"sent", "found", "refused", "done", "me"},
          sent: TokenIds \cup {None}, got: TokenIds \cup {None}, ver: Nat \cup {None},
          nr: Nat, alive: BOOLEAN]

Sound(c) ==
    /\ c.at = "found" => IF c.task = "login" THEN c.ver \in Nat
                         ELSE c.task = "refresh" /\ c.sent \in TokenIds
    /\ c.at = "done" /\ c.task # "logout" => c.got \in TokenIds /\ c.ver \in Nat

Memory == [token: Nat \cup {None}, store: Nat \cup {None}, user: BOOLEAN, loading: BOOLEAN]

SessionsTypeOK ==
    /\ tokens \in Seq([live: BOOLEAN, pv: Nat])
    /\ pv \in Nat
    /\ change \in (SUBSET TokenIds) \cup {None}
    /\ cookie \in TokenIds \cup {None}
    /\ tab \in [Tabs -> Memory]
    /\ requests \subseteq {c \in Calls : Sound(c)}
    /\ astray \subseteq TokenIds
    /\ clashed \in BOOLEAN /\ left \in BOOLEAN /\ rushed \subseteq Tabs
    /\ tabsUsed \in [calls: Nat, changes: Nat, lost: Nat]

SignedIn(t) == tab[t].token # None /\ tab[t].user

\* A tab at rest that is signed in can be loaded again: the cookie that the tabs share
\* holds a live token, unless a logout has given it up, a refusal has cleared a newer
\* cookie, or an answer was lost.  A tab whose requests have come one at a time sets a
\* user with a token alone, wherever the pages see a token the requests send one, and
\* no tab is left loading.
SessionSurvives ==
    \A t \in Tabs :
        /\ tab[t].token # None => tab[t].store # None
        /\ requests = {} => ~tab[t].loading
        /\ requests = {} /\ t \notin rushed => (tab[t].user => tab[t].token # None)
        /\ requests = {} /\ ~clashed /\ tabsUsed.lost = 0 =>
               (SignedIn(t) /\ tab[t].token = pv => left \/ Usable(cookie))

\* A changed password ends every session begun with the old one, but for those whose
\* rotation or login was under way at the time.
OldSessionsEnd == \A i \in TokenIds : tokens[i].live => tokens[i].pv = pv \/ i \in astray
===============================================================================
