------------------------------ MODULE Accounts ------------------------------
(***************************************************************************)
(* Refresh-token rotation and logout of one user (core/security.py,        *)
(* api/auth.py) together with the browser tabs that use them               *)
(* (frontend/src/lib/api.ts).  The tabs of a browser share localStorage;   *)
(* each has a refreshInFlight of its own.  A rotation is two steps: it     *)
(* reads the presented row, and commits the revocation with the new row.   *)
(* A family is what a login and its rotations issued; it is named by the   *)
(* token of the login.                                                     *)
(***************************************************************************)
EXTENDS Naturals, FiniteSets

CONSTANTS
  Tab,          \* tabs of one browser
  Call,         \* API requests a page makes at once
  TabOf,        \* the tab of a call
  Exchange,     \* requests to /auth/refresh at once
  MaxTokens,    \* bound: refresh tokens issued
  MaxEvents,    \* bound: lost or refused refreshes, logouts, lapses
  Nobody

ASSUME AccountsAssumption ==
  /\ TabOf \in [Call -> Tab] /\ Nobody \notin Tab \cup Exchange /\ IsFiniteSet(Exchange)
  /\ MaxTokens \in Nat /\ MaxEvents \in Nat

VARIABLES
  family,       \* refresh_tokens: token number -> family, in order of issue
  revoked, lapsed,
  stored,       \* localStorage: "none", or an access token's age and a refresh token
  page,         \* what a tab shows: "app" or "login"
  call,         \* API requests of the tabs
  exchange,     \* requests to /auth/refresh: token, tab that listens, new token
  flight,       \* refreshInFlight of each tab
  events,       \* how many of them so far
  disturbed     \* history: something besides the tabs' own calls interfered

serverVars == <<family, revoked, lapsed>>
browserVars == <<stored, page, call, flight>>
accountsVars == <<serverVars, browserVars, exchange, events, disturbed>>

Issued == DOMAIN family
Token == 1 .. MaxTokens
Live(n) == n \in Issued \ (revoked \cup lapsed)
Free == [pc |-> "free", token |-> 0, tab |-> Nobody, new |-> 0]
Quiet == [pc |-> "idle", on |-> Nobody]
Signed(access, n) == [access |-> access, refresh |-> n]
NotSigned == Signed("none", 0)

AccountsInit ==
  /\ family = [n \in {} |-> 0] /\ revoked = {} /\ lapsed = {}
  /\ stored = NotSigned /\ page = [t \in Tab |-> "login"]
  /\ call = [r \in Call |-> Quiet] /\ exchange = [s \in Exchange |-> Free]
  /\ flight = [t \in Tab |-> Nobody]
  /\ events = 0 /\ disturbed = FALSE

----------------------------------------------------------------------------
(* The server.                                                             *)

\* issue_refresh_token
NextToken == Cardinality(Issued) + 1
Issue(f) == /\ NextToken <= MaxTokens
            /\ family' = [n \in Issued \cup {NextToken} |-> IF n = NextToken THEN f ELSE family[n]]

\* rotate_refresh_token up to its UPDATE: a revoked or expired row is refused.
ReadRow(s) ==
  /\ exchange[s].pc = "sent"
  /\ exchange' = [exchange EXCEPT ![s].pc = IF Live(exchange[s].token) THEN "read" ELSE "denied"]
  /\ UNCHANGED <<serverVars, browserVars, events, disturbed>>

\* Mutant: the presented token stays usable.
RotateKeeping(s) ==
  /\ exchange[s].pc = "read"
  /\ Issue(family[exchange[s].token])
  /\ exchange' = [exchange EXCEPT ![s].pc = "granted", ![s].new = NextToken]
  /\ UNCHANGED <<revoked, lapsed, browserVars, events, disturbed>>

\* rotate_refresh_token and the commit of the request.
Rotate(s) ==
  /\ exchange[s].pc = "read"
  /\ Issue(family[exchange[s].token])
  /\ revoked' = revoked \cup {exchange[s].token}
  /\ exchange' = [exchange EXCEPT ![s].pc = "granted", ![s].new = NextToken]
  /\ UNCHANGED <<lapsed, browserVars, events, disturbed>>

Disturb == events < MaxEvents /\ events' = events + 1 /\ disturbed' = TRUE

\* Fourteen days pass for a token.
Lapse(n) ==
  /\ Live(n)
  /\ lapsed' = lapsed \cup {n} /\ Disturb
  /\ UNCHANGED <<family, revoked, browserVars, exchange>>

\* logout of one token, and of all tokens of the user, by a client of the API.
Logout(n) ==
  /\ Live(n)
  /\ revoked' = revoked \cup {n} /\ Disturb
  /\ UNCHANGED <<family, lapsed, browserVars, exchange>>

LogoutAll ==
  /\ \E n \in Issued : Live(n)
  /\ revoked' = revoked \cup Issued /\ Disturb
  /\ UNCHANGED <<family, lapsed, browserVars, exchange>>

----------------------------------------------------------------------------
(* The browser.                                                            *)

\* A page goes to /login: its calls end and nobody hears its refresh.
Unload(t, answered) ==
  /\ page' = [page EXCEPT ![t] = "login"]
  /\ call' = [r \in Call |-> IF TabOf[r] = t THEN Quiet ELSE call[r]]
  /\ flight' = [flight EXCEPT ![t] = Nobody]
  /\ exchange' = [s \in Exchange |->
       IF s = answered THEN Free
       ELSE IF exchange[s].tab = t THEN [exchange[s] EXCEPT !.tab = Nobody] ELSE exchange[s]]

\* clearToken and the redirect of request().
Expel(t, answered) ==
  stored' = NotSigned /\ Unload(t, answered) /\ UNCHANGED <<serverVars, events>>

\* login: a new family; login/page.tsx goes to "/" at once when a token is stored.
Login(t) ==
  /\ page[t] = "login" /\ page' = [page EXCEPT ![t] = "app"]
  /\ IF stored # NotSigned THEN UNCHANGED <<family, stored>>
     ELSE Issue(NextToken) /\ stored' = Signed("fresh", NextToken)
  /\ UNCHANGED <<revoked, lapsed, call, flight, exchange, events, disturbed>>

\* The Sign out button only clears localStorage; the server is not told.
SignOut(t) ==
  /\ page[t] = "app"
  /\ Expel(t, Nobody)
  /\ disturbed' = (disturbed \/ \E r \in Call : TabOf[r] # t /\ call[r].pc # "idle")

\* Fifteen minutes pass for the access token.
AccessExpires ==
  /\ stored.access = "fresh"
  /\ stored' = [stored EXCEPT !.access = "stale"]
  /\ disturbed' = (disturbed \/ \E r \in Call : call[r].pc = "again")
  /\ UNCHANGED <<serverVars, page, call, flight, exchange, events>>

\* request: answered, or refused with 401.
Ask(r) ==
  /\ page[TabOf[r]] = "app" /\ call[r].pc = "idle" /\ stored.access # "fresh"
  /\ call' = [call EXCEPT ![r].pc = "refused"]
  /\ UNCHANGED <<serverVars, stored, page, flight, exchange, events, disturbed>>

\* Two rotations of one token by two tabs.
Overlaps(t, n) == \E s \in Exchange :
  exchange[s].pc # "free" /\ exchange[s].token = n /\ exchange[s].tab # t

\* Mutant: every 401 starts a refresh of its own.
RefreshAlone(r) ==
  LET t == TabOf[r]  IN
  /\ call[r].pc = "refused" /\ stored # NotSigned
  /\ \E s \in Exchange :
       /\ exchange[s].pc = "free"
       /\ exchange' = [exchange EXCEPT ![s] =
            [pc |-> "sent", token |-> stored.refresh, tab |-> t, new |-> 0]]
       /\ flight' = [flight EXCEPT ![t] = s]
       /\ call' = [call EXCEPT ![r] = [pc |-> "waiting", on |-> s]]
  /\ disturbed' = (disturbed \/ Overlaps(t, stored.refresh))
  /\ UNCHANGED <<serverVars, stored, page, events>>

\* tryRefresh: join the refresh in flight, or send one.
Refresh(r) ==
  LET t == TabOf[r]  IN
  /\ call[r].pc = "refused" /\ stored # NotSigned
  /\ IF flight[t] # Nobody
     THEN /\ call' = [call EXCEPT ![r] = [pc |-> "waiting", on |-> flight[t]]]
          /\ UNCHANGED <<flight, exchange, disturbed>>
     ELSE \E s \in Exchange :
       /\ exchange[s].pc = "free"
       /\ exchange' = [exchange EXCEPT ![s] =
            [pc |-> "sent", token |-> stored.refresh, tab |-> t, new |-> 0]]
       /\ flight' = [flight EXCEPT ![t] = s]
       /\ call' = [call EXCEPT ![r] = [pc |-> "waiting", on |-> s]]
       /\ disturbed' = (disturbed \/ Overlaps(t, stored.refresh))
  /\ UNCHANGED <<serverVars, stored, page, events>>

\* ... unless no refresh token is stored.
GiveUp(r) ==
  /\ call[r].pc = "refused" /\ stored = NotSigned
  /\ Expel(TabOf[r], Nobody) /\ UNCHANGED disturbed

\* setTokens, and the calls that waited are sent again.
Granted(s) ==
  LET t == exchange[s].tab  IN
  /\ exchange[s].pc = "granted" /\ t # Nobody
  /\ stored' = Signed("fresh", exchange[s].new)
  /\ flight' = [flight EXCEPT ![t] = Nobody]
  /\ call' = [r \in Call |-> IF call[r].on = s /\ TabOf[r] = t
                             THEN [pc |-> "again", on |-> Nobody] ELSE call[r]]
  /\ exchange' = [exchange EXCEPT ![s] = Free]
  /\ UNCHANGED <<serverVars, page, events, disturbed>>

\* The refresh failed: every call that waited gives up.
Denied(s) ==
  /\ exchange[s].pc = "denied" /\ exchange[s].tab # Nobody
  /\ Expel(exchange[s].tab, s) /\ UNCHANGED disturbed

\* An answer nobody waits for.
Unheard(s) ==
  /\ exchange[s].pc \in {"granted", "denied"} /\ exchange[s].tab = Nobody
  /\ exchange' = [exchange EXCEPT ![s] = Free]
  /\ UNCHANGED <<serverVars, browserVars, events, disturbed>>

\* The refresh gets no usable answer (network, 429, 500); the server may go on.
Lose(s) ==
  /\ exchange[s].tab # Nobody /\ Disturb
  /\ stored' = NotSigned
  /\ \E gone \in {s, Nobody} : Unload(exchange[s].tab, gone)
  /\ UNCHANGED serverVars

\* The second try of a call: a 401 now is final.
Again(r) ==
  /\ call[r].pc = "again"
  /\ call' = [call EXCEPT ![r] = IF stored.access = "fresh" THEN Quiet
                                 ELSE [pc |-> "final", on |-> Nobody]]
  /\ UNCHANGED <<serverVars, stored, page, flight, exchange, events, disturbed>>

Final(r) ==
  /\ call[r].pc = "final"
  /\ Expel(TabOf[r], Nobody) /\ UNCHANGED disturbed

AccountsNext ==
  \/ \E s \in Exchange : ReadRow(s) \/ Rotate(s) \/ Granted(s) \/ Denied(s) \/ Unheard(s) \/ Lose(s)
  \/ \E n \in Issued : Lapse(n) \/ Logout(n)
  \/ LogoutAll \/ AccessExpires
  \/ \E t \in Tab : Login(t) \/ SignOut(t)
  \/ \E r \in Call : Ask(r) \/ Refresh(r) \/ GiveUp(r) \/ Again(r) \/ Final(r)

AccountsSpec == AccountsInit /\ [][AccountsNext]_accountsVars

----------------------------------------------------------------------------
\* What a family may still become: its live tokens, and the rotations under way.
Branches(f) ==
  Cardinality({n \in Issued : Live(n) /\ family[n] = f
                 /\ \A s \in Exchange : exchange[s].pc = "read" => exchange[s].token # n})
  + Cardinality({s \in Exchange : exchange[s].pc = "read" /\ family[exchange[s].token] = f})

SameRowRead == \E s, u \in Exchange :
  s # u /\ exchange[s].pc = "read" /\ exchange[u].pc = "read" /\ exchange[s].token = exchange[u].token

\* One login is one session: its tokens multiply only when two rotations read
\* the same row before either commits, and once none is left (logout, logout
\* everywhere, expiry) none comes back.
SessionsDoNotMultiply ==
  [][\A f \in Issued : Branches(f)' > Branches(f) => SameRowRead']_accountsVars

\* Calls of one page never sign the user out by themselves: localStorage is
\* cleared only by the button, or after something interfered (a lost answer,
\* another tab with the same token, an expiry, a logout elsewhere).
SignedOutForCause ==
  [][stored # NotSigned /\ stored' = NotSigned
     => disturbed' \/ \E t \in Tab : SignOut(t)]_accountsVars
=============================================================================
