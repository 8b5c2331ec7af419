----------------------------- MODULE OAuthTokens -----------------------------
(***************************************************************************)
(* OAuth2 tokens of one credential: OAuth2Manager of core/oauth2_manager.py, *)
(* the OAuth2Refresher of core/oauth2_refresher.py (one per gateway         *)
(* replica) and the gateway's authorize, callback, refresh, revoke and       *)
(* action endpoints, each with a database session of its own.                *)
(*                                                                         *)
(* Every authorization stores a new row; the newest one counts.  Nothing     *)
(* locks a row before its refresh token is sent to the provider: the row is  *)
(* locked by the UPDATE that stores the answer, until the session ends.      *)
(* Access tokens are left out: a row's refresh token is the number of the    *)
(* generation the provider gave it.  Answers of the provider carry           *)
(* expires_in.                                                               *)
(***************************************************************************)
EXTENDS Naturals, FiniteSets

CONSTANTS
    Refreshers,    \* background refreshers, one per replica
    Requests,      \* request sessions
    Attempts,      \* authorization attempts: a state, its code and its row
    Vault,         \* the credential rows the manager copies tokens to
    None,
    GenBound,      \* bound: refresh tokens the provider issues per grant
    RequestBound,  \* bound: requests
    AgeBound,      \* bound: how often a row falls due
    FaultBound     \* bound: failures of processes, network and provider

Sessions == Refreshers \cup Requests
Gens == 0 .. GenBound        \* 0: no refresh token

ASSUME TokensAssumption ==
    /\ GenBound \in Nat \ {0}
    /\ RequestBound \in Nat
    /\ AgeBound \in Nat
    /\ FaultBound \in Nat
    /\ Refreshers \cap Requests = {}
    /\ None \notin Sessions \cup Attempts \cup (Attempts \X Gens)
    /\ Vault \notin Attempts

VARIABLES
    row,       \* committed rows of oauth_tokens
    vault,     \* committed copy: <<attempt, generation>>
    lock,      \* session that holds the row, or the credential rows
    state,     \* authorization states in Redis
    sess,      \* what a session does
    seen,      \* rows as the session loaded them
    change,    \* columns the session has flushed
    copied,    \* copy the session has flushed
    current,   \* external: the refresh token the provider accepts
    clock,     \* transactions of callbacks begun
    requests, ages, faults,
    lost,      \* history: grants whose new refresh token was never stored
    consumed   \* states that a callback has deleted: none is issued twice

vars == <<row, vault, lock, state, sess, seen, change, copied, current,
          clock, requests, ages, faults, lost, consumed>>

Statuses == {"absent", "active", "expired", "error", "revoked"}
Same == "same"
\* expires_at: beyond the refresher's window, within it, or past.
Row == [status : Statuses, refresh : Gens, due : {"fresh", "soon", "past"}, rank : Nat]
NoRow == [status |-> "absent", refresh |-> 0, due |-> "fresh", rank |-> 0]

\* Columns of an UPDATE: SQLAlchemy sends only those whose value differs from
\* the one it loaded.
Change == [status : Statuses \cup {Same}, refresh : Gens, renewed : BOOLEAN, rank : Nat]
NoChange == [status |-> Same, refresh |-> 0, renewed |-> FALSE, rank |-> 0]

Ops == {"none", "refresher", "manual", "workflow", "flow", "revoke", "callback"}
Places == {"idle", "consume", "exchange", "next", "post", "row", "vault", "dispatch", "commit"}
Answers == {"none", "kept", "rotated", "refused", "failed"}
Session == [op : Ops, at : Places, grant : Attempts \cup {None}, todo : SUBSET Attempts,
            answer : Answers, token : Gens, rank : Nat]
Idle == [op |-> "none", at |-> "idle", grant |-> None, todo |-> {},
         answer |-> "none", token |-> 0, rank |-> 0]
Loaded == [status : Statuses, refresh : Gens]   \* what is used later
Unloaded == [a \in Attempts |-> [status |-> "absent", refresh |-> 0]]
Unchanged == [a \in Attempts |-> NoChange]

TypeOK ==
    /\ row \in [Attempts -> Row]
    /\ vault \in (Attempts \X Gens) \cup {None}
    /\ lock \in [Attempts \cup {Vault} -> Sessions \cup {None}]
    /\ state \subseteq Attempts
    /\ sess \in [Sessions -> Session]
    /\ seen \in [Sessions -> [Attempts -> Loaded]]
    /\ change \in [Sessions -> [Attempts -> Change]]
    /\ copied \in [Sessions -> (Attempts \X Gens) \cup {None}]
    /\ current \in [Attempts -> Gens]
    /\ clock \in Nat
    /\ requests \in 0 .. RequestBound
    /\ ages \in [Attempts -> 0 .. AgeBound]
    /\ faults \in 0 .. FaultBound
    /\ lost \subseteq Attempts
    /\ consumed \subseteq Attempts

Init ==
    /\ row = [a \in Attempts |-> NoRow]
    /\ vault = None
    /\ lock = [x \in Attempts \cup {Vault} |-> None]
    /\ state = {}
    /\ sess = [s \in Sessions |-> Idle]
    /\ seen = [s \in Sessions |-> Unloaded]
    /\ change = [s \in Sessions |-> Unchanged]
    /\ copied = [s \in Sessions |-> None]
    /\ current = [a \in Attempts |-> 0]
    /\ clock = 0
    /\ requests = 0
    /\ ages = [a \in Attempts |-> 0]
    /\ faults = 0
    /\ lost = {}
    /\ consumed = {}

Goto(s, place) == sess' = [sess EXCEPT ![s].at = place]
Fault == faults < FaultBound /\ faults' = faults + 1

db == <<row, vault, lock, change, copied>>
bounds == <<requests, ages, faults>>
history == <<lost, consumed>>

-----------------------------------------------------------------------------
(* Sessions *)

Stored(s) == {a \in Attempts : change[s][a] # NoChange}

\* Mutant: a status that was not assigned is written too.
AppliedUnset(s, a) ==
    LET c == change[s][a] IN
    [status |-> c.status,
     refresh |-> IF c.refresh = 0 THEN row[a].refresh ELSE c.refresh,
     due |-> IF c.renewed THEN "fresh" ELSE row[a].due,
     rank |-> IF c.rank = 0 THEN row[a].rank ELSE c.rank]

\* Columns of the row of a after the session's statements.
Applied(s, a) ==
    LET c == change[s][a] IN
    [status |-> IF c.status = Same THEN row[a].status ELSE c.status,
     refresh |-> IF c.refresh = 0 THEN row[a].refresh ELSE c.refresh,
     due |-> IF c.renewed THEN "fresh" ELSE row[a].due,
     rank |-> IF c.rank = 0 THEN row[a].rank ELSE c.rank]

\* The session is closed: its locks are released, its objects are gone.
Close(s) ==
    /\ sess' = [sess EXCEPT ![s] = Idle]
    /\ seen' = [seen EXCEPT ![s] = Unloaded]
    /\ change' = [change EXCEPT ![s] = Unchanged]
    /\ copied' = [copied EXCEPT ![s] = None]
    /\ lock' = [x \in DOMAIN lock |-> IF lock[x] = s THEN None ELSE lock[x]]

\* A token the provider has issued to the session and nobody has stored.
Holds(s, a) ==
    \/ change[s][a].refresh # 0
    \/ sess[s].grant = a /\ sess[s].answer = "rotated"

Rollback(s) ==
    /\ Close(s)
    /\ lost' = lost \cup {a \in Attempts : Holds(s, a)}
    /\ UNCHANGED <<row, vault>>

CommitSession(s) ==
    /\ row' = [a \in Attempts |-> IF a \in Stored(s) THEN Applied(s, a) ELSE row[a]]
    /\ vault' = IF copied[s] = None THEN vault ELSE copied[s]
    /\ Close(s)
    /\ UNCHANGED lost

-----------------------------------------------------------------------------
(* Loading: every operation but the callback works on the newest row *)

Exists(a) == row[a].status # "absent"
\* _get_token: ORDER BY created_at DESC LIMIT 1, and created_at is now(), the
\* beginning of the transaction that inserted the row.
Newest(a) == Exists(a) /\ \A b \in Attempts : Exists(b) => row[b].rank <= row[a].rank

NewRequest(r) ==
    /\ r \in Requests
    /\ sess[r].at = "idle"
    /\ requests < RequestBound
    /\ requests' = requests + 1

Load(s, op, place, rows) ==
    /\ sess' = [sess EXCEPT ![s].op = op, ![s].at = place,
                           ![s].todo = IF op = "refresher" THEN rows ELSE {},
                           ![s].grant = IF op = "refresher" THEN None
                                        ELSE CHOOSE a \in rows : TRUE]
    /\ seen' = [seen EXCEPT ![s] = [a \in Attempts |->
                    IF a \in rows THEN [status |-> row[a].status, refresh |-> row[a].refresh]
                    ELSE Unloaded[a]]]

\* get_tokens_expiring_soon, with the refresher's own window.
Due == {a \in Attempts : row[a].status = "active" /\ row[a].due # "fresh" /\ row[a].refresh # 0}

\* Mutant: only tokens that have not expired yet are looked for.
OnlyExpiring(f) ==
    LET soon == {a \in Due : row[a].due = "soon"} IN
    /\ f \in Refreshers
    /\ sess[f].at = "idle"
    /\ soon # {}
    /\ Load(f, "refresher", "next", soon)
    /\ UNCHANGED <<db, state, current, clock, bounds, history>>

RefresherBegins(f) ==
    /\ f \in Refreshers
    /\ sess[f].at = "idle"
    /\ Due # {}
    /\ Load(f, "refresher", "next", Due)
    /\ UNCHANGED <<db, state, current, clock, bounds, history>>

\* oauth2_manual_refresh looks at no status. Without a refresh token it
\* changes nothing that lasts.
ManualRefresh(r, a) ==
    /\ NewRequest(r)
    /\ Newest(a) /\ row[a].refresh # 0
    /\ Load(r, "manual", "post", {a})
    /\ UNCHANGED <<db, state, current, clock, ages, faults, history>>

\* get_or_refresh_access_token for an action of a workflow or a flow. A token
\* that is not active, or has not expired, is only read.
ActionNeedsToken(r, a, op) ==
    /\ NewRequest(r)
    /\ Newest(a) /\ row[a].status = "active" /\ row[a].due = "past"
    /\ Load(r, op, IF row[a].refresh # 0 THEN "post" ELSE "row", {a})
    /\ UNCHANGED <<db, state, current, clock, ages, faults, history>>

Revoke(r, a) ==
    /\ NewRequest(r)
    /\ Newest(a)
    /\ Load(r, "revoke", IF row[a].status = "revoked" THEN "commit" ELSE "row", {a})
    /\ UNCHANGED <<db, state, current, clock, ages, faults, history>>

-----------------------------------------------------------------------------
(* refresh_token *)

\* Where the caller goes on once a row has been dealt with: the refresher's loop
\* takes the next one, a request commits or uses the token for its action.
ForAction(s) == sess[s].op \in {"workflow", "flow"}
AfterRow(s) ==
    IF sess[s].op = "refresher" THEN "next"
    ELSE IF ForAction(s) THEN "dispatch" ELSE "commit"

\* External: the provider accepts the newest refresh token it has issued, and
\* may replace it; it may also refuse, or be out of reach before or after it
\* has answered.
ProviderAnswers(s, a, answer, token) ==
    /\ sess' = [sess EXCEPT ![s].answer = answer, ![s].token = token,
                           ![s].grant = a, ![s].todo = @ \ {a},
                           ![s].at = IF answer # "failed" \/ ForAction(s) THEN "row"
                                    ELSE AfterRow(s)]

\* The refresher posts one row after the other, in the order of an unordered
\* SELECT.
Post(s, a) ==
    LET known == seen[s][a].refresh = current[a]
        rotates == known /\ current[a] < GenBound
    IN
    /\ \/ sess[s].at = "post" /\ a = sess[s].grant
       \/ sess[s].at = "next" /\ a \in sess[s].todo
    /\ \/ /\ known
          /\ ProviderAnswers(s, a, "kept", 0)
          /\ UNCHANGED <<current, faults, lost>>
       \/ /\ rotates
          /\ current' = [current EXCEPT ![a] = @ + 1]
          /\ ProviderAnswers(s, a, "rotated", current[a] + 1)
          /\ UNCHANGED <<faults, lost>>
       \/ /\ ~known
          /\ ProviderAnswers(s, a, "refused", 0)
          /\ UNCHANGED <<current, faults, lost>>
       \/ /\ known
          /\ Fault
          /\ ProviderAnswers(s, a, "refused", 0)
          /\ UNCHANGED <<current, lost>>
       \/ /\ Fault
          /\ ProviderAnswers(s, a, "failed", 0)
          /\ UNCHANGED <<current, lost>>
       \/ /\ rotates
          /\ Fault
          /\ current' = [current EXCEPT ![a] = @ + 1]
          /\ ProviderAnswers(s, a, "failed", 0)
          /\ lost' = lost \cup {a}
    /\ UNCHANGED <<db, state, seen, clock, requests, ages, consumed>>

\* What _update_token, the error paths and revoke_token assign.
Assigned(s) ==
    IF sess[s].op = "revoke" THEN "revoked"
    ELSE IF sess[s].answer \in {"kept", "rotated"} THEN "active"
    ELSE IF ForAction(s) THEN "expired" ELSE "error"

\* Mutant: the UPDATE carries the status although it was loaded as such.
EveryStatus(s) ==
    [status |-> Assigned(s), refresh |-> sess[s].token,
     renewed |-> sess[s].answer \in {"kept", "rotated"}, rank |-> 0]

\* Mutant: without a refresh token in the answer the one it was loaded with is sent.
LoadedToken(s) ==
    [status |-> IF Assigned(s) = seen[s][sess[s].grant].status THEN Same ELSE Assigned(s),
     refresh |-> IF sess[s].token # 0 THEN sess[s].token ELSE seen[s][sess[s].grant].refresh,
     renewed |-> sess[s].answer \in {"kept", "rotated"}, rank |-> 0]

\* A status equal to the loaded one is not sent; a refresh token only if the
\* answer has one.
Columns(s) ==
    [status |-> IF Assigned(s) = seen[s][sess[s].grant].status THEN Same ELSE Assigned(s),
     refresh |-> sess[s].token,
     renewed |-> sess[s].answer \in {"kept", "rotated"},
     rank |-> 0]

\* The UPDATE waits for the row lock and keeps it.
FlushRow(s) ==
    LET a == sess[s].grant
        accepted == sess[s].answer \in {"kept", "rotated"}
    IN
    /\ sess[s].at = "row" /\ sess[s].op # "callback"
    /\ lock[a] \in {None, s}
    /\ lock' = [lock EXCEPT ![a] = s]
    /\ change' = [change EXCEPT ![s][a] = Columns(s)]
    /\ Goto(s, IF accepted THEN "vault" ELSE AfterRow(s))
    /\ UNCHANGED <<row, vault, state, seen, copied, current, clock, bounds, history>>

\* Mutant: the copy is committed on its own.
CommitVault(s) ==
    LET a == sess[s].grant IN
    /\ sess[s].at = "vault"
    /\ lock[Vault] \in {None, s}
    /\ vault' = IF sess[s].token # 0 THEN <<a, sess[s].token>> ELSE vault
    /\ Goto(s, AfterRow(s))
    /\ UNCHANGED <<row, lock, copied, state, seen, change, current, clock, bounds, history>>

\* vault.store copies the tokens to the credential rows, which all grants share.
\* (Two callbacks that both find no credential rows yet both INSERT: the second
\* ends with an IntegrityError, which here is one of the failures of Crash.)
StoreVault(s) ==
    LET a == sess[s].grant IN
    /\ sess[s].at = "vault"
    /\ lock[Vault] \in {None, s}
    /\ lock' = [lock EXCEPT ![Vault] = s]
    /\ copied' = [copied EXCEPT ![s] = IF sess[s].token # 0 THEN <<a, sess[s].token>> ELSE @]
    /\ Goto(s, AfterRow(s))
    /\ UNCHANGED <<row, vault, state, seen, change, current, clock, bounds, history>>

\* Mutant: the refresher's cycle ends with the exception of its last row.
CommitUnlessFailed(s) ==
    /\ \/ sess[s].at = "commit"
       \/ sess[s].at = "next" /\ sess[s].todo = {}
    /\ IF sess[s].op # "revoke" /\ sess[s].answer \in {"refused", "failed"}
       THEN Rollback(s)
       ELSE CommitSession(s)
    /\ UNCHANGED <<state, current, clock, bounds, consumed>>

\* The refresher commits once, after its last row. A revocation commits; a
\* manual refresh that failed raises HTTPStatusError and does not.
Commit(s) ==
    /\ \/ sess[s].at = "commit"
       \/ sess[s].at = "next" /\ sess[s].todo = {}
    /\ IF sess[s].op = "manual" /\ sess[s].answer \in {"refused", "failed"}
       THEN Rollback(s)
       ELSE CommitSession(s)
    /\ UNCHANGED <<state, current, clock, bounds, consumed>>

\* A workflow's action resolves its credentials in a session that is closed
\* without a commit. A flow's action uses the session of the request, which is
\* committed at its end unless the request fails.
EndDispatch(r) ==
    /\ sess[r].at = "dispatch"
    /\ \/ Rollback(r)
       \/ sess[r].op = "flow" /\ CommitSession(r)
    /\ UNCHANGED <<state, current, clock, bounds, consumed>>

-----------------------------------------------------------------------------
(* The authorization code flow *)

\* generate_authorization_url
Authorize(a) ==
    /\ a \notin state \cup consumed
    /\ current[a] = 0
    /\ state' = state \cup {a}
    /\ UNCHANGED <<db, sess, seen, current, clock, bounds, history>>

StateExpires(a) ==
    /\ a \in state
    /\ state' = state \ {a}
    /\ UNCHANGED <<db, sess, seen, current, clock, bounds, history>>

\* oauth2_callback with validate_and_consume_state: GET, and 403 without a key.
Callback(r, a) ==
    /\ NewRequest(r)
    /\ IF a \in state
       THEN sess' = [sess EXCEPT ![r].op = "callback", ![r].at = "consume", ![r].grant = a]
       ELSE UNCHANGED sess
    /\ UNCHANGED <<db, state, seen, current, clock, ages, faults, history>>

\* DEL; then set_rls_bypass begins the transaction, whose time is created_at.
ConsumeState(r) ==
    LET a == sess[r].grant IN
    /\ sess[r].at = "consume"
    /\ state' = state \ {a}
    /\ consumed' = consumed \cup {a}
    /\ clock' = clock + 1
    /\ sess' = [sess EXCEPT ![r].at = "exchange", ![r].rank = clock']
    /\ UNCHANGED <<db, seen, current, bounds, lost>>

\* exchange_code. External: a code is good once, and a provider that does not
\* answer, or refuses, ends the request with an exception.
ExchangeCode(r) ==
    LET a == sess[r].grant IN
    /\ sess[r].at = "exchange"
    /\ \/ /\ current[a] = 0
          /\ current' = [current EXCEPT ![a] = 1]
          /\ \E token \in {0, 1} :   \* with or without a refresh token
                sess' = [sess EXCEPT ![r].at = "row", ![r].token = token,
                                    ![r].answer = IF token = 1 THEN "rotated" ELSE "kept"]
          /\ UNCHANGED <<db, seen, faults, lost>>
       \/ /\ current[a] # 0
          /\ Rollback(r)
          /\ UNCHANGED <<current, faults>>
       \/ /\ current[a] = 0
          /\ Fault
          /\ Rollback(r)
          /\ current' \in {current, [current EXCEPT ![a] = 1]}
    /\ UNCHANGED <<state, clock, requests, ages, consumed>>

\* _store_token: the new row is invisible until the commit.
InsertRow(r) ==
    LET a == sess[r].grant IN
    /\ sess[r].at = "row" /\ sess[r].op = "callback"
    /\ lock' = [lock EXCEPT ![a] = r]
    /\ change' = [change EXCEPT ![r][a] = [status |-> "active", refresh |-> sess[r].token,
                                          renewed |-> TRUE, rank |-> sess[r].rank]]
    /\ Goto(r, "vault")
    /\ UNCHANGED <<row, vault, state, seen, copied, current, clock, bounds, history>>

-----------------------------------------------------------------------------
(* Time, failures, PostgreSQL *)

\* expires_at comes closer.
Age(a) ==
    /\ Exists(a)
    /\ \/ /\ row[a].due = "fresh"
          /\ ages[a] < AgeBound
          /\ ages' = [ages EXCEPT ![a] = @ + 1]
          /\ row' = [row EXCEPT ![a].due = "soon"]
       \/ /\ row[a].due = "soon"
          /\ row' = [row EXCEPT ![a].due = "past"]
          /\ UNCHANGED ages
    /\ UNCHANGED <<vault, lock, state, sess, seen, change, copied, current, clock,
                   requests, faults, history>>

Crash(s) ==
    /\ sess[s].at # "idle"
    /\ Fault
    /\ Rollback(s)
    /\ UNCHANGED <<state, current, clock, requests, ages, consumed>>

Wanted(s) ==
    CASE sess[s].at = "row" -> sess[s].grant
      [] sess[s].at = "vault" -> Vault
      [] OTHER -> None
BlockedBy(s) == IF Wanted(s) = None THEN None ELSE lock[Wanted(s)]

Deadlocked(s) ==
    \E S \in SUBSET Sessions : s \in S /\ \A t \in S : BlockedBy(t) \in S \ {t}

\* PostgreSQL aborts a transaction of a cycle. The session cannot be used any
\* more: the refresher's whole cycle, or the request, ends with an exception.
DeadlockAbort(s) ==
    /\ Deadlocked(s)
    /\ Rollback(s)
    /\ UNCHANGED <<state, current, clock, bounds, consumed>>

-----------------------------------------------------------------------------

Step(s) ==
    \/ \E a \in Attempts : Post(s, a)
    \/ FlushRow(s)
    \/ StoreVault(s)
    \/ Commit(s)
    \/ EndDispatch(s)
    \/ ConsumeState(s)
    \/ ExchangeCode(s)
    \/ InsertRow(s)
    \/ DeadlockAbort(s)

Next ==
    \/ \E f \in Refreshers : RefresherBegins(f)
    \/ \E r \in Requests, a \in Attempts :
         \/ ManualRefresh(r, a)
         \/ \E op \in {"workflow", "flow"} : ActionNeedsToken(r, a, op)
         \/ Revoke(r, a)
         \/ Callback(r, a)
    \/ \E a \in Attempts : Authorize(a) \/ StateExpires(a) \/ Age(a)
    \/ \E s \in Sessions : Step(s) \/ Crash(s)

Spec == Init /\ [][Next]_vars

-----------------------------------------------------------------------------
(* Properties *)

\* refresh_token keeps a credential alive although rows are not locked while
\* the provider rotates their token: unless an answer was lost, or is on its
\* way to a commit, the stored refresh token is the one the provider accepts.
StoredTokenAccepted ==
    \A a \in Attempts :
        Exists(a) /\ row[a].refresh # 0 =>
            \/ row[a].refresh = current[a]
            \/ a \in lost
            \/ \E s \in Sessions : Holds(s, a)

\* revoke_token is not undone by a refresh that was on its way to the provider
\* when the revocation committed: only a manual refresh reactivates a row.
RevocationSticks ==
    [][\A a \in Attempts :
          row[a].status = "revoked" /\ row'[a].status = "active" =>
              \E r \in Requests : sess[r].op = "manual" /\ sess[r].grant = a]_vars

\* The credential rows are written with the token row, also when several grants
\* share them: the vault never offers a refresh token that its row no longer has.
VaultMatchesRow ==
    vault # None => row[vault[1]].refresh = vault[2]

\* A new refresh token of a stored row does not get lost because another row of
\* the refresher's cycle failed (the try around each refresh_token), a token was
\* refused or two sessions met: only a failure, a deadlock or an action whose
\* session ends without a commit lose one.
LossHasCause ==
    [][\A a \in lost' \ lost :
          Exists(a) =>
              \/ faults' # faults
              \/ \E s \in Sessions : Holds(s, a) /\ (Deadlocked(s) \/ ForAction(s))]_vars

\* Fairness: sessions make progress, PostgreSQL grants a lock in the order it was
\* asked for, and the refreshers poll.
Fairness ==
    /\ \A s \in Sessions : /\ WF_vars(Step(s))
                           /\ SF_vars(FlushRow(s))
                           /\ SF_vars(StoreVault(s))
    /\ \A f \in Refreshers : WF_vars(RefresherBegins(f))

FairSpec == Spec /\ Fairness

\* "finds tokens expiring within 5 minutes, and proactively refreshes them"
\* (oauth2_refresher.py): a token that falls due does not stay due for ever, it
\* is renewed or leaves the active state.
DueIsHandled ==
    \A a \in Attempts : a \in Due ~> a \notin Due
=============================================================================
