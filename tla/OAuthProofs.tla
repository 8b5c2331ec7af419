----------------------------- MODULE OAuthProofs -----------------------------
(***************************************************************************)
(* Proofs about OAuthTokens for any number of replicas, request sessions    *)
(* and authorizations, and any bounds.                                      *)
(***************************************************************************)
EXTENDS OAuthTokens, TLAPS

-----------------------------------------------------------------------------
(* The inductive invariant *)

\* Where a session is tells what it has loaded, received and flushed.
Progress(s) ==
    /\ sess[s].at = "idle" => sess[s] = Idle /\ change[s] = Unchanged /\ copied[s] = None
    /\ sess[s].at \in {"consume", "exchange", "post", "row", "vault"} => sess[s].grant \in Attempts
    /\ sess[s].at \in {"consume", "exchange", "post"} =>
          change[s] = Unchanged /\ sess[s].answer = "none"
    /\ sess[s].at = "post" => sess[s].todo = {}
    /\ sess[s].at = "row" =>
          sess[s].grant \notin sess[s].todo /\ change[s][sess[s].grant] = NoChange
    /\ \A a \in sess[s].todo : change[s][a] = NoChange
    /\ sess[s].token # 0 <=> sess[s].answer = "rotated"
    /\ sess[s].answer = "rotated" => sess[s].grant \in Attempts
    /\ sess[s].at = "vault" \/ (sess[s].answer = "rotated" /\ sess[s].at # "row") =>
          change[s][sess[s].grant].refresh = sess[s].token
    /\ sess[s].op # "refresher" =>
          \A a \in Attempts : change[s][a].refresh # 0 => sess[s].answer = "rotated"

\* Every refresh token that is flushed is copied before the session can commit,
\* and the copy is that of a flushed row.
Copies(s) ==
    /\ copied[s] # None => /\ copied[s] \in Attempts \X Gens
                           /\ change[s][copied[s][1]].refresh = copied[s][2]
                           /\ copied[s][2] # 0
    /\ \A a \in Attempts :
          change[s][a].refresh # 0 =>
              copied[s] # None \/ (sess[s].at = "vault" /\ sess[s].grant = a)

\* What the provider has issued and nobody has stored is with one session, or
\* lost: no row, loaded or committed, has it.
Pending(a) == a \in lost \/ \E s \in Sessions : Holds(s, a)

Token(a) ==
    /\ row[a].refresh <= current[a]
    /\ \A s \in Sessions : seen[s][a].refresh <= row[a].refresh
    /\ row[a].refresh # 0 /\ row[a].refresh # current[a] => Pending(a)
    /\ Pending(a) => row[a].refresh # current[a]
    /\ \A s \in Sessions :
          /\ change[s][a].refresh # 0 => change[s][a].refresh = current[a]
          /\ sess[s].grant = a /\ sess[s].answer = "rotated" => sess[s].token = current[a]
    /\ \A s \in Sessions : Holds(s, a) => a \notin lost
    /\ \A s, t \in Sessions : Holds(s, a) /\ Holds(t, a) => s = t

\* A callback that has its tokens: it alone inserts the row of its attempt.
Inserting(s) == sess[s].op = "callback" /\ sess[s].at \in {"row", "vault", "commit"}

Inserts ==
    /\ \A s \in Sessions :
          /\ Inserting(s) =>
                /\ sess[s].grant \in Attempts
                /\ current[sess[s].grant] # 0
                /\ ~Exists(sess[s].grant)
          /\ sess[s].op = "callback" =>
                /\ sess[s].at \in {"consume", "exchange", "row", "vault", "commit"}
                /\ sess[s].todo = {}
                /\ \A a \in Attempts : change[s][a] # NoChange =>
                      a = sess[s].grant /\ sess[s].at \in {"vault", "commit"}
          /\ sess[s].at \in {"consume", "exchange"} => sess[s].op = "callback"
    /\ \A s, t \in Sessions :
          Inserting(s) /\ Inserting(t) /\ sess[s].grant = sess[t].grant => s = t
    /\ \A a \in Attempts : Exists(a) => current[a] # 0

\* The other operations work on rows that exist; only a manual refresh loads a
\* row that is not active and makes it active.
Updates(s) ==
    /\ sess[s].op # "callback" =>
          /\ \A a \in Attempts : change[s][a] # NoChange => Exists(a)
          /\ sess[s].grant \in Attempts => Exists(sess[s].grant)
    /\ \A a \in sess[s].todo : Exists(a) /\ seen[s][a].status = "active"
    /\ sess[s].op \in {"refresher", "workflow", "flow"} /\ sess[s].grant \in Attempts =>
          seen[s][sess[s].grant].status = "active"
    /\ sess[s].op = "manual" => s \in Requests
    /\ sess[s].at = "next" => sess[s].op = "refresher"
    /\ sess[s].at = "dispatch" => sess[s].op \in {"workflow", "flow"}
    /\ sess[s].op = "none" => sess[s].at = "idle"
    /\ \A a \in Attempts :
          /\ change[s][a].status # "absent"
          /\ change[s][a].status = "active" =>
                sess[s].op \in {"manual", "callback"} /\ sess[s].grant = a

OInv ==
    /\ TypeOK
    /\ \A s \in Sessions : Progress(s)
    /\ \A s \in Sessions : Copies(s)
    /\ \A a \in Attempts : Token(a)
    /\ Inserts
    /\ \A s \in Sessions : Updates(s)
    /\ VaultMatchesRow

LEMMA InitOInv == Init => OInv
<1> SUFFICES ASSUME Init PROVE OInv
    OBVIOUS
<1> USE TokensAssumption
<1>1. /\ \A s \in Sessions : /\ sess[s] = Idle /\ change[s] = Unchanged
                             /\ copied[s] = None /\ seen[s] = Unloaded
      /\ \A a \in Attempts : row[a] = NoRow /\ current[a] = 0
      /\ vault = None /\ lost = {} /\ consumed = {} /\ state = {}
      BY DEF Init
<1>2. /\ Idle.at = "idle" /\ Idle.op = "none" /\ Idle.grant = None /\ Idle.todo = {}
      /\ Idle.answer = "none" /\ Idle.token = 0
      BY DEF Idle
<1>3. \A a \in Attempts : /\ Unchanged[a] = NoChange /\ Unchanged[a].refresh = 0
                          /\ Unchanged[a].status = Same
                          /\ Unloaded[a].refresh = 0
      BY DEF Unchanged, NoChange, Unloaded
<1>4. NoRow.refresh = 0 /\ NoRow.status = "absent" BY DEF NoRow
<1>5. TypeOK
      <2>1. Idle \in Session /\ NoRow \in Row /\ NoChange \in Change
            BY DEF Idle, Session, NoRow, Row, NoChange, Change, Ops, Places, Answers, Gens,
                   Statuses, Same
      <2>2. Unchanged \in [Attempts -> Change] /\ Unloaded \in [Attempts -> Loaded]
            BY <2>1 DEF Unchanged, Unloaded, Loaded, Statuses, Gens
      <2>3. 0 \in Gens /\ 0 \in 0 .. AgeBound /\ 0 \in 0 .. FaultBound /\ 0 \in 0 .. RequestBound
            BY DEF Gens
      <2> QED BY <2>1, <2>2, <2>3 DEF Init, TypeOK
<1>6. \A s \in Sessions : Progress(s) BY <1>1, <1>2, <1>3 DEF Progress
<1>7. \A s \in Sessions : Copies(s) BY <1>1, <1>2, <1>3 DEF Copies
<1>8. \A a \in Attempts : Token(a)
      <2>1. \A s \in Sessions, a \in Attempts : ~Holds(s, a)
            BY <1>1, <1>2, <1>3 DEF Holds
      <2> QED BY <1>1, <1>2, <1>3, <1>4, <2>1 DEF Token, Pending
<1>9. Inserts BY <1>1, <1>2, <1>3, <1>4 DEF Inserts, Inserting, Exists
<1>10. \A s \in Sessions : Updates(s) BY <1>1, <1>2, <1>3 DEF Updates, Same
<1>11. VaultMatchesRow BY <1>1, <1>2 DEF VaultMatchesRow
<1> QED BY <1>5, <1>6, <1>7, <1>8, <1>9, <1>10, <1>11 DEF OInv

-----------------------------------------------------------------------------
(* What a step leaves alone *)

\* Nothing of the session t has changed, and no row has gone.
Kept(t) ==
    /\ sess'[t] = sess[t] /\ seen'[t] = seen[t]
    /\ change'[t] = change[t] /\ copied'[t] = copied[t]

RowsStay == \A a \in Attempts : Exists(a) => Exists(a)'

LEMMA KeptSession ==
    ASSUME OInv, RowsStay, NEW t \in Sessions, Kept(t)
    PROVE  Progress(t)' /\ Copies(t)' /\ Updates(t)'
<1>1. Progress(t) /\ Copies(t) /\ Updates(t) BY DEF OInv
<1>2. Progress(t)' BY <1>1 DEF Progress, Kept
<1>3. Copies(t)' BY <1>1 DEF Copies, Kept
<1>4. Updates(t)'
      <2>1. sess[t] \in Session BY DEF OInv, TypeOK
      <2>2. sess[t].todo \subseteq Attempts BY <2>1 DEF Session
      <2> QED BY <1>1, <2>2 DEF Updates, Kept, RowsStay
<1> QED BY <1>2, <1>3, <1>4

\* No token of a is issued, stored or lost.
LEMMA KeptToken ==
    ASSUME OInv, NEW a \in Attempts, current'[a] = current[a], a \in lost' <=> a \in lost,
           row'[a].refresh = row[a].refresh,
           \A s \in Sessions : seen'[s][a].refresh <= row[a].refresh,
           \A s \in Sessions : Holds(s, a)' <=> Holds(s, a),
           \A s \in Sessions :
              change'[s][a].refresh # 0 => change'[s][a].refresh = current[a],
           \A s \in Sessions :
              sess'[s].grant = a /\ sess'[s].answer = "rotated" => sess'[s].token = current[a]
    PROVE  Token(a)'
<1>1. Token(a) BY DEF OInv
<1>2. Pending(a)' <=> Pending(a) BY DEF Pending
<1>3. /\ row'[a].refresh <= current'[a]
      /\ row'[a].refresh # 0 /\ row'[a].refresh # current'[a] => Pending(a)'
      /\ Pending(a)' => row'[a].refresh # current'[a]
      BY <1>1, <1>2 DEF Token
<1>4. \A s \in Sessions : Holds(s, a)' => a \notin lost' BY <1>1 DEF Token
<1>5. \A s, t \in Sessions : Holds(s, a)' /\ Holds(t, a)' => s = t BY <1>1 DEF Token
<1> QED BY <1>3, <1>4, <1>5 DEF Token

\* No token is issued, stored or lost.
LEMMA KeptTokens ==
    ASSUME OInv, current' = current, lost' = lost,
           \A a \in Attempts : row'[a].refresh = row[a].refresh,
           \A s \in Sessions, a \in Attempts : seen'[s][a].refresh <= row[a].refresh,
           \A s \in Sessions, a \in Attempts : Holds(s, a)' <=> Holds(s, a),
           \A s \in Sessions, a \in Attempts :
              change'[s][a].refresh # 0 => change'[s][a].refresh = current[a],
           \A s \in Sessions, a \in Attempts :
              sess'[s].grant = a /\ sess'[s].answer = "rotated" => sess'[s].token = current[a]
    PROVE  \A a \in Attempts : Token(a)'
BY KeptToken

LEMMA UnchangedTokens ==
    ASSUME OInv, UNCHANGED <<row, sess, seen, change, current, lost>>
    PROVE  \A a \in Attempts : Token(a)'
<1>1. \A a \in Attempts : Token(a) BY DEF OInv
<1> QED BY <1>1 DEF Token, Pending, Holds

\* The fields of a session, and the types of the rest.
LEMMA SessionType ==
    ASSUME OInv, NEW s \in Sessions
    PROVE  /\ sess[s] \in Session
           /\ sess[s].op \in Ops /\ sess[s].at \in Places
           /\ sess[s].grant \in Attempts \cup {None} /\ sess[s].todo \in SUBSET Attempts
           /\ sess[s].answer \in Answers /\ sess[s].token \in Gens
           /\ sess[s].rank \in Nat
           /\ change[s] \in [Attempts -> Change] /\ seen[s] \in [Attempts -> Loaded]
           /\ copied[s] \in (Attempts \X Gens) \cup {None}
           /\ DOMAIN sess = Sessions /\ DOMAIN change = Sessions
           /\ DOMAIN seen = Sessions /\ DOMAIN copied = Sessions
BY DEF OInv, TypeOK, Session

LEMMA RowType ==
    ASSUME OInv, NEW a \in Attempts
    PROVE  /\ row[a] \in Row /\ row[a].refresh \in Nat /\ row[a].refresh \in Gens
           /\ row[a].status \in Statuses /\ row[a].due \in {"fresh", "soon", "past"}
           /\ row[a].rank \in Nat
           /\ current[a] \in Gens /\ current[a] \in Nat
           /\ \A s \in Sessions : seen[s][a].refresh \in Nat
BY DEF OInv, TypeOK, Row, Gens, Loaded

-----------------------------------------------------------------------------
(* Authorization states, and time *)

LEMMA AuthorizeKeeps ==
    ASSUME OInv, NEW a \in Attempts, Authorize(a) \/ StateExpires(a)
    PROVE  OInv'
<1>1. UNCHANGED <<row, vault, lock, change, copied, sess, seen, current, clock, requests,
                  ages, faults, lost, consumed>>
      BY DEF Authorize, StateExpires, db, bounds, history
<1>2. state' \subseteq Attempts
      BY DEF Authorize, StateExpires, OInv, TypeOK
<1>3. TypeOK' BY <1>1, <1>2 DEF OInv, TypeOK
<1>4. RowsStay /\ \A t \in Sessions : Kept(t) BY <1>1 DEF RowsStay, Kept, Exists
<1>5. \A t \in Sessions : Progress(t)' /\ Copies(t)' /\ Updates(t)'
      BY <1>4, KeptSession
<1>6. \A b \in Attempts : Token(b)' BY <1>1, UnchangedTokens
<1>7. Inserts' BY <1>1 DEF OInv, Inserts, Inserting, Exists
<1>8. VaultMatchesRow' BY <1>1, <1>2 DEF OInv, VaultMatchesRow
<1> QED BY <1>3, <1>5, <1>6, <1>7, <1>8 DEF OInv

LEMMA AgeKeeps ==
    ASSUME OInv, NEW a \in Attempts, Age(a)
    PROVE  OInv'
<1>1. UNCHANGED <<vault, lock, state, sess, seen, change, copied, current, clock,
                  requests, faults, lost, consumed>>
      BY DEF Age, history
<1>2. \E d \in {"soon", "past"} : row' = [row EXCEPT ![a].due = d]
      BY DEF Age
<1>3. /\ row' \in [Attempts -> Row]
      /\ \A b \in Attempts : row'[b].status = row[b].status /\ row'[b].refresh = row[b].refresh
      <2>1. row \in [Attempts -> Row] BY DEF OInv, TypeOK
      <2> QED BY <1>2, <2>1 DEF Row
<1>4. ages' \in [Attempts -> 0 .. AgeBound]
      <2>1. ages \in [Attempts -> 0 .. AgeBound] BY DEF OInv, TypeOK
      <2>2. ASSUME ages[a] < AgeBound, ages' = [ages EXCEPT ![a] = @ + 1]
            PROVE  ages' \in [Attempts -> 0 .. AgeBound]
            <3>1. ages[a] + 1 \in 0 .. AgeBound BY <2>1, <2>2, TokensAssumption
            <3> QED BY <2>1, <2>2, <3>1
      <2> QED BY <2>1, <2>2 DEF Age
<1>5. TypeOK' BY <1>1, <1>3, <1>4 DEF OInv, TypeOK
<1>6. RowsStay /\ \A t \in Sessions : Kept(t) BY <1>1, <1>3 DEF RowsStay, Kept, Exists
<1>7. \A t \in Sessions : Progress(t)' /\ Copies(t)' /\ Updates(t)'
      BY <1>6, KeptSession
<1>8. \A b \in Attempts : Token(b)'
      <2>1. \A s \in Sessions, b \in Attempts : Holds(s, b)' <=> Holds(s, b)
            BY <1>1 DEF Holds
      <2>2. \A b \in Attempts : Token(b) BY DEF OInv
      <2> QED BY <1>1, <1>3, <2>1, <2>2, KeptTokens DEF Token
<1>9. Inserts' BY <1>1, <1>3 DEF OInv, Inserts, Inserting, Exists
<1>10. VaultMatchesRow'
      <2>1. vault # None => vault[1] \in Attempts BY DEF OInv, TypeOK
      <2> QED BY <1>1, <1>3, <2>1 DEF OInv, VaultMatchesRow
<1> QED BY <1>5, <1>7, <1>8, <1>9, <1>10 DEF OInv

-----------------------------------------------------------------------------
(* Steps of one session that commit nothing *)

\* A callback that inserts a row goes on, or another operation does.
LEMMA KeptInserts ==
    ASSUME OInv, NEW s \in Sessions, \A t \in Sessions \ {s} : Kept(t), row' = row,
           \A a \in Attempts : current[a] # 0 => current'[a] # 0,
           sess'[s].op = "callback" =>
                /\ sess'[s].at \in {"consume", "exchange", "row", "vault", "commit"}
                /\ sess'[s].todo = {}
                /\ \A a \in Attempts : change'[s][a] # NoChange =>
                      a = sess'[s].grant /\ sess'[s].at \in {"vault", "commit"},
           sess'[s].at \in {"consume", "exchange"} => sess'[s].op = "callback",
           Inserting(s)' => Inserting(s) /\ sess'[s].grant = sess[s].grant
    PROVE  Inserts'
<1>1. \A a \in Attempts : Exists(a)' <=> Exists(a) BY DEF Exists
<1>2. \A t \in Sessions : Inserting(t)' => Inserting(t) /\ sess'[t].grant = sess[t].grant
      BY DEF Kept, Inserting
<1>3. ASSUME NEW t \in Sessions, Inserting(t)'
      PROVE  /\ sess'[t].grant \in Attempts
             /\ current'[sess'[t].grant] # 0
             /\ ~Exists(sess[t].grant)'
      <2>1. Inserting(t) /\ sess'[t].grant = sess[t].grant BY <1>2, <1>3
      <2>2. sess[t].grant \in Attempts /\ current[sess[t].grant] # 0 /\ ~Exists(sess[t].grant)
            BY <2>1 DEF OInv, Inserts
      <2> QED BY <2>1, <2>2 DEF Exists
<1>4. ASSUME NEW t \in Sessions
      PROVE  /\ sess'[t].op = "callback" =>
                /\ sess'[t].at \in {"consume", "exchange", "row", "vault", "commit"}
                /\ sess'[t].todo = {}
                /\ \A a \in Attempts : change'[t][a] # NoChange =>
                      a = sess'[t].grant /\ sess'[t].at \in {"vault", "commit"}
             /\ sess'[t].at \in {"consume", "exchange"} => sess'[t].op = "callback"
      <2>1. CASE t = s BY <2>1
      <2>2. CASE t # s BY <2>2 DEF OInv, Inserts, Kept
      <2> QED BY <2>1, <2>2
<1>5. \A t, u \in Sessions :
          Inserting(t)' /\ Inserting(u)' /\ sess'[t].grant = sess'[u].grant => t = u
      BY <1>2 DEF OInv, Inserts
<1>6. \A a \in Attempts : Exists(a)' => current'[a] # 0 BY <1>1 DEF OInv, Inserts
<1> QED BY <1>3, <1>4, <1>5, <1>6 DEF Inserts

LEMMA OneSession ==
    ASSUME OInv, NEW s \in Sessions, \A t \in Sessions \ {s} : Kept(t),
           row' = row, vault' = vault, TypeOK', Progress(s)', Copies(s)', Updates(s)',
           \A a \in Attempts : Token(a)', Inserts'
    PROVE  OInv'
<1>1. RowsStay BY DEF RowsStay, Exists
<1>2. \A t \in Sessions : Progress(t)' /\ Copies(t)' /\ Updates(t)'
      BY <1>1, KeptSession
<1>3. VaultMatchesRow' BY DEF OInv, VaultMatchesRow
<1> QED BY <1>2, <1>3 DEF OInv

\* The session s, which was idle, loads rows.
LEMMA LoadEffect ==
    ASSUME OInv, NEW s \in Sessions, sess[s].at = "idle", NEW op \in Ops,
           NEW place \in Places, NEW rows \in SUBSET Attempts,
           rows # {}, Load(s, op, place, rows)
    PROVE  /\ sess' \in [Sessions -> Session]
           /\ seen' \in [Sessions -> [Attempts -> Loaded]]
           /\ \A t \in Sessions \ {s} : sess'[t] = sess[t] /\ seen'[t] = seen[t]
           /\ sess'[s].op = op /\ sess'[s].at = place
           /\ sess'[s].answer = "none" /\ sess'[s].token = 0
           /\ sess'[s].todo = IF op = "refresher" THEN rows ELSE {}
           /\ op = "refresher" => sess'[s].grant = None
           /\ op # "refresher" => sess'[s].grant \in rows
           /\ \A a \in rows : seen'[s][a].status = row[a].status
           /\ \A a \in Attempts : seen'[s][a].refresh <= row[a].refresh
<1> DEFINE g == IF op = "refresher" THEN None ELSE CHOOSE a \in rows : TRUE
           d == IF op = "refresher" THEN rows ELSE {}
           v == [a \in Attempts |->
                    IF a \in rows THEN [status |-> row[a].status, refresh |-> row[a].refresh]
                    ELSE Unloaded[a]]
<1>1. /\ sess' = [sess EXCEPT ![s].op = op, ![s].at = place, ![s].todo = d, ![s].grant = g]
      /\ seen' = [seen EXCEPT ![s] = v]
      BY DEF Load
<1>2. g \in Attempts \cup {None} /\ d \in SUBSET Attempts /\ (op # "refresher" => g \in rows)
      OBVIOUS
<1>3. /\ v \in [Attempts -> Loaded]
      /\ \A a \in rows : v[a].status = row[a].status
      /\ \A a \in Attempts : v[a].refresh <= row[a].refresh
      <2>1. \A a \in Attempts : Unloaded[a].refresh = 0 /\ Unloaded[a].status = "absent"
                                /\ Unloaded[a] \in Loaded
            BY TokensAssumption DEF Unloaded, Loaded, Statuses, Gens
      <2>2. \A a \in Attempts : row[a].refresh \in Nat /\ row[a].refresh \in Gens
                                /\ row[a].status \in Statuses
            BY RowType
      <2>3. \A a \in Attempts :
               [status |-> row[a].status, refresh |-> row[a].refresh] \in Loaded
            BY <2>2 DEF Loaded
      <2>4. ASSUME NEW a \in Attempts PROVE v[a] \in Loaded /\ v[a].refresh <= row[a].refresh
            BY <2>1, <2>2, <2>3
      <2> QED BY <2>4
<1>4. sess[s] = Idle BY DEF OInv, Progress
<1>5. sess[s].answer = "none" /\ sess[s].token = 0 BY <1>4 DEF Idle
<1> HIDE DEF g, d, v
<1>6. sess \in [Sessions -> Session] /\ seen \in [Sessions -> [Attempts -> Loaded]]
      BY DEF OInv, TypeOK
<1>7. /\ sess' \in [Sessions -> Session]
      /\ \A t \in Sessions \ {s} : sess'[t] = sess[t]
      /\ sess'[s].op = op /\ sess'[s].at = place
      /\ sess'[s].answer = sess[s].answer /\ sess'[s].token = sess[s].token
      /\ sess'[s].todo = d /\ sess'[s].grant = g
      <2> DEFINE q == [sess[s] EXCEPT !.op = op, !.at = place, !.todo = d, !.grant = g]
      <2>1. sess[s] \in Session BY <1>6
      <2>2. /\ q \in Session /\ q.op = op /\ q.at = place /\ q.answer = sess[s].answer
            /\ q.token = sess[s].token /\ q.todo = d /\ q.grant = g
            BY <1>2, <2>1 DEF Session
      <2>3. sess' = [sess EXCEPT ![s] = q] BY <1>1
      <2> HIDE DEF q
      <2> QED BY <1>6, <2>2, <2>3
<1>8. /\ seen' \in [Sessions -> [Attempts -> Loaded]]
      /\ \A t \in Sessions \ {s} : seen'[t] = seen[t]
      /\ seen'[s] = v
      BY <1>1, <1>3, <1>6
<1> QED BY <1>2, <1>3, <1>5, <1>7, <1>8 DEF d, g

\* Loading keeps the invariant: the refresher takes active rows, the actions too;
\* the other operations take a row that exists.
LEMMA LoadKeeps ==
    ASSUME OInv, NEW s \in Sessions, sess[s].at = "idle",
           NEW op \in {"refresher", "manual", "workflow", "flow", "revoke"},
           NEW place \in {"next", "post", "row", "commit"}, NEW rows \in SUBSET Attempts,
           rows # {}, Load(s, op, place, rows),
           op = "refresher" <=> place = "next",
           op # "refresher" => s \in Requests,
           \A a \in rows : Exists(a),
           op \in {"refresher", "workflow", "flow"} => \A a \in rows : row[a].status = "active",
           requests' \in 0 .. RequestBound,
           UNCHANGED <<row, vault, lock, change, copied, state, current, clock, ages, faults,
                       lost, consumed>>
    PROVE  OInv'
<1>1. op \in Ops /\ place \in Places BY DEF Ops, Places
<1>2. /\ sess' \in [Sessions -> Session]
      /\ seen' \in [Sessions -> [Attempts -> Loaded]]
      /\ \A t \in Sessions \ {s} : sess'[t] = sess[t] /\ seen'[t] = seen[t]
      /\ sess'[s].op = op /\ sess'[s].at = place
      /\ sess'[s].answer = "none" /\ sess'[s].token = 0
      /\ sess'[s].todo = (IF op = "refresher" THEN rows ELSE {})
      /\ op = "refresher" => sess'[s].grant = None
      /\ op # "refresher" => sess'[s].grant \in rows
      /\ \A a \in rows : seen'[s][a].status = row[a].status
      /\ \A a \in Attempts : seen'[s][a].refresh <= row[a].refresh
      BY <1>1, LoadEffect
<1>3. /\ change[s] = Unchanged /\ copied[s] = None /\ sess[s] = Idle
      /\ sess[s].answer = "none" /\ sess[s].op = "none"
      <2>1. Progress(s) BY DEF OInv
      <2>2. change[s] = Unchanged /\ copied[s] = None /\ sess[s] = Idle BY <2>1 DEF Progress
      <2> QED BY <2>2 DEF Idle
<1>4. \A a \in Attempts : /\ change[s][a] = NoChange /\ change[s][a].refresh = 0
                          /\ change[s][a].status = Same
      BY <1>3 DEF Unchanged, NoChange
<1>5. \A t \in Sessions \ {s} : Kept(t) BY <1>2 DEF Kept
<1>6. TypeOK' BY <1>2 DEF OInv, TypeOK
<1>7. Progress(s)'
      BY <1>2, <1>3, <1>4 DEF Progress
<1>8. Copies(s)' BY <1>2, <1>3, <1>4 DEF Copies
<1>9. Updates(s)'
      <2>1. None \notin Attempts BY TokensAssumption
      <2>2. \A a \in Attempts : Exists(a)' <=> Exists(a) BY DEF Exists
      <2> QED BY <1>2, <1>4, <2>1, <2>2 DEF Updates, Same
<1>10. \A a \in Attempts : Token(a)'
      <2>1. \A t \in Sessions, a \in Attempts : Holds(t, a)' <=> Holds(t, a)
            BY <1>2, <1>3, <1>4 DEF Holds
      <2>2. \A a \in Attempts : Token(a) BY DEF OInv
      <2>3. \A t \in Sessions, a \in Attempts : seen'[t][a].refresh <= row[a].refresh
            BY <1>2, <2>2 DEF Token
      <2>4. \A t \in Sessions, a \in Attempts :
              sess'[t].grant = a /\ sess'[t].answer = "rotated" => sess'[t].token = current[a]
            BY <1>2, <2>2 DEF Token
      <2>5. \A t \in Sessions, a \in Attempts :
              change'[t][a].refresh # 0 => change'[t][a].refresh = current[a]
            BY <2>2 DEF Token
      <2> QED BY <2>1, <2>3, <2>4, <2>5, KeptTokens
<1>11. Inserts'
      <2>1. sess'[s].op # "callback" /\ ~(sess'[s].at \in {"consume", "exchange"})
            BY <1>2
      <2>2. ~Inserting(s)' BY <2>1 DEF Inserting
      <2> QED BY <1>5, <2>1, <2>2, KeptInserts
<1> QED BY <1>5, <1>6, <1>7, <1>8, <1>9, <1>10, <1>11, OneSession

LEMMA RequestCounted ==
    ASSUME OInv, NEW r, NewRequest(r)
    PROVE  r \in Requests /\ r \in Sessions /\ sess[r].at = "idle"
           /\ requests' \in 0 .. RequestBound
BY TokensAssumption DEF NewRequest, OInv, TypeOK, Sessions

LEMMA RefresherBeginsKeeps ==
    ASSUME OInv, NEW f \in Refreshers, RefresherBegins(f)
    PROVE  OInv'
<1>1. f \in Sessions /\ sess[f].at = "idle" /\ Due \in SUBSET Attempts /\ Due # {}
      BY DEF RefresherBegins, Sessions, Due
<1>2. \A a \in Due : Exists(a) /\ row[a].status = "active" BY DEF Due, Exists
<1>3. /\ Load(f, "refresher", "next", Due) /\ requests' = requests
      /\ UNCHANGED <<row, vault, lock, change, copied, state, current, clock, ages, faults,
                     lost, consumed>>
      BY DEF RefresherBegins, db, bounds, history
<1>4. requests' \in 0 .. RequestBound BY <1>3 DEF OInv, TypeOK
<1> QED BY <1>1, <1>2, <1>3, <1>4, LoadKeeps

LEMMA RequestsKeep ==
    ASSUME OInv, NEW r \in Requests, NEW a \in Attempts,
           \/ ManualRefresh(r, a)
           \/ \E op \in {"workflow", "flow"} : ActionNeedsToken(r, a, op)
           \/ Revoke(r, a)
    PROVE  OInv'
<1>1. NewRequest(r) /\ Newest(a) BY DEF ManualRefresh, ActionNeedsToken, Revoke
<1>2. r \in Sessions /\ sess[r].at = "idle" /\ requests' \in 0 .. RequestBound /\ Exists(a)
      BY <1>1, RequestCounted DEF Newest
<1>3. UNCHANGED <<row, vault, lock, change, copied, state, current, clock, ages, faults,
                  lost, consumed>>
      BY DEF ManualRefresh, ActionNeedsToken, Revoke, db, history
<1>4. CASE ManualRefresh(r, a)
      <2>1. Load(r, "manual", "post", {a}) BY <1>4 DEF ManualRefresh
      <2> QED BY <1>2, <1>3, <2>1, LoadKeeps
<1>5. ASSUME NEW op \in {"workflow", "flow"}, ActionNeedsToken(r, a, op) PROVE OInv'
      <2>1. /\ Load(r, op, IF row[a].refresh # 0 THEN "post" ELSE "row", {a})
            /\ row[a].status = "active"
            BY <1>5 DEF ActionNeedsToken
      <2>2. PICK place \in {"post", "row"} : Load(r, op, place, {a})
            BY <2>1
      <2> QED BY <1>2, <1>3, <2>1, <2>2, LoadKeeps
<1>6. CASE Revoke(r, a)
      <2>1. PICK place \in {"commit", "row"} : Load(r, "revoke", place, {a})
            BY <1>6 DEF Revoke
      <2> QED BY <1>2, <1>3, <2>1, LoadKeeps
<1> QED BY <1>4, <1>5, <1>6

\* Callback: a request asks for the state of a.
LEMMA CallbackKeeps ==
    ASSUME OInv, NEW r \in Requests, NEW a \in Attempts, Callback(r, a)
    PROVE  OInv'
<1>1. r \in Sessions /\ sess[r].at = "idle" /\ requests' \in 0 .. RequestBound
      BY RequestCounted DEF Callback
<1>2. UNCHANGED <<row, vault, lock, change, copied, state, seen, current, clock, ages, faults,
                  lost, consumed>>
      BY DEF Callback, db, history
<1>3. CASE a \notin state
      <2>1. sess' = sess BY <1>3 DEF Callback
      <2>2. TypeOK' BY <1>1, <1>2, <2>1 DEF OInv, TypeOK
      <2>3. \A t \in Sessions : Kept(t) BY <1>2, <2>1 DEF Kept
      <2>4. RowsStay BY <1>2 DEF RowsStay, Exists
      <2>5. \A t \in Sessions : Progress(t)' /\ Copies(t)' /\ Updates(t)'
            BY <2>3, <2>4, KeptSession
      <2>6. \A b \in Attempts : Token(b)' BY <1>2, <2>1, UnchangedTokens
      <2>7. Inserts' BY <1>2, <2>1 DEF OInv, Inserts, Inserting, Exists
      <2>8. VaultMatchesRow' BY <1>2, <2>1 DEF OInv, VaultMatchesRow
      <2> QED BY <2>2, <2>5, <2>6, <2>7, <2>8 DEF OInv
<1>4. CASE a \in state
      <2> DEFINE q == [sess[r] EXCEPT !.op = "callback", !.at = "consume", !.grant = a]
      <2>1. sess' = [sess EXCEPT ![r] = q]
            BY <1>4 DEF Callback
      <2>3. /\ sess[r] = Idle /\ change[r] = Unchanged /\ copied[r] = None
            /\ sess[r] \in Session
            BY <1>1, SessionType DEF OInv, Progress
      <2>4. /\ q \in Session /\ q.op = "callback" /\ q.at = "consume" /\ q.grant = a
            /\ q.answer = "none" /\ q.token = 0 /\ q.todo = {}
            <3>1. /\ sess[r].answer = "none" /\ sess[r].token = 0 /\ sess[r].todo = {}
                  BY <2>3 DEF Idle
            <3> QED BY <2>3, <3>1 DEF Session, Ops, Places
      <2> HIDE DEF q
      <2>5. /\ sess' \in [Sessions -> Session] /\ sess'[r] = q
            /\ \A t \in Sessions \ {r} : sess'[t] = sess[t]
            BY <1>1, <2>1, <2>4 DEF OInv, TypeOK
      <2>6. \A b \in Attempts : /\ change[r][b] = NoChange /\ change[r][b].refresh = 0
                                /\ change[r][b].status = Same
            BY <2>3 DEF Unchanged, NoChange
      <2>7. \A t \in Sessions \ {r} : Kept(t) BY <1>2, <2>5 DEF Kept
      <2>8. TypeOK' BY <1>1, <1>2, <2>5 DEF OInv, TypeOK
      <2>9. Progress(r)' BY <1>2, <2>3, <2>4, <2>5, <2>6 DEF Progress
      <2>10. Copies(r)' BY <1>2, <2>3, <2>6 DEF Copies
      <2>11. Updates(r)' BY <1>2, <2>4, <2>5, <2>6 DEF Updates, Same
      <2>12. \A b \in Attempts : Token(b)'
            <3>1. sess[r].answer = "none" BY <2>3 DEF Idle
            <3>2. \A t \in Sessions, b \in Attempts : Holds(t, b)' <=> Holds(t, b)
                  BY <1>2, <2>4, <2>5, <3>1 DEF Holds
            <3>3. \A b \in Attempts : Token(b) BY DEF OInv
            <3>4. \A t \in Sessions, b \in Attempts :
                    sess'[t].grant = b /\ sess'[t].answer = "rotated" =>
                        sess'[t].token = current[b]
                  BY <2>4, <2>5, <3>3 DEF Token
            <3> QED BY <1>2, <3>2, <3>3, <3>4, KeptTokens DEF Token
      <2>13. Inserts'
            <3>1. ~Inserting(r)' BY <2>4, <2>5 DEF Inserting
            <3> QED BY <1>1, <1>2, <2>4, <2>5, <2>6, <2>7, <3>1, KeptInserts
      <2> QED BY <1>1, <1>2, <2>7, <2>8, <2>9, <2>10, <2>11, <2>12, <2>13, OneSession
<1> QED BY <1>3, <1>4

\* The session s moves to another place.
LEMMA GotoEffect ==
    ASSUME OInv, NEW s \in Sessions, NEW place \in Places, Goto(s, place)
    PROVE  /\ sess' \in [Sessions -> Session]
           /\ \A t \in Sessions \ {s} : sess'[t] = sess[t]
           /\ sess'[s].at = place /\ sess'[s].op = sess[s].op /\ sess'[s].grant = sess[s].grant
           /\ sess'[s].todo = sess[s].todo /\ sess'[s].answer = sess[s].answer
           /\ sess'[s].token = sess[s].token
<1> DEFINE q == [sess[s] EXCEPT !.at = place]
<1>1. sess' = [sess EXCEPT ![s] = q] BY DEF Goto
<1>2. /\ q \in Session /\ q.at = place /\ q.op = sess[s].op /\ q.grant = sess[s].grant
      /\ q.todo = sess[s].todo /\ q.answer = sess[s].answer /\ q.token = sess[s].token
      BY SessionType DEF Session
<1> HIDE DEF q
<1> QED BY <1>1, <1>2 DEF OInv, TypeOK

LEMMA ConsumeStateKeeps ==
    ASSUME OInv, NEW r \in Sessions, ConsumeState(r)
    PROVE  OInv'
<1> DEFINE a == sess[r].grant
           q == [sess[r] EXCEPT !.at = "exchange", !.rank = clock']
<1>1. /\ sess[r].at = "consume"
      /\ UNCHANGED <<row, vault, lock, change, copied, seen, current, requests, ages, faults,
                     lost>>
      BY DEF ConsumeState, db, bounds
<1>2. /\ state' = state \ {a} /\ consumed' = consumed \cup {a} /\ clock' = clock + 1
      /\ sess' = [sess EXCEPT ![r] = q]
      BY DEF ConsumeState
<1>3. /\ a \in Attempts /\ change[r] = Unchanged /\ sess[r].answer = "none"
      /\ \A b \in Attempts : change[r][b] = NoChange
      BY <1>1 DEF OInv, Progress, Unchanged
<1>4. clock' \in Nat BY <1>2 DEF OInv, TypeOK
<1>5. /\ q \in Session /\ q.at = "exchange" /\ q.op = sess[r].op /\ q.grant = a
      /\ q.todo = sess[r].todo /\ q.answer = sess[r].answer /\ q.token = sess[r].token
      BY <1>4, SessionType DEF Session, Places
<1> HIDE DEF q
<1>6. /\ sess' \in [Sessions -> Session] /\ sess'[r] = q
      /\ \A t \in Sessions \ {r} : sess'[t] = sess[t]
      BY <1>2, <1>5 DEF OInv, TypeOK
<1>7. \A t \in Sessions \ {r} : Kept(t) BY <1>1, <1>6 DEF Kept
<1>8. TypeOK' BY <1>1, <1>2, <1>3, <1>4, <1>6 DEF OInv, TypeOK
<1>9. Progress(r) /\ Copies(r) /\ Updates(r) BY DEF OInv
<1>10. Progress(r)' BY <1>1, <1>3, <1>5, <1>6, <1>9 DEF Progress
<1>11. Copies(r)' BY <1>1, <1>5, <1>6, <1>9 DEF Copies
<1>12. Updates(r)' BY <1>1, <1>5, <1>6, <1>9 DEF Updates, Exists
<1>13. \A b \in Attempts : Token(b)'
      <2>1. \A t \in Sessions, b \in Attempts : Holds(t, b)' <=> Holds(t, b)
            BY <1>1, <1>5, <1>6 DEF Holds
      <2>2. \A b \in Attempts : Token(b) BY DEF OInv
      <2>3. \A t \in Sessions, b \in Attempts :
              sess'[t].grant = b /\ sess'[t].answer = "rotated" => sess'[t].token = current[b]
            BY <1>5, <1>6, <2>2 DEF Token
      <2> QED BY <1>1, <2>1, <2>2, <2>3, KeptTokens DEF Token
<1>14. Inserts'
      <2>1. sess[r].op = "callback" /\ sess[r].todo = {} BY <1>1 DEF OInv, Inserts
      <2>2. ~Inserting(r)' BY <1>5, <1>6 DEF Inserting
      <2> QED BY <1>1, <1>3, <1>5, <1>6, <1>7, <2>1, <2>2, KeptInserts
<1> QED BY <1>1, <1>7, <1>8, <1>10, <1>11, <1>12, <1>13, <1>14, OneSession

\* The session s has flushed the row of its grant, or stored the copy.
LEMMA FlushRowKeeps ==
    ASSUME OInv, NEW s \in Sessions, FlushRow(s)
    PROVE  OInv'
<1> DEFINE a == sess[s].grant
           accepted == sess[s].answer \in {"kept", "rotated"}
           place == IF accepted THEN "vault" ELSE AfterRow(s)
           c == Columns(s)
<1>1. /\ sess[s].at = "row" /\ sess[s].op # "callback"
      /\ lock' = [lock EXCEPT ![a] = s]
      /\ change' = [change EXCEPT ![s][a] = c]
      /\ Goto(s, place)
      /\ UNCHANGED <<row, vault, state, seen, copied, current, clock, requests, ages, faults,
                     lost, consumed>>
      BY DEF FlushRow, bounds, history
<1>2. Progress(s) /\ Copies(s) /\ Updates(s) BY DEF OInv
<1>3. /\ a \in Attempts /\ a \notin sess[s].todo /\ change[s][a] = NoChange
      /\ \A b \in sess[s].todo : change[s][b] = NoChange
      /\ sess[s].token # 0 <=> sess[s].answer = "rotated"
      BY <1>1, <1>2 DEF Progress
<1>4. NoChange.refresh = 0 /\ NoChange.status = Same BY DEF NoChange
<1>5. /\ place \in {"vault", "next", "dispatch", "commit"} /\ place \in Places
      /\ sess[s].answer = "rotated" => place = "vault"
      /\ place = "next" => sess[s].op = "refresher"
      /\ place = "vault" <=> accepted
      /\ place = "dispatch" => sess[s].op \in {"workflow", "flow"}
      BY DEF Places, AfterRow, ForAction
<1>6. /\ c \in Change /\ c.refresh = sess[s].token
      /\ c.status # "absent"
      /\ c.status = "active" => sess[s].op = "manual"
      <2>1. Assigned(s) \in Statuses \ {"absent"} BY DEF Assigned, Statuses, ForAction
      <2>2. /\ Assigned(s) = "active" => sess[s].op # "revoke"
            /\ Assigned(s) = "active" /\ seen[s][a].status # "active" => sess[s].op = "manual"
            <3>1. sess[s].op # "none" BY <1>1, <1>2 DEF Updates
            <3>2. sess[s].op \in {"refresher", "workflow", "flow"} =>
                     seen[s][a].status = "active"
                  BY <1>2, <1>3 DEF Updates
            <3>3. Assigned(s) = "active" => sess[s].op # "revoke" BY DEF Assigned
            <3> QED BY <1>1, <3>1, <3>2, <3>3, SessionType DEF Ops
      <2> DEFINE st == IF Assigned(s) = seen[s][a].status THEN Same ELSE Assigned(s)
                 rn == sess[s].answer \in {"kept", "rotated"}
      <2>3. /\ st \in Statuses \cup {Same} /\ st # "absent"
            /\ st = "active" => sess[s].op = "manual"
            BY <2>1, <2>2 DEF Same
      <2>4. rn \in BOOLEAN OBVIOUS
      <2>5. c = [status |-> st, refresh |-> sess[s].token, renewed |-> rn, rank |-> 0]
            BY DEF Columns
      <2>6. sess[s].token \in Gens BY SessionType
      <2> HIDE DEF st, rn, c
      <2> QED BY <2>3, <2>4, <2>5, <2>6 DEF Change
<1> HIDE DEF place, c
<1>7. /\ sess' \in [Sessions -> Session]
      /\ \A t \in Sessions \ {s} : sess'[t] = sess[t]
      /\ sess'[s].at = place /\ sess'[s].op = sess[s].op /\ sess'[s].grant = sess[s].grant
      /\ sess'[s].todo = sess[s].todo /\ sess'[s].answer = sess[s].answer
      /\ sess'[s].token = sess[s].token
      BY <1>1, <1>5, GotoEffect
<1>8. /\ change' \in [Sessions -> [Attempts -> Change]]
      /\ \A t \in Sessions \ {s} : change'[t] = change[t]
      /\ change'[s][a] = c
      /\ \A b \in Attempts \ {a} : change'[s][b] = change[s][b]
      <2>1. change \in [Sessions -> [Attempts -> Change]] BY DEF OInv, TypeOK
      <2> QED BY <1>1, <1>3, <1>6, <2>1
<1>9. lock' \in [Attempts \cup {Vault} -> Sessions \cup {None}]
      BY <1>1 DEF OInv, TypeOK
<1>10. TypeOK' BY <1>1, <1>7, <1>8, <1>9 DEF OInv, TypeOK
<1>11. \A t \in Sessions \ {s} : Kept(t) BY <1>1, <1>7, <1>8 DEF Kept
<1>12. Progress(s)'
      <2>1. sess[s].todo \subseteq Attempts BY SessionType
      <2>2. \A b \in sess[s].todo : change'[s][b] = NoChange BY <1>3, <1>8, <2>1
      <2>3. sess[s].op # "refresher" =>
               \A b \in Attempts : change'[s][b].refresh # 0 => sess[s].answer = "rotated"
            BY <1>2, <1>3, <1>6, <1>8 DEF Progress
      <2> QED BY <1>3, <1>5, <1>6, <1>7, <1>8, <2>2, <2>3 DEF Progress
<1>13. Copies(s)'
      <2>1. copied[s] # None => copied[s][1] \in Attempts /\ copied[s][1] # a
            BY <1>2, <1>3, <1>4, SessionType DEF Copies
      <2>2. copied[s] # None => change'[s][copied[s][1]].refresh = copied[s][2]
                                /\ copied[s][2] # 0 /\ copied[s] \in Attempts \X Gens
            BY <1>2, <1>8, <2>1 DEF Copies
      <2>3. ASSUME NEW b \in Attempts, change'[s][b].refresh # 0
            PROVE  copied[s] # None \/ (sess'[s].at = "vault" /\ sess'[s].grant = b)
            <3>1. CASE b = a BY <1>3, <1>5, <1>6, <1>7, <1>8, <2>3, <3>1
            <3>2. CASE b # a BY <1>1, <1>2, <1>8, <2>3, <3>2 DEF Copies
            <3> QED BY <3>1, <3>2
      <2> QED BY <1>1, <2>2, <2>3 DEF Copies
<1>14. Updates(s)'
      <2>1. \A b \in Attempts : Exists(b)' <=> Exists(b) BY <1>1 DEF Exists
      <2>2. Exists(a) BY <1>1, <1>2, <1>3 DEF Updates
      <2>3. sess[s].todo \subseteq Attempts BY SessionType
      <2>4. /\ \A b \in Attempts : change'[s][b] # NoChange => Exists(b)
            /\ \A b \in Attempts :
                  /\ change'[s][b].status # "absent"
                  /\ change'[s][b].status = "active" =>
                        sess[s].op \in {"manual", "callback"} /\ sess[s].grant = b
            BY <1>1, <1>2, <1>6, <1>8, <2>2 DEF Updates
      <2>5. /\ sess'[s].at = "next" => sess'[s].op = "refresher"
            /\ sess'[s].at = "dispatch" => sess'[s].op \in {"workflow", "flow"}
            BY <1>5, <1>7
      <2>6. sess'[s].op # "none" BY <1>1, <1>2, <1>7 DEF Updates
      <2>7. /\ sess[s].grant \in Attempts => Exists(sess[s].grant)
            /\ \A b \in sess[s].todo : Exists(b) /\ seen[s][b].status = "active"
            /\ sess[s].op \in {"refresher", "workflow", "flow"} /\ sess[s].grant \in Attempts =>
                  seen[s][sess[s].grant].status = "active"
            /\ sess[s].op = "manual" => s \in Requests
            BY <1>1, <1>2 DEF Updates
      <2> QED BY <1>1, <1>7, <2>1, <2>3, <2>4, <2>5, <2>6, <2>7 DEF Updates
<1>15. \A b \in Attempts : Token(b)'
      <2>1. \A b \in Attempts : Token(b) BY DEF OInv
      <2>2. ASSUME NEW t \in Sessions, NEW b \in Attempts
            PROVE  /\ Holds(t, b)' <=> Holds(t, b)
                   /\ change'[t][b].refresh # 0 => change'[t][b].refresh = current[b]
            <3>1. CASE t = s /\ b = a
                  BY <1>3, <1>4, <1>6, <1>7, <1>8, <2>1, <3>1 DEF Holds, Token
            <3>2. CASE t = s /\ b # a
                  BY <1>7, <1>8, <2>1, <3>2 DEF Holds, Token
            <3>3. CASE t # s
                  BY <1>7, <1>8, <2>1, <3>3 DEF Holds, Token
            <3> QED BY <3>1, <3>2, <3>3
      <2>3. \A t \in Sessions, b \in Attempts :
              sess'[t].grant = b /\ sess'[t].answer = "rotated" => sess'[t].token = current[b]
            BY <1>7, <2>1 DEF Token
      <2> QED BY <1>1, <2>1, <2>2, <2>3, KeptTokens DEF Token
<1>16. Inserts'
      <2>1. ~Inserting(s)' BY <1>1, <1>7 DEF Inserting
      <2> QED BY <1>1, <1>5, <1>7, <1>11, <2>1, KeptInserts
<1> QED BY <1>1, <1>10, <1>11, <1>12, <1>13, <1>14, <1>15, <1>16, OneSession

LEMMA InsertRowKeeps ==
    ASSUME OInv, NEW s \in Sessions, InsertRow(s)
    PROVE  OInv'
<1> DEFINE a == sess[s].grant
           c == [status |-> "active", refresh |-> sess[s].token, renewed |-> TRUE,
                 rank |-> sess[s].rank]
<1>1. /\ sess[s].at = "row" /\ sess[s].op = "callback"
      /\ lock' = [lock EXCEPT ![a] = s]
      /\ change' = [change EXCEPT ![s][a] = c]
      /\ Goto(s, "vault")
      /\ UNCHANGED <<row, vault, state, seen, copied, current, clock, requests, ages, faults,
                     lost, consumed>>
      BY DEF InsertRow, bounds, history
<1>2. Progress(s) /\ Copies(s) /\ Updates(s) BY DEF OInv
<1>3. /\ a \in Attempts /\ sess[s].todo = {}
      /\ \A b \in Attempts : change[s][b] = NoChange
      /\ sess[s].token # 0 <=> sess[s].answer = "rotated"
      BY <1>1, <1>2 DEF Progress, OInv, Inserts
<1>4. NoChange.refresh = 0 /\ NoChange.status = Same BY DEF NoChange
<1>5. c \in Change /\ c.refresh = sess[s].token /\ c.status = "active"
      BY SessionType DEF Change, Statuses
<1> HIDE DEF c
<1>6. /\ sess' \in [Sessions -> Session]
      /\ \A t \in Sessions \ {s} : sess'[t] = sess[t]
      /\ sess'[s].at = "vault" /\ sess'[s].op = sess[s].op /\ sess'[s].grant = sess[s].grant
      /\ sess'[s].todo = sess[s].todo /\ sess'[s].answer = sess[s].answer
      /\ sess'[s].token = sess[s].token
      <2>1. "vault" \in Places BY DEF Places
      <2> QED BY <1>1, <2>1, GotoEffect
<1>7. /\ change' \in [Sessions -> [Attempts -> Change]]
      /\ \A t \in Sessions \ {s} : change'[t] = change[t]
      /\ change'[s][a] = c
      /\ \A b \in Attempts \ {a} : change'[s][b] = NoChange
      <2>1. change \in [Sessions -> [Attempts -> Change]] BY DEF OInv, TypeOK
      <2> QED BY <1>1, <1>3, <1>5, <2>1
<1>8. lock' \in [Attempts \cup {Vault} -> Sessions \cup {None}]
      BY <1>1 DEF OInv, TypeOK
<1>9. TypeOK' BY <1>1, <1>6, <1>7, <1>8 DEF OInv, TypeOK
<1>10. \A t \in Sessions \ {s} : Kept(t) BY <1>1, <1>6, <1>7 DEF Kept
<1>11. Progress(s)' BY <1>3, <1>4, <1>5, <1>6, <1>7 DEF Progress
<1>12. Copies(s)'
      <2>1. copied[s] = None BY <1>2, <1>3, <1>4, SessionType DEF Copies
      <2> QED BY <1>1, <1>4, <1>6, <1>7, <2>1 DEF Copies
<1>13. Updates(s)' BY <1>1, <1>3, <1>4, <1>5, <1>6, <1>7 DEF Updates, Same
<1>14. \A b \in Attempts : Token(b)'
      <2>1. \A b \in Attempts : Token(b) BY DEF OInv
      <2>2. ASSUME NEW t \in Sessions, NEW b \in Attempts
            PROVE  /\ Holds(t, b)' <=> Holds(t, b)
                   /\ change'[t][b].refresh # 0 => change'[t][b].refresh = current[b]
            <3>1. CASE t = s /\ b = a
                  BY <1>3, <1>4, <1>5, <1>6, <1>7, <2>1, <3>1 DEF Holds, Token
            <3>2. CASE t = s /\ b # a
                  BY <1>3, <1>4, <1>6, <1>7, <2>1, <3>2 DEF Holds, Token
            <3>3. CASE t # s
                  BY <1>6, <1>7, <2>1, <3>3 DEF Holds, Token
            <3> QED BY <3>1, <3>2, <3>3
      <2>3. \A t \in Sessions, b \in Attempts :
              sess'[t].grant = b /\ sess'[t].answer = "rotated" => sess'[t].token = current[b]
            BY <1>6, <2>1 DEF Token
      <2> QED BY <1>1, <2>1, <2>2, <2>3, KeptTokens DEF Token
<1>15. Inserts'
      <2>1. Inserting(s) BY <1>1 DEF Inserting
      <2> QED BY <1>1, <1>3, <1>6, <1>7, <1>10, <2>1, KeptInserts
<1> QED BY <1>1, <1>9, <1>10, <1>11, <1>12, <1>13, <1>14, <1>15, OneSession

LEMMA StoreVaultKeeps ==
    ASSUME OInv, NEW s \in Sessions, StoreVault(s)
    PROVE  OInv'
<1> DEFINE a == sess[s].grant
           place == AfterRow(s)
           k == IF sess[s].token # 0 THEN <<a, sess[s].token>> ELSE copied[s]
<1>1. /\ sess[s].at = "vault"
      /\ lock' = [lock EXCEPT ![Vault] = s]
      /\ copied' = [copied EXCEPT ![s] = k]
      /\ Goto(s, place)
      /\ UNCHANGED <<row, vault, state, seen, change, current, clock, requests, ages, faults,
                     lost, consumed>>
      BY DEF StoreVault, bounds, history
<1>2. Progress(s) /\ Copies(s) /\ Updates(s) BY DEF OInv
<1>3. /\ a \in Attempts /\ change[s][a].refresh = sess[s].token
      /\ sess[s].token \in Gens
      BY <1>1, <1>2, SessionType DEF Progress
<1>4. /\ place \in {"next", "dispatch", "commit"} /\ place \in Places
      /\ place = "next" => sess[s].op = "refresher"
      /\ place = "dispatch" => sess[s].op \in {"workflow", "flow"}
      /\ sess[s].op = "callback" => place = "commit"
      BY DEF AfterRow, ForAction, Places
<1>5. /\ k \in (Attempts \X Gens) \cup {None}
      /\ sess[s].token # 0 => k = <<a, sess[s].token>> /\ k \in Attempts \X Gens /\ k # None
      /\ sess[s].token = 0 => k = copied[s]
      <2>1. <<a, sess[s].token>> \in Attempts \X Gens BY <1>3
      <2>2. <<a, sess[s].token>> # None BY <2>1, TokensAssumption
      <2> QED BY <2>1, <2>2, SessionType
<1> HIDE DEF place, k
<1>6. /\ sess' \in [Sessions -> Session]
      /\ \A t \in Sessions \ {s} : sess'[t] = sess[t]
      /\ sess'[s].at = place /\ sess'[s].op = sess[s].op /\ sess'[s].grant = sess[s].grant
      /\ sess'[s].todo = sess[s].todo /\ sess'[s].answer = sess[s].answer
      /\ sess'[s].token = sess[s].token
      BY <1>1, <1>4, GotoEffect
<1>7. /\ copied' \in [Sessions -> (Attempts \X Gens) \cup {None}]
      /\ copied'[s] = k /\ \A t \in Sessions \ {s} : copied'[t] = copied[t]
      BY <1>1, <1>5 DEF OInv, TypeOK
<1>8. lock' \in [Attempts \cup {Vault} -> Sessions \cup {None}]
      BY <1>1 DEF OInv, TypeOK
<1>9. TypeOK' BY <1>1, <1>6, <1>7, <1>8 DEF OInv, TypeOK
<1>10. \A t \in Sessions \ {s} : Kept(t) BY <1>1, <1>6, <1>7 DEF Kept
<1>11. Progress(s)' BY <1>1, <1>2, <1>3, <1>4, <1>6 DEF Progress
<1>12. Copies(s)'
      <2>1. CASE sess[s].token # 0
            <3>1. k[1] = a /\ k[2] = sess[s].token /\ k # None BY <1>5, <2>1
            <3> QED BY <1>1, <1>3, <1>5, <1>7, <2>1, <3>1 DEF Copies
      <2>2. CASE sess[s].token = 0
            <3>1. \A b \in Attempts : change[s][b].refresh # 0 => copied[s] # None
                  BY <1>2, <1>3, <2>2 DEF Copies
            <3> QED BY <1>1, <1>2, <1>5, <1>7, <2>2, <3>1 DEF Copies
      <2> QED BY <2>1, <2>2
<1>13. Updates(s)' BY <1>1, <1>2, <1>4, <1>6 DEF Updates, Exists
<1>14. \A b \in Attempts : Token(b)'
      <2>1. \A b \in Attempts : Token(b) BY DEF OInv
      <2>2. \A t \in Sessions, b \in Attempts : Holds(t, b)' <=> Holds(t, b)
            BY <1>1, <1>6 DEF Holds
      <2>3. \A t \in Sessions, b \in Attempts :
              sess'[t].grant = b /\ sess'[t].answer = "rotated" => sess'[t].token = current[b]
            BY <1>6, <2>1 DEF Token
      <2> QED BY <1>1, <2>1, <2>2, <2>3, KeptTokens DEF Token
<1>15. Inserts'
      <2>1. Inserting(s)' => Inserting(s) BY <1>1, <1>6 DEF Inserting
      <2>2. sess[s].op = "callback" =>
                /\ sess[s].todo = {}
                /\ \A b \in Attempts : change[s][b] # NoChange => b = sess[s].grant
            BY DEF OInv, Inserts
      <2> QED BY <1>1, <1>4, <1>6, <1>10, <2>1, <2>2, KeptInserts
<1> QED BY <1>1, <1>9, <1>10, <1>11, <1>12, <1>13, <1>14, <1>15, OneSession

-----------------------------------------------------------------------------
(* The provider *)

\* The provider's answer to s about a: it has issued the token 'issued', or 0.
\* With an issued token that does not arrive, a is lost.
Answered(s, a, answer, issued) ==
    /\ \/ sess[s].at = "post" /\ a = sess[s].grant
       \/ sess[s].at = "next" /\ a \in sess[s].todo
    /\ issued # 0 =>
          /\ seen[s][a].refresh = current[a] /\ current[a] < GenBound
          /\ issued = current[a] + 1 /\ answer \in {"rotated", "failed"}
          /\ current' = [current EXCEPT ![a] = issued]
          /\ lost' = IF answer = "failed" THEN lost \cup {a} ELSE lost
    /\ issued = 0 => answer # "rotated" /\ UNCHANGED <<current, lost>>
    /\ ProviderAnswers(s, a, answer, IF answer = "rotated" THEN issued ELSE 0)
    /\ faults' \in 0 .. FaultBound
    /\ UNCHANGED <<row, vault, lock, change, copied, state, seen, clock, requests, ages,
                   consumed>>

LEMMA PostAnswered ==
    ASSUME OInv, NEW s \in Sessions, NEW a \in Attempts, Post(s, a)
    PROVE  \E answer \in Answers \ {"none"}, issued \in Gens : Answered(s, a, answer, issued)
<1>1. faults \in 0 .. FaultBound /\ (Fault => faults' \in 0 .. FaultBound)
      BY TokensAssumption DEF OInv, TypeOK, Fault
<1>2. 0 \in Gens /\ current[a] \in Nat
      /\ (current[a] < GenBound => current[a] + 1 \in Gens /\ current[a] + 1 # 0)
      BY TokensAssumption, RowType DEF Gens
<1>3. /\ \/ sess[s].at = "post" /\ a = sess[s].grant
         \/ sess[s].at = "next" /\ a \in sess[s].todo
      /\ UNCHANGED <<row, vault, lock, change, copied, state, seen, clock, requests, ages,
                     consumed>>
      BY DEF Post, db
<1> DEFINE known == seen[s][a].refresh = current[a]
<1>4. CASE known /\ ProviderAnswers(s, a, "kept", 0) /\ UNCHANGED <<current, faults, lost>>
      <2>1. Answered(s, a, "kept", 0) BY <1>1, <1>3, <1>4 DEF Answered
      <2> QED BY <1>2, <2>1 DEF Answers
<1>5. CASE /\ known /\ current[a] < GenBound
           /\ current' = [current EXCEPT ![a] = @ + 1]
           /\ ProviderAnswers(s, a, "rotated", current[a] + 1)
           /\ UNCHANGED <<faults, lost>>
      <2>1. Answered(s, a, "rotated", current[a] + 1) BY <1>1, <1>2, <1>3, <1>5 DEF Answered
      <2> QED BY <1>2, <1>5, <2>1 DEF Answers
<1>6. CASE ProviderAnswers(s, a, "refused", 0) /\ UNCHANGED <<current, lost>>
           /\ faults' \in 0 .. FaultBound
      <2>1. Answered(s, a, "refused", 0) BY <1>1, <1>3, <1>6 DEF Answered
      <2> QED BY <1>2, <2>1 DEF Answers
<1>7. CASE ProviderAnswers(s, a, "failed", 0) /\ UNCHANGED <<current, lost>> /\ Fault
      <2>1. Answered(s, a, "failed", 0) BY <1>1, <1>3, <1>7 DEF Answered
      <2> QED BY <1>2, <2>1 DEF Answers
<1>8. CASE /\ known /\ current[a] < GenBound /\ Fault
           /\ current' = [current EXCEPT ![a] = @ + 1]
           /\ ProviderAnswers(s, a, "failed", 0)
           /\ lost' = lost \cup {a}
      <2>1. Answered(s, a, "failed", current[a] + 1) BY <1>1, <1>2, <1>3, <1>8 DEF Answered
      <2> QED BY <1>2, <1>8, <2>1 DEF Answers
<1> QED BY <1>1, <1>4, <1>5, <1>6, <1>7, <1>8 DEF Post

LEMMA AnsweredKeeps ==
    ASSUME OInv, NEW s \in Sessions, NEW a \in Attempts, NEW answer \in Answers \ {"none"},
           NEW issued \in Gens, Answered(s, a, answer, issued)
    PROVE  OInv'
<1> DEFINE token == IF answer = "rotated" THEN issued ELSE 0
           place == IF answer # "failed" \/ ForAction(s) THEN "row" ELSE AfterRow(s)
           q == [sess[s] EXCEPT !.answer = answer, !.token = token, !.grant = a,
                                !.todo = @ \ {a}, !.at = place]
<1>1. /\ \/ sess[s].at = "post" /\ a = sess[s].grant
         \/ sess[s].at = "next" /\ a \in sess[s].todo
      /\ UNCHANGED <<row, vault, lock, change, copied, state, seen, clock, requests, ages,
                     consumed>>
      /\ faults' \in 0 .. FaultBound
      BY DEF Answered
<1>2. Progress(s) /\ Copies(s) /\ Updates(s) BY DEF OInv
<1>3. /\ change[s][a] = NoChange /\ sess[s].at \in {"post", "next"}
      /\ sess[s].op # "callback" /\ sess[s].op # "none"
      BY <1>1, <1>2 DEF Progress, Updates, OInv, Inserts, Unchanged
<1>4. NoChange.refresh = 0 /\ NoChange.status = Same BY DEF NoChange
<1>5. /\ token \in Gens /\ (token # 0 <=> answer = "rotated")
      /\ answer = "rotated" => issued # 0 /\ token = issued
      BY TokensAssumption DEF Answered, Gens
<1>6. /\ place \in {"row", "next", "commit"} /\ place \in Places
      /\ place = "next" => sess[s].op = "refresher"
      /\ answer = "rotated" => place = "row"
      BY DEF AfterRow, Places
<1>7. sess' = [sess EXCEPT ![s] = q] BY DEF Answered, ProviderAnswers
<1> HIDE DEF token, place
<1>8. /\ q \in Session /\ q.at = place /\ q.op = sess[s].op /\ q.grant = a
      /\ q.todo = sess[s].todo \ {a} /\ q.answer = answer /\ q.token = token
      BY <1>5, <1>6, SessionType DEF Session
<1> HIDE DEF q
<1>9. /\ sess' \in [Sessions -> Session] /\ sess'[s] = q
      /\ \A t \in Sessions \ {s} : sess'[t] = sess[t]
      BY <1>7, <1>8 DEF OInv, TypeOK
<1>10. \A t \in Sessions \ {s} : Kept(t) BY <1>1, <1>9 DEF Kept
<1>11. /\ current' \in [Attempts -> Gens] /\ lost' \subseteq Attempts
       /\ \A b \in Attempts \ {a} : current'[b] = current[b] /\ (b \in lost' <=> b \in lost)
       /\ current'[a] = IF issued # 0 THEN issued ELSE current[a]
       /\ a \in lost' <=> a \in lost \/ (issued # 0 /\ answer = "failed")
      BY DEF Answered, OInv, TypeOK
<1>12. TypeOK' BY <1>1, <1>9, <1>11 DEF OInv, TypeOK
<1>13. Progress(s)'
      <2>1. \A b \in sess[s].todo \ {a} : change[s][b] = NoChange BY <1>2 DEF Progress
      <2>2. sess[s].op # "refresher" => \A b \in Attempts : change[s][b].refresh = 0
            <3>1. sess[s].op # "refresher" => change[s] = Unchanged
                  BY <1>2, <1>3 DEF Progress, Updates
            <3> QED BY <1>4, <3>1 DEF Unchanged
      <2> QED BY <1>1, <1>3, <1>5, <1>6, <1>8, <1>9, <2>1, <2>2 DEF Progress
<1>14. Copies(s)' BY <1>1, <1>2, <1>3 DEF Copies
<1>15. Updates(s)'
      <2>1. \A b \in Attempts : change[s][b].status # "active"
            <3>1. CASE sess[s].at = "post"
                  BY <1>2, <1>4, <3>1 DEF Progress, Unchanged, Same
            <3>2. CASE sess[s].at = "next" BY <1>2, <3>2 DEF Updates
            <3> QED BY <1>3, <3>1, <3>2
      <2>2. Exists(a) /\ (sess[s].op \in {"refresher", "workflow", "flow"} =>
                             seen[s][a].status = "active")
            BY <1>1, <1>2, <1>3 DEF Updates
      <2>3. \A b \in Attempts : Exists(b)' <=> Exists(b) BY <1>1 DEF Exists
      <2>4. sess[s].todo \subseteq Attempts BY SessionType
      <2> QED BY <1>1, <1>2, <1>3, <1>6, <1>8, <1>9, <2>1, <2>2, <2>3, <2>4 DEF Updates
<1>16. \A b \in Attempts : Token(b)'
      <2>1. \A b \in Attempts : Token(b) BY DEF OInv
      <2>2. \A b \in Attempts :
               Holds(s, b) <=> change[s][b].refresh # 0
            BY <1>2, <1>3 DEF Holds, Progress
      <2>3. ASSUME NEW t \in Sessions, NEW b \in Attempts
            PROVE  Holds(t, b)' <=> Holds(t, b) \/ (t = s /\ b = a /\ answer = "rotated")
            <3>1. CASE t = s BY <1>1, <1>3, <1>4, <1>8, <1>9, <2>2, <3>1 DEF Holds
            <3>2. CASE t # s BY <1>1, <1>9, <3>2 DEF Holds
            <3> QED BY <3>1, <3>2
      <2>4. ASSUME NEW b \in Attempts, b # a \/ issued = 0 PROVE Token(b)'
            <3>1. b = a => answer # "rotated" BY <1>5, <2>4
            <3>2. current'[b] = current[b] /\ (b \in lost' <=> b \in lost)
                  BY <1>11, <2>4
            <3>3. \A t \in Sessions : Holds(t, b)' <=> Holds(t, b) BY <2>3, <3>1
            <3>4. \A t \in Sessions :
                    sess'[t].grant = b /\ sess'[t].answer = "rotated" =>
                        sess'[t].token = current[b]
                  BY <1>8, <1>9, <2>1, <3>1 DEF Token
            <3> QED BY <1>1, <2>1, <3>2, <3>3, <3>4, KeptToken DEF Token
      <2>5. ASSUME issued # 0 PROVE Token(a)'
            <3>1. /\ seen[s][a].refresh = current[a] /\ issued = current[a] + 1
                  /\ answer \in {"rotated", "failed"} /\ current'[a] = issued
                  BY <1>11, <2>5 DEF Answered
            <3>2. /\ row[a].refresh \in Nat /\ current[a] \in Nat
                  /\ \A t \in Sessions : seen[t][a].refresh \in Nat
                  BY RowType
            <3>3. row[a].refresh = current[a] BY <2>1, <3>1, <3>2 DEF Token
            <3>4. a \notin lost /\ \A t \in Sessions : ~Holds(t, a)
                  BY <2>1, <3>3 DEF Token, Pending
            <3>5. /\ row'[a].refresh <= current'[a] /\ row'[a].refresh # current'[a]
                  /\ \A t \in Sessions : seen'[t][a].refresh <= row'[a].refresh
                  BY <1>1, <2>1, <3>1, <3>2, <3>3 DEF Token
            <3>6. Pending(a)' BY <1>11, <2>3, <2>5, <3>1 DEF Pending
            <3>7. \A t \in Sessions : change'[t][a].refresh = 0 BY <1>1, <3>4 DEF Holds
            <3>8. \A t \in Sessions :
                     sess'[t].grant = a /\ sess'[t].answer = "rotated" =>
                        sess'[t].token = current'[a]
                  BY <1>5, <1>8, <1>9, <3>1, <3>4 DEF Holds
            <3>9. \A t \in Sessions : Holds(t, a)' => t = s /\ answer = "rotated"
                  BY <2>3, <3>4
            <3>10. answer = "rotated" => a \notin lost' BY <1>11, <3>4
            <3> QED BY <3>5, <3>6, <3>7, <3>8, <3>9, <3>10 DEF Token
      <2> QED BY <2>4, <2>5
<1>17. Inserts'
      <2>1. \A b \in Attempts : current[b] # 0 => current'[b] # 0
            BY <1>11
      <2>2. ~Inserting(s)' BY <1>3, <1>8, <1>9 DEF Inserting
      <2> QED BY <1>1, <1>3, <1>6, <1>8, <1>9, <1>10, <2>1, <2>2, KeptInserts
<1> QED BY <1>1, <1>10, <1>12, <1>13, <1>14, <1>15, <1>16, <1>17, OneSession

\* The callback has its tokens: its attempt, whose code is good once, has no row.
LEMMA ExchangedKeeps ==
    ASSUME OInv, NEW r \in Sessions, NEW a \in Attempts, sess[r].grant = a,
           sess[r].at = "exchange", current[a] = 0, current' = [current EXCEPT ![a] = 1],
           NEW token \in {0, 1}, NEW answer \in {"kept", "rotated"},
           token = 1 <=> answer = "rotated",
           sess' = [sess EXCEPT ![r] = [sess[r] EXCEPT !.at = "row", !.token = token,
                                                       !.answer = answer]],
           UNCHANGED <<row, vault, lock, change, copied, seen, faults, lost, state, clock,
                       requests, ages, consumed>>
    PROVE  OInv'
<1> DEFINE q == [sess[r] EXCEPT !.at = "row", !.token = token, !.answer = answer]
<1>1. Progress(r) /\ Copies(r) /\ Updates(r) BY DEF OInv
<1>2. /\ sess[r].op = "callback" /\ sess[r].todo = {}
      /\ sess[r].answer = "none" /\ change[r] = Unchanged
      BY <1>1 DEF Progress, OInv, Inserts
<1>3. \A b \in Attempts : /\ change[r][b] = NoChange /\ change[r][b].refresh = 0
                          /\ change[r][b].status = Same
      BY <1>2 DEF Unchanged, NoChange
<1>4. 0 \in Gens /\ 1 \in Gens BY TokensAssumption DEF Gens
<1>5. sess' = [sess EXCEPT ![r] = q] OBVIOUS
<1>6. /\ q \in Session /\ q.at = "row" /\ q.op = sess[r].op /\ q.grant = a
      /\ q.todo = sess[r].todo /\ q.token = token
      /\ q.answer = answer
      BY <1>4, SessionType DEF Session, Places, Answers
<1> HIDE DEF q
<1>7. /\ sess' \in [Sessions -> Session] /\ sess'[r] = q
      /\ \A t \in Sessions \ {r} : sess'[t] = sess[t]
      BY <1>5, <1>6 DEF OInv, TypeOK
<1>8. \A t \in Sessions \ {r} : Kept(t) BY <1>7 DEF Kept
<1>9. /\ current' \in [Attempts -> Gens] /\ current'[a] = 1
      /\ \A b \in Attempts \ {a} : current'[b] = current[b]
      BY <1>2, <1>4 DEF OInv, TypeOK
<1>10. TypeOK' BY <1>7, <1>9 DEF OInv, TypeOK
<1>11. Progress(r)' BY <1>1, <1>2, <1>3, <1>6, <1>7 DEF Progress
<1>12. Copies(r)' BY <1>1, <1>3, SessionType DEF Copies
<1>13. Updates(r)' BY <1>2, <1>3, <1>6, <1>7 DEF Updates, Same
<1>14. \A b \in Attempts : Token(b)'
      <2>1. \A b \in Attempts : Token(b) BY DEF OInv
      <2>2. ASSUME NEW t \in Sessions, NEW b \in Attempts
            PROVE  Holds(t, b)' <=> Holds(t, b) \/ (t = r /\ b = a /\ token = 1)
            <3>1. CASE t = r BY <1>2, <1>3, <1>6, <1>7, <3>1 DEF Holds
            <3>2. CASE t # r BY <1>7, <3>2 DEF Holds
            <3> QED BY <3>1, <3>2
      <2>3. ASSUME NEW b \in Attempts \ {a} PROVE Token(b)'
            <3>1. \A t \in Sessions : Holds(t, b)' <=> Holds(t, b) BY <2>2, <2>3
            <3>2. \A t \in Sessions :
                    sess'[t].grant = b /\ sess'[t].answer = "rotated" =>
                        sess'[t].token = current[b]
                  BY <1>6, <1>7, <2>1, <2>3 DEF Token
            <3> QED BY <1>9, <2>1, <2>3, <3>1, <3>2, KeptToken DEF Token
      <2>4. Token(a)'
            <3>1. row[a].refresh \in Nat /\ \A t \in Sessions : seen[t][a].refresh \in Nat
                  BY <1>2, RowType
            <3>2. row[a].refresh = 0 /\ \A t \in Sessions : seen[t][a].refresh = 0
                  <4>1. row[a].refresh <= 0 BY <1>2, <2>1 DEF Token
                  <4>2. row[a].refresh = 0 BY <3>1, <4>1
                  <4>3. \A t \in Sessions : seen[t][a].refresh <= 0
                        BY <1>2, <2>1, <4>2 DEF Token
                  <4> QED BY <3>1, <4>2, <4>3
            <3>3. a \notin lost /\ \A t \in Sessions : ~Holds(t, a)
                  BY <1>2, <2>1, <3>2 DEF Token, Pending
            <3>4. \A t \in Sessions : change'[t][a].refresh = 0 BY <3>3 DEF Holds
            <3>5. \A t \in Sessions :
                     sess'[t].grant = a /\ sess'[t].answer = "rotated" => sess'[t].token = 1
                  BY <1>6, <1>7, <3>3 DEF Holds
            <3>6. \A t \in Sessions : Holds(t, a)' => t = r BY <1>2, <2>2, <3>3
            <3> QED BY <1>9, <3>2, <3>3, <3>4, <3>5, <3>6 DEF Token, Pending
      <2> QED BY <2>3, <2>4
<1>15. Inserts'
      <2>1. ~Exists(a) BY <1>2 DEF OInv, Inserts
      <2>2. \A b \in Attempts : Exists(b)' <=> Exists(b) BY DEF Exists
      <2>3. \A b \in Attempts : current[b] # 0 => current'[b] # 0 BY <1>9
      <2>4. \A t \in Sessions \ {r} :
               (Inserting(t)' <=> Inserting(t)) /\ sess'[t].grant = sess[t].grant
            BY <1>7 DEF Inserting
      <2>5. \A t \in Sessions \ {r} : Inserting(t) => sess[t].grant # a
            BY DEF OInv, Inserts
      <2>6. ASSUME NEW t \in Sessions, Inserting(t)'
            PROVE  /\ sess'[t].grant \in Attempts
                   /\ current'[sess'[t].grant] # 0
                   /\ ~Exists(sess[t].grant)'
            <3>1. CASE t = r BY <1>2, <1>6, <1>7, <1>9, <2>1, <3>1 DEF Exists
            <3>2. CASE t # r
                  <4>1. /\ sess[t].grant \in Attempts /\ current[sess[t].grant] # 0
                        /\ ~Exists(sess[t].grant)
                        BY <2>4, <2>6, <3>2 DEF OInv, Inserts
                  <4> QED BY <2>3, <2>4, <3>2, <4>1 DEF Exists
            <3> QED BY <3>1, <3>2
      <2>7. \A t \in Sessions :
               /\ sess'[t].op = "callback" =>
                    /\ sess'[t].at \in {"consume", "exchange", "row", "vault", "commit"}
                    /\ sess'[t].todo = {}
                    /\ \A b \in Attempts : change'[t][b] # NoChange =>
                          b = sess'[t].grant /\ sess'[t].at \in {"vault", "commit"}
               /\ sess'[t].at \in {"consume", "exchange"} => sess'[t].op = "callback"
            BY <1>2, <1>3, <1>6, <1>7 DEF OInv, Inserts
      <2>8. \A t, u \in Sessions :
               Inserting(t)' /\ Inserting(u)' /\ sess'[t].grant = sess'[u].grant => t = u
            BY <1>6, <1>7, <2>4, <2>5 DEF OInv, Inserts
      <2>9. \A b \in Attempts : Exists(b)' => current'[b] # 0
            BY <2>2, <2>3 DEF OInv, Inserts
      <2> QED BY <2>6, <2>7, <2>8, <2>9 DEF Inserts
<1> QED BY <1>8, <1>10, <1>11, <1>12, <1>13, <1>14, <1>15, OneSession

-----------------------------------------------------------------------------
(* Sessions that end *)

\* The session is idle again: nothing is left of it.
LEMMA CloseEffect ==
    ASSUME OInv, NEW s \in Sessions, Close(s)
    PROVE  /\ sess' \in [Sessions -> Session] /\ change' \in [Sessions -> [Attempts -> Change]]
           /\ seen' \in [Sessions -> [Attempts -> Loaded]]
           /\ copied' \in [Sessions -> (Attempts \X Gens) \cup {None}]
           /\ lock' \in [Attempts \cup {Vault} -> Sessions \cup {None}]
           /\ \A t \in Sessions \ {s} : Kept(t)
           /\ sess'[s] = Idle /\ copied'[s] = None
           /\ \A a \in Attempts : change'[s][a] = NoChange /\ seen'[s][a].refresh = 0
           /\ \A a \in Attempts : ~Holds(s, a)'
           /\ ~Inserting(s)'
           /\ Progress(s)' /\ Copies(s)' /\ Updates(s)'
<1>1. Idle \in Session /\ Idle.at = "idle" /\ Idle.op = "none" /\ Idle.grant = None
      /\ Idle.todo = {} /\ Idle.answer = "none" /\ Idle.token = 0
      BY TokensAssumption DEF Idle, Session, Ops, Places, Answers, Gens
<1>2. /\ NoChange \in Change /\ NoChange.refresh = 0 /\ NoChange.status = Same
      BY TokensAssumption DEF NoChange, Change, Statuses, Gens, Same
<1>3. Unchanged \in [Attempts -> Change] /\ \A a \in Attempts : Unchanged[a] = NoChange
      BY <1>2 DEF Unchanged
<1>4. Unloaded \in [Attempts -> Loaded] /\ \A a \in Attempts : Unloaded[a].refresh = 0
      BY TokensAssumption DEF Unloaded, Loaded, Statuses, Gens
<1>5. /\ sess' = [sess EXCEPT ![s] = Idle] /\ seen' = [seen EXCEPT ![s] = Unloaded]
      /\ change' = [change EXCEPT ![s] = Unchanged] /\ copied' = [copied EXCEPT ![s] = None]
      /\ lock' = [x \in DOMAIN lock |-> IF lock[x] = s THEN None ELSE lock[x]]
      BY DEF Close
<1>6. /\ sess' \in [Sessions -> Session] /\ change' \in [Sessions -> [Attempts -> Change]]
      /\ seen' \in [Sessions -> [Attempts -> Loaded]]
      /\ copied' \in [Sessions -> (Attempts \X Gens) \cup {None}]
      /\ sess'[s] = Idle /\ copied'[s] = None /\ change'[s] = Unchanged
      /\ seen'[s] = Unloaded
      BY <1>1, <1>3, <1>4, <1>5 DEF OInv, TypeOK
<1>7. lock' \in [Attempts \cup {Vault} -> Sessions \cup {None}]
      BY <1>5 DEF OInv, TypeOK
<1>8. \A t \in Sessions \ {s} : Kept(t) BY <1>5 DEF OInv, TypeOK, Kept
<1>9. \A a \in Attempts : /\ change'[s][a] = NoChange /\ change'[s][a].refresh = 0
                          /\ change'[s][a].status = Same /\ seen'[s][a].refresh = 0
      BY <1>2, <1>3, <1>4, <1>6
<1>10. \A a \in Attempts : ~Holds(s, a)' BY <1>1, <1>6, <1>9 DEF Holds
<1>11. ~Inserting(s)' BY <1>1, <1>6 DEF Inserting
<1>12. Progress(s)' BY <1>1, <1>6, <1>9, TokensAssumption DEF Progress
<1>13. Copies(s)' BY <1>6, <1>9 DEF Copies
<1>14. Updates(s)' BY <1>1, <1>6, <1>9, TokensAssumption DEF Updates, Same
<1> QED BY <1>6, <1>7, <1>8, <1>9, <1>10, <1>11, <1>12, <1>13, <1>14

\* What s holds is lost; a code that was exchanged in vain is used up.
LEMMA RollbackKeeps ==
    ASSUME OInv, NEW s \in Sessions, Rollback(s),
           current' \in [Attempts -> Gens],
           \A a \in Attempts : current'[a] = current[a] \/ (current[a] = 0 /\ current'[a] = 1),
           faults' \in 0 .. FaultBound,
           UNCHANGED <<state, clock, requests, ages, consumed>>
    PROVE  OInv'
<1>1. /\ Close(s) /\ UNCHANGED <<row, vault>>
      /\ lost' = lost \cup {a \in Attempts : Holds(s, a)}
      BY DEF Rollback
<1>2. /\ sess' \in [Sessions -> Session] /\ change' \in [Sessions -> [Attempts -> Change]]
      /\ seen' \in [Sessions -> [Attempts -> Loaded]]
      /\ copied' \in [Sessions -> (Attempts \X Gens) \cup {None}]
      /\ lock' \in [Attempts \cup {Vault} -> Sessions \cup {None}]
      /\ \A t \in Sessions \ {s} : Kept(t)
      /\ sess'[s] = Idle
      /\ \A a \in Attempts : change'[s][a] = NoChange /\ seen'[s][a].refresh = 0
      /\ \A a \in Attempts : ~Holds(s, a)'
      /\ ~Inserting(s)'
      /\ Progress(s)' /\ Copies(s)' /\ Updates(s)'
      BY <1>1, CloseEffect
<1>3. NoChange.refresh = 0 /\ Idle.answer = "none" /\ Idle.op = "none" /\ Idle.at = "idle"
      BY DEF NoChange, Idle
<1>4. TypeOK' BY <1>1, <1>2 DEF OInv, TypeOK
<1>5. \A a \in Attempts : Token(a)'
      <2> SUFFICES ASSUME NEW a \in Attempts PROVE Token(a)'
          OBVIOUS
      <2>1. Token(a) BY DEF OInv
      <2>2. \A t \in Sessions \ {s} : Holds(t, a)' <=> Holds(t, a) BY <1>2 DEF Kept, Holds
      <2>3. Pending(a)' <=> Pending(a) BY <1>1, <1>2, <2>2 DEF Pending
      <2>4. row[a].refresh \in Nat /\ current[a] \in Nat
            /\ \A t \in Sessions : seen[t][a].refresh \in Nat
            BY RowType
      <2>5. current[a] = 0 => row[a].refresh = 0 /\ ~Pending(a)
            BY <2>1, <2>4 DEF Token
      <2>6. /\ row'[a].refresh <= current'[a]
            /\ row'[a].refresh # 0 /\ row'[a].refresh # current'[a] => Pending(a)'
            /\ Pending(a)' => row'[a].refresh # current'[a]
            BY <1>1, <2>1, <2>3, <2>4, <2>5 DEF Token
      <2>7. \A t \in Sessions : seen'[t][a].refresh <= row'[a].refresh
            BY <1>1, <1>2, <2>1, <2>4 DEF Token, Kept
      <2>8. \A t \in Sessions :
               /\ change'[t][a].refresh # 0 => Holds(t, a) /\ change'[t][a].refresh = current[a]
               /\ sess'[t].grant = a /\ sess'[t].answer = "rotated" =>
                     Holds(t, a) /\ sess'[t].token = current[a]
            BY <1>2, <1>3, <2>1 DEF Token, Kept, Holds
      <2>9. \A t \in Sessions : Holds(t, a) => current'[a] = current[a]
            BY <2>5 DEF Pending
      <2>10. \A t \in Sessions : Holds(t, a)' => Holds(t, a) /\ t # s /\ a \notin lost'
            BY <1>1, <1>2, <2>1, <2>2 DEF Token
      <2>11. \A t, u \in Sessions : Holds(t, a)' /\ Holds(u, a)' => t = u
            BY <2>1, <2>10 DEF Token
      <2> QED BY <2>6, <2>7, <2>8, <2>9, <2>10, <2>11 DEF Token
<1>6. Inserts'
      <2>1. \A a \in Attempts : current[a] # 0 => current'[a] # 0 OBVIOUS
      <2>2. sess'[s].op # "callback" /\ ~(sess'[s].at \in {"consume", "exchange"})
            BY <1>2, <1>3
      <2> QED BY <1>1, <1>2, <2>1, <2>2, KeptInserts
<1> QED BY <1>1, <1>2, <1>4, <1>5, <1>6, OneSession

\* The columns of the rows after a commit.
LEMMA AppliedRow ==
    ASSUME OInv, NEW s \in Sessions, NEW a \in Attempts, CommitSession(s)
    PROVE  /\ row'[a] \in Row
           /\ row'[a].refresh = IF change[s][a].refresh = 0 THEN row[a].refresh
                                ELSE change[s][a].refresh
           /\ row'[a].status = IF change[s][a].status = Same THEN row[a].status
                               ELSE change[s][a].status
           /\ change[s][a] = NoChange => row'[a] = row[a]
<1> DEFINE c == change[s][a]
<1>1. c \in Change BY DEF OInv, TypeOK
<1>2. /\ c.status \in Statuses \cup {Same} /\ c.refresh \in Gens /\ c.renewed \in BOOLEAN
      /\ c.rank \in Nat
      BY <1>1 DEF Change
<1>3. row[a] \in Row BY RowType
<1>4. /\ row[a].status \in Statuses /\ row[a].refresh \in Gens
      /\ row[a].due \in {"fresh", "soon", "past"} /\ row[a].rank \in Nat
      BY <1>3 DEF Row
<1>5. row'[a] = IF c # NoChange THEN Applied(s, a) ELSE row[a]
      BY DEF CommitSession, Stored
<1>6. NoChange.refresh = 0 /\ NoChange.status = Same BY DEF NoChange
<1>7. Applied(s, a) = [status |-> IF c.status = Same THEN row[a].status ELSE c.status,
                       refresh |-> IF c.refresh = 0 THEN row[a].refresh ELSE c.refresh,
                       due |-> IF c.renewed THEN "fresh" ELSE row[a].due,
                       rank |-> IF c.rank = 0 THEN row[a].rank ELSE c.rank]
      BY DEF Applied
<1> HIDE DEF c
<1>8. /\ Applied(s, a) \in Row
      /\ Applied(s, a).refresh = IF c.refresh = 0 THEN row[a].refresh ELSE c.refresh
      /\ Applied(s, a).status = IF c.status = Same THEN row[a].status ELSE c.status
      BY <1>2, <1>4, <1>7 DEF Row
<1>9. /\ row'[a] \in Row
      /\ row'[a].refresh = IF c.refresh = 0 THEN row[a].refresh ELSE c.refresh
      /\ row'[a].status = IF c.status = Same THEN row[a].status ELSE c.status
      /\ c = NoChange => row'[a] = row[a]
      BY <1>3, <1>5, <1>6, <1>8
<1> QED BY <1>9 DEF c

\* The token that s holds is stored, in its row and in the vault.
LEMMA CommitKeeps ==
    ASSUME OInv, NEW s \in Sessions, CommitSession(s),
           sess[s].at \in {"commit", "next", "dispatch"},
           UNCHANGED <<state, current, clock, requests, ages, faults, consumed>>
    PROVE  OInv'
<1>1. /\ Close(s) /\ lost' = lost
      /\ vault' = IF copied[s] = None THEN vault ELSE copied[s]
      /\ row' = [a \in Attempts |-> IF a \in Stored(s) THEN Applied(s, a) ELSE row[a]]
      BY DEF CommitSession
<1>2. /\ sess' \in [Sessions -> Session] /\ change' \in [Sessions -> [Attempts -> Change]]
      /\ seen' \in [Sessions -> [Attempts -> Loaded]]
      /\ copied' \in [Sessions -> (Attempts \X Gens) \cup {None}]
      /\ lock' \in [Attempts \cup {Vault} -> Sessions \cup {None}]
      /\ \A t \in Sessions \ {s} : Kept(t)
      /\ sess'[s] = Idle
      /\ \A a \in Attempts : change'[s][a] = NoChange /\ seen'[s][a].refresh = 0
      /\ \A a \in Attempts : ~Holds(s, a)'
      /\ ~Inserting(s)'
      /\ Progress(s)' /\ Copies(s)' /\ Updates(s)'
      BY <1>1, CloseEffect
<1>3. NoChange.refresh = 0 /\ Idle.answer = "none" /\ Idle.op = "none" /\ Idle.at = "idle"
      BY DEF NoChange, Idle
<1>4. Progress(s) /\ Copies(s) /\ Updates(s) BY DEF OInv
<1>5. \A a \in Attempts :
         /\ row'[a] \in Row
         /\ row'[a].refresh = IF change[s][a].refresh = 0 THEN row[a].refresh
                              ELSE change[s][a].refresh
         /\ row'[a].status = IF change[s][a].status = Same THEN row[a].status
                             ELSE change[s][a].status
         /\ change[s][a] = NoChange => row'[a] = row[a]
      BY AppliedRow
<1>6. row' \in [Attempts -> Row] BY <1>1, <1>5
<1>7. copied[s] \in (Attempts \X Gens) \cup {None} BY SessionType
<1>8. vault' \in (Attempts \X Gens) \cup {None} BY <1>1, <1>7 DEF OInv, TypeOK
<1>9. TypeOK' BY <1>1, <1>2, <1>6, <1>8 DEF OInv, TypeOK
<1>10. RowsStay BY <1>4, <1>5 DEF RowsStay, Exists, Updates
<1>11. \A t \in Sessions \ {s} : Progress(t)' /\ Copies(t)' /\ Updates(t)'
      BY <1>2, <1>10, KeptSession
<1>12. \A a \in Attempts : Token(a)'
      <2> SUFFICES ASSUME NEW a \in Attempts PROVE Token(a)'
          OBVIOUS
      <2>1. Token(a) BY DEF OInv
      <2>2. \A t \in Sessions \ {s} : Holds(t, a)' <=> Holds(t, a) BY <1>2 DEF Kept, Holds
      <2>3. row[a].refresh \in Nat /\ current[a] \in Nat
            /\ \A t \in Sessions : seen[t][a].refresh \in Nat
            BY RowType
      <2>4. \A t \in Sessions :
               /\ change'[t][a].refresh # 0 => change'[t][a].refresh = current[a]
               /\ sess'[t].grant = a /\ sess'[t].answer = "rotated" =>
                     sess'[t].token = current[a]
            BY <1>2, <1>3, <2>1 DEF Token, Kept
      <2>5. \A t \in Sessions : Holds(t, a)' => Holds(t, a) /\ t # s BY <1>2, <2>2
      <2>6. \A t \in Sessions : Holds(t, a)' => a \notin lost'
            BY <1>1, <2>1, <2>5 DEF Token
      <2>7. \A t, u \in Sessions : Holds(t, a)' /\ Holds(u, a)' => t = u
            BY <2>1, <2>5 DEF Token
      <2>8. Holds(s, a) <=> change[s][a].refresh # 0
            BY <1>4 DEF Holds, Progress
      <2>9. CASE change[s][a].refresh # 0
            <3>1. row'[a].refresh = current[a] BY <1>5, <2>1, <2>9 DEF Token
            <3>2. Holds(s, a) BY <2>8, <2>9
            <3>3. ~Pending(a)'
                  <4>1. a \notin lost' BY <1>1, <2>1, <3>2 DEF Token
                  <4>2. \A t \in Sessions : ~Holds(t, a)' BY <2>1, <2>5, <3>2 DEF Token
                  <4> QED BY <4>1, <4>2 DEF Pending
            <3>4. \A t \in Sessions : seen'[t][a].refresh <= row'[a].refresh
                  <4>1. \A t \in Sessions \ {s} : seen'[t][a].refresh = seen[t][a].refresh
                        BY <1>2 DEF Kept
                  <4>2. \A t \in Sessions : seen[t][a].refresh <= current[a]
                        BY <2>1, <2>3 DEF Token
                  <4> QED BY <1>2, <2>3, <3>1, <4>1, <4>2
            <3> QED BY <2>3, <2>4, <2>6, <2>7, <3>1, <3>3, <3>4 DEF Token
      <2>10. CASE change[s][a].refresh = 0
            <3>1. row'[a].refresh = row[a].refresh BY <1>5, <2>10
            <3>2. \A t \in Sessions : Holds(t, a)' <=> Holds(t, a)
                  BY <1>2, <2>2, <2>8, <2>10
            <3>3. \A t \in Sessions : seen'[t][a].refresh <= row[a].refresh
                  BY <1>2, <2>1, <2>3 DEF Token, Kept
            <3>4. current'[a] = current[a] /\ (a \in lost' <=> a \in lost) BY <1>1
            <3> QED BY <2>4, <3>1, <3>2, <3>3, <3>4, KeptToken
      <2> QED BY <2>9, <2>10
<1>13. Inserts'
      <2>1. \A t \in Sessions : Inserting(t)' =>
               t # s /\ Inserting(t) /\ sess'[t].grant = sess[t].grant
            BY <1>2 DEF Kept, Inserting
      <2>2. \A a \in Attempts : Exists(a)' => Exists(a) \/ change[s][a] # NoChange
            BY <1>5 DEF Exists
      <2>3. \A a \in Attempts : change[s][a] # NoChange =>
               Exists(a) \/ (Inserting(s) /\ a = sess[s].grant)
            BY <1>4 DEF OInv, Inserts, Updates, Inserting
      <2>4. ASSUME NEW t \in Sessions, Inserting(t)'
            PROVE  /\ sess'[t].grant \in Attempts
                   /\ current'[sess'[t].grant] # 0
                   /\ ~Exists(sess[t].grant)'
            <3>1. t # s /\ Inserting(t) /\ sess'[t].grant = sess[t].grant BY <2>1, <2>4
            <3>2. PICK a \in Attempts : a = sess[t].grant BY <3>1 DEF OInv, Inserts
            <3>3. current[a] # 0 /\ ~Exists(a) BY <3>1, <3>2 DEF OInv, Inserts
            <3>4. ~(Inserting(s) /\ a = sess[s].grant) BY <3>1, <3>2 DEF OInv, Inserts
            <3>5. ~Exists(a)' BY <2>2, <2>3, <3>3, <3>4
            <3> QED BY <3>1, <3>2, <3>3, <3>5 DEF Exists
      <2>5. \A t \in Sessions :
               /\ sess'[t].op = "callback" =>
                    /\ sess'[t].at \in {"consume", "exchange", "row", "vault", "commit"}
                    /\ sess'[t].todo = {}
                    /\ \A b \in Attempts : change'[t][b] # NoChange =>
                          b = sess'[t].grant /\ sess'[t].at \in {"vault", "commit"}
               /\ sess'[t].at \in {"consume", "exchange"} => sess'[t].op = "callback"
            BY <1>2, <1>3 DEF OInv, Inserts, Kept
      <2>6. \A t, u \in Sessions :
               Inserting(t)' /\ Inserting(u)' /\ sess'[t].grant = sess'[u].grant => t = u
            BY <2>1 DEF OInv, Inserts
      <2>7. \A a \in Attempts : Exists(a)' => current'[a] # 0
            BY <2>2, <2>3 DEF OInv, Inserts
      <2> QED BY <2>4, <2>5, <2>6, <2>7 DEF Inserts
<1>15. VaultMatchesRow'
      <2>1. CASE copied[s] = None
            <3>1. \A a \in Attempts : change[s][a].refresh = 0 BY <1>4, <2>1 DEF Copies
            <3>2. vault' = vault BY <1>1, <2>1
            <3>3. vault # None => vault[1] \in Attempts BY DEF OInv, TypeOK
            <3> QED BY <1>5, <3>1, <3>2, <3>3 DEF OInv, VaultMatchesRow
      <2>2. CASE copied[s] # None
            <3>1. vault' = copied[s] BY <1>1, <2>2
            <3>2. /\ copied[s] \in Attempts \X Gens
                  /\ change[s][copied[s][1]].refresh = copied[s][2] /\ copied[s][2] # 0
                  BY <1>4, <2>2 DEF Copies
            <3>3. PICK a \in Attempts, g \in Gens : copied[s] = <<a, g>> BY <3>2
            <3>4. change[s][a].refresh = g /\ g # 0 BY <3>2, <3>3
            <3>5. row'[a].refresh = g BY <1>5, <3>4
            <3>6. vault'[1] = a /\ vault'[2] = g BY <3>1, <3>3
            <3> QED BY <3>5, <3>6 DEF VaultMatchesRow
      <2> QED BY <2>1, <2>2
<1>16. \A t \in Sessions : Progress(t)' /\ Copies(t)' /\ Updates(t)' BY <1>2, <1>11
<1> QED BY <1>9, <1>12, <1>13, <1>15, <1>16 DEF OInv

-----------------------------------------------------------------------------
(* The actions that end sessions, and the step *)

LEMMA FaultCounted ==
    ASSUME OInv, Fault
    PROVE  faults' \in 0 .. FaultBound
BY TokensAssumption DEF OInv, TypeOK, Fault

LEMMA EndsKeep ==
    ASSUME OInv, NEW s \in Sessions,
           Commit(s) \/ EndDispatch(s) \/ Crash(s) \/ DeadlockAbort(s)
    PROVE  OInv'
<1>1. /\ UNCHANGED <<state, current, clock, requests, ages, consumed>>
      /\ \/ Rollback(s) /\ (UNCHANGED faults \/ Fault)
         \/ /\ CommitSession(s) /\ UNCHANGED faults
            /\ sess[s].at \in {"commit", "next", "dispatch"}
      BY DEF Commit, EndDispatch, Crash, DeadlockAbort, bounds
<1>2. current' \in [Attempts -> Gens] BY <1>1 DEF OInv, TypeOK
<1>3. (UNCHANGED faults \/ Fault) => faults' \in 0 .. FaultBound
      BY FaultCounted DEF OInv, TypeOK
<1> QED BY <1>1, <1>2, <1>3, RollbackKeeps, CommitKeeps

LEMMA ExchangeCodeKeeps ==
    ASSUME OInv, NEW r \in Sessions, ExchangeCode(r)
    PROVE  OInv'
<1>1. PICK a \in Attempts : sess[r].grant = a
      <2>1. Progress(r) BY DEF OInv
      <2> QED BY <2>1 DEF ExchangeCode, Progress
<1>2. sess[r].at = "exchange" /\ UNCHANGED <<state, clock, requests, ages, consumed>>
      BY DEF ExchangeCode
<1>3. sess[r] \in Session /\ DOMAIN sess = Sessions BY SessionType
<1>4. current \in [Attempts -> Gens] /\ 1 \in Gens
      BY TokensAssumption DEF OInv, TypeOK, Gens
<1>5. ASSUME current[a] = 0, current' = [current EXCEPT ![a] = 1], NEW token \in {0, 1},
             sess' = [sess EXCEPT ![r].at = "row", ![r].token = token,
                                  ![r].answer = IF token = 1 THEN "rotated" ELSE "kept"],
             UNCHANGED <<db, seen, faults, lost>>
      PROVE  OInv'
      <2> DEFINE answer == IF token = 1 THEN "rotated" ELSE "kept"
      <2>1. answer \in {"kept", "rotated"} /\ (token = 1 <=> answer = "rotated")
            BY <1>5
      <2>2. sess' = [sess EXCEPT ![r] = [sess[r] EXCEPT !.at = "row", !.token = token,
                                                       !.answer = answer]]
            BY <1>3, <1>5
      <2>3. UNCHANGED <<row, vault, lock, change, copied, seen, faults, lost, state, clock,
                        requests, ages, consumed>>
            BY <1>2, <1>5 DEF db
      <2> HIDE DEF answer
      <2> QED BY <1>1, <1>2, <1>5, <2>1, <2>2, <2>3, ExchangedKeeps
<1>6. ASSUME Rollback(r), UNCHANGED <<current, faults>> PROVE OInv'
      <2>1. faults' \in 0 .. FaultBound BY <1>6 DEF OInv, TypeOK
      <2>2. current' = current BY <1>6
      <2> QED BY <1>2, <1>4, <1>6, <2>1, <2>2, RollbackKeeps
<1>7. ASSUME current[a] = 0, Fault, Rollback(r),
             current' \in {current, [current EXCEPT ![a] = 1]}
      PROVE  OInv'
      <2>1. faults' \in 0 .. FaultBound BY <1>7, FaultCounted
      <2>2. /\ current' \in [Attempts -> Gens]
            /\ \A b \in Attempts : current'[b] = current[b] \/ (current[b] = 0 /\ current'[b] = 1)
            BY <1>4, <1>7
      <2> QED BY <1>2, <1>7, <2>1, <2>2, RollbackKeeps
<1> QED BY <1>1, <1>5, <1>6, <1>7 DEF ExchangeCode

LEMMA StutterKeeps ==
    ASSUME OInv, UNCHANGED vars
    PROVE  OInv'
<1>1. UNCHANGED <<row, vault, lock, state, sess, seen, change, copied, current,
                  clock, requests, ages, faults, lost, consumed>>
      BY DEF vars
<1>2. TypeOK' BY <1>1 DEF OInv, TypeOK
<1>3. RowsStay /\ \A t \in Sessions : Kept(t) BY <1>1 DEF RowsStay, Kept, Exists
<1>4. \A t \in Sessions : Progress(t)' /\ Copies(t)' /\ Updates(t)'
      BY <1>3, KeptSession
<1>5. \A b \in Attempts : Token(b)' BY <1>1, UnchangedTokens
<1>6. Inserts' BY <1>1 DEF OInv, Inserts, Inserting, Exists
<1>7. VaultMatchesRow' BY <1>1 DEF OInv, VaultMatchesRow
<1> QED BY <1>2, <1>4, <1>5, <1>6, <1>7 DEF OInv

LEMMA NextOInv == OInv /\ [Next]_vars => OInv'
<1> SUFFICES ASSUME OInv, [Next]_vars PROVE OInv'
    OBVIOUS
<1>1. ASSUME NEW f \in Refreshers, RefresherBegins(f) PROVE OInv'
      BY <1>1, RefresherBeginsKeeps
<1>2. ASSUME NEW r \in Requests, NEW a \in Attempts,
             \/ ManualRefresh(r, a)
             \/ \E op \in {"workflow", "flow"} : ActionNeedsToken(r, a, op)
             \/ Revoke(r, a)
      PROVE  OInv'
      BY <1>2, RequestsKeep
<1>3. ASSUME NEW r \in Requests, NEW a \in Attempts, Callback(r, a) PROVE OInv'
      BY <1>3, CallbackKeeps
<1>4. ASSUME NEW a \in Attempts, Authorize(a) \/ StateExpires(a) PROVE OInv'
      BY <1>4, AuthorizeKeeps
<1>5. ASSUME NEW a \in Attempts, Age(a) PROVE OInv' BY <1>5, AgeKeeps
<1>6. ASSUME NEW s \in Sessions, Step(s) \/ Crash(s) PROVE OInv'
      <2>1. ASSUME NEW a \in Attempts, Post(s, a) PROVE OInv'
            BY <2>1, PostAnswered, AnsweredKeeps
      <2>2. CASE FlushRow(s) BY <2>2, FlushRowKeeps
      <2>3. CASE StoreVault(s) BY <2>3, StoreVaultKeeps
      <2>4. CASE Commit(s) \/ EndDispatch(s) \/ Crash(s) \/ DeadlockAbort(s)
            BY <2>4, EndsKeep
      <2>5. CASE ConsumeState(s) BY <2>5, ConsumeStateKeeps
      <2>6. CASE ExchangeCode(s) BY <2>6, ExchangeCodeKeeps
      <2>7. CASE InsertRow(s) BY <2>7, InsertRowKeeps
      <2> QED BY <1>6, <2>1, <2>2, <2>3, <2>4, <2>5, <2>6, <2>7 DEF Step
<1>7. CASE UNCHANGED vars BY <1>7, StutterKeeps
<1> QED BY <1>1, <1>2, <1>3, <1>4, <1>5, <1>6, <1>7 DEF Next

-----------------------------------------------------------------------------
(* The theorems *)

\* In every reachable state sessions, rows and the provider agree as OInv says.
THEOREM TokensInvariant == Spec => []OInv
<1>1. Init => OInv BY InitOInv
<1>2. OInv /\ [Next]_vars => OInv' BY NextOInv
<1> QED BY <1>1, <1>2, PTL DEF Spec

\* Types, for any number of replicas, requests and authorizations.
THEOREM TokensTypeCorrect == Spec => []TypeOK
<1>1. OInv => TypeOK BY DEF OInv
<1> QED BY <1>1, TokensInvariant, PTL

\* refresh_token: however the refreshers, manual refreshes and actions interleave
\* without locking the row, the stored refresh token is the one the provider
\* accepts, unless an answer was lost or is on its way to a commit.
THEOREM StoredTokenIsAccepted == Spec => []StoredTokenAccepted
<1>1. OInv => StoredTokenAccepted
      BY DEF OInv, Token, Pending, StoredTokenAccepted
<1> QED BY <1>1, TokensInvariant, PTL

\* vault.store: the credential rows all grants share are written in the
\* transaction of the token row, so they never offer a token its row has not.
THEOREM VaultIsConsistent == Spec => []VaultMatchesRow
<1>1. OInv => VaultMatchesRow BY DEF OInv
<1> QED BY <1>1, TokensInvariant, PTL

\* Only a commit writes the status of a row.
LEMMA StatusCommitted ==
    ASSUME OInv, Next, NEW a \in Attempts, row'[a].status # row[a].status
    PROVE  \E s \in Sessions : CommitSession(s)
<1>1. ASSUME NEW b \in Attempts, Age(b) PROVE row'[a].status = row[a].status
      <2>1. row[a] \in Row /\ row \in [Attempts -> Row] BY RowType DEF OInv, TypeOK
      <2> QED BY <1>1, <2>1 DEF Age, Row
<1>2. ASSUME NEW s \in Sessions, Step(s) \/ Crash(s), ~CommitSession(s)
      PROVE  row' = row
      <2>1. \A b \in Attempts : Post(s, b) => row' = row BY DEF Post, db
      <2>2. FlushRow(s) \/ StoreVault(s) => row' = row BY DEF FlushRow, StoreVault
      <2>3. Commit(s) \/ EndDispatch(s) => row' = row
            BY <1>2 DEF Commit, EndDispatch, Rollback
      <2>4. ConsumeState(s) \/ InsertRow(s) => row' = row BY DEF ConsumeState, InsertRow, db
      <2>5. ExchangeCode(s) => row' = row BY DEF ExchangeCode, Rollback, db
      <2>6. DeadlockAbort(s) \/ Crash(s) => row' = row BY DEF DeadlockAbort, Crash, Rollback
      <2> QED BY <1>2, <2>1, <2>2, <2>3, <2>4, <2>5, <2>6 DEF Step
<1>3. ASSUME NEW f \in Refreshers, RefresherBegins(f) PROVE row' = row
      BY <1>3 DEF RefresherBegins, db
<1>4. ASSUME NEW r \in Requests, NEW b \in Attempts,
             \/ ManualRefresh(r, b)
             \/ \E op \in {"workflow", "flow"} : ActionNeedsToken(r, b, op)
             \/ Revoke(r, b)
             \/ Callback(r, b)
      PROVE  row' = row
      BY <1>4 DEF ManualRefresh, ActionNeedsToken, Revoke, Callback, db
<1>5. ASSUME NEW b \in Attempts, Authorize(b) \/ StateExpires(b) PROVE row' = row
      BY <1>5 DEF Authorize, StateExpires, db
<1> QED BY <1>1, <1>2, <1>3, <1>4, <1>5 DEF Next

\* revoke_token: a refresh on its way to the provider when the revocation commits
\* does not undo it; the only session that makes a revoked row active again is a
\* manual refresh of that row.
THEOREM RevocationIsFinal == Spec => RevocationSticks
<1> DEFINE Undone(a) == row[a].status = "revoked" /\ row'[a].status = "active"
           Reason(a) == \E r \in Requests : sess[r].op = "manual" /\ sess[r].grant = a
<1>1. ASSUME OInv, [Next]_vars PROVE [\A a \in Attempts : Undone(a) => Reason(a)]_vars
      <2> SUFFICES ASSUME NEW a \in Attempts, Undone(a), Next PROVE Reason(a)
          BY <1>1
      <2>1. PICK s \in Sessions : CommitSession(s) BY <1>1, StatusCommitted
      <2>2. change[s][a].status = "active" BY <1>1, <2>1, AppliedRow DEF Same
      <2>3. Updates(s) BY <1>1 DEF OInv
      <2>4. sess[s].op \in {"manual", "callback"} /\ sess[s].grant = a
            BY <2>2, <2>3 DEF Updates
      <2>5. sess[s].op # "callback"
            <3> SUFFICES ASSUME sess[s].op = "callback" PROVE FALSE
                OBVIOUS
            <3>1. change[s][a] # NoChange BY <2>2 DEF NoChange, Same
            <3>2. sess[s].at \in {"vault", "commit"} BY <1>1, <3>1 DEF OInv, Inserts
            <3>3. Inserting(s) BY <3>2 DEF Inserting
            <3>4. ~Exists(a) BY <1>1, <2>4, <3>3 DEF OInv, Inserts
            <3> QED BY <3>4 DEF Exists
      <2>6. s \in Requests BY <2>3, <2>4, <2>5 DEF Updates
      <2> QED BY <2>4, <2>5, <2>6
<1>2. OInv /\ [Next]_vars => [\A a \in Attempts : Undone(a) => Reason(a)]_vars
      BY <1>1
<1>3. Spec => [][\A a \in Attempts : Undone(a) => Reason(a)]_vars
      BY <1>2, TokensInvariant, PTL DEF Spec
<1> QED BY <1>3 DEF RevocationSticks

\* Only a session that rolls back loses a token, one that it holds; apart from
\* failures, deadlocks and actions a rollback finds nothing to lose.
LEMMA LostHeld ==
    ASSUME OInv, Next, NEW a \in lost' \ lost, faults' = faults
    PROVE  \E s \in Sessions : Holds(s, a) /\ (Deadlocked(s) \/ ForAction(s))
<1>1. faults \in Nat /\ ~Fault BY DEF OInv, TypeOK, Fault
<1>2. ASSUME NEW s \in Sessions, Rollback(s) PROVE a \in Attempts /\ Holds(s, a)
      BY <1>2 DEF Rollback
<1>3. ASSUME NEW f \in Refreshers, RefresherBegins(f) PROVE FALSE
      BY <1>3 DEF RefresherBegins, history
<1>4. ASSUME NEW r \in Requests, NEW b \in Attempts,
             \/ ManualRefresh(r, b)
             \/ \E op \in {"workflow", "flow"} : ActionNeedsToken(r, b, op)
             \/ Revoke(r, b)
             \/ Callback(r, b)
      PROVE  FALSE
      BY <1>4 DEF ManualRefresh, ActionNeedsToken, Revoke, Callback, history
<1>5. ASSUME NEW b \in Attempts, Authorize(b) \/ StateExpires(b) \/ Age(b) PROVE FALSE
      BY <1>5 DEF Authorize, StateExpires, Age, history
<1>6. ASSUME NEW s \in Sessions, Step(s) \/ Crash(s)
      PROVE  Holds(s, a) /\ (Deadlocked(s) \/ ForAction(s))
      <2>1. \A b \in Attempts : ~Post(s, b) BY <1>1 DEF Post
      <2>2. ~FlushRow(s) /\ ~StoreVault(s) /\ ~InsertRow(s) /\ ~ConsumeState(s)
            BY DEF FlushRow, StoreVault, InsertRow, ConsumeState, history
      <2>3. ~Crash(s) BY <1>1 DEF Crash
      <2>4. Progress(s) /\ Updates(s) BY DEF OInv
      <2>5. ~Commit(s)
            <3> SUFFICES ASSUME Commit(s) PROVE FALSE
                OBVIOUS
            <3>1. ~CommitSession(s) BY DEF CommitSession
            <3>2. /\ Rollback(s) /\ sess[s].op = "manual"
                  /\ sess[s].answer \in {"refused", "failed"}
                  BY <3>1 DEF Commit
            <3>3. a \in Attempts /\ Holds(s, a) BY <1>2, <3>2
            <3>4. change[s][a].refresh # 0 BY <3>2, <3>3 DEF Holds
            <3> QED BY <2>4, <3>2, <3>3, <3>4 DEF Progress
      <2>6. ~ExchangeCode(s)
            <3> SUFFICES ASSUME ExchangeCode(s) PROVE FALSE
                OBVIOUS
            <3>1. Rollback(s) /\ sess[s].at = "exchange" BY <1>1 DEF ExchangeCode
            <3>2. a \in Attempts /\ Holds(s, a) BY <1>2, <3>1
            <3>3. change[s][a].refresh = 0 /\ sess[s].answer = "none"
                  BY <2>4, <3>1, <3>2 DEF Progress, Unchanged, NoChange
            <3> QED BY <3>2, <3>3 DEF Holds
      <2>7. CASE EndDispatch(s)
            <3>1. ~CommitSession(s) BY DEF CommitSession
            <3>2. Rollback(s) /\ sess[s].at = "dispatch" BY <2>7, <3>1 DEF EndDispatch
            <3> QED BY <1>2, <2>4, <3>2 DEF Updates, ForAction
      <2>8. CASE DeadlockAbort(s) BY <1>2, <2>8 DEF DeadlockAbort
      <2> QED BY <1>6, <2>1, <2>2, <2>3, <2>5, <2>6, <2>7, <2>8 DEF Step
<1> QED BY <1>3, <1>4, <1>5, <1>6 DEF Next

\* refresh_token and the refresher's loop: a new refresh token of a stored row is
\* lost only by a failure, a deadlock or an action's session, never because another
\* row of the cycle was refused or sessions interleaved.
THEOREM LossesHaveCauses == Spec => LossHasCause
<1> DEFINE Cause(a) ==
              \/ faults' # faults
              \/ \E s \in Sessions : Holds(s, a) /\ (Deadlocked(s) \/ ForAction(s))
<1>1. OInv /\ [Next]_vars => [\A a \in lost' \ lost : Exists(a) => Cause(a)]_vars
      BY LostHeld
<1>2. Spec => [][\A a \in lost' \ lost : Exists(a) => Cause(a)]_vars
      BY <1>1, TokensInvariant, PTL DEF Spec
<1> QED BY <1>2 DEF LossHasCause

=============================================================================
