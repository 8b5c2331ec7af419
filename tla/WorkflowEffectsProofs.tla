----------------------- MODULE WorkflowEffectsProofs ------------------------
(***************************************************************************)
(* No executor of WorkflowEngine that lies on one way is called twice.     *)
(*                                                                         *)
(* Let A be the nodes that lead to n.  A place of a call stack is a site   *)
(* when its call can still bring A's next node to execution: an entry of a *)
(* list that is in A, or the call of a node of A that is not past its      *)
(* successors.  There is at most one site in all coroutines together; each *)
(* step moves it along the way or ends it, and the call of n's executor    *)
(* uses it up.                                                             *)
(***************************************************************************)
EXTENDS WorkflowProofs

-----------------------------------------------------------------------------
(* Sites *)

\* Frames with what their place says about the node; a child of Root is
\* rejected because Root is in every chain.
PlacedFrame ==
    {f \in GoodFrame : /\ Root \in Range(f.chain)
                       /\ f.at \in {"retry", "retrysucc"} => OnError[f.node] = "retry"
                       /\ f.at = "loop" => Kind[f.node] = "loop"
                       /\ f.at = "batch" /\ f.num # 0 => Kind[f.node] = "batch"}

\* The call may still go on into A; m is the mode of the innermost call, and
\* "wait" for the others.
Ahead(f, m, A) ==
    IF Caught(f.node, A) THEN f.at # "handling"
    ELSE \/ f.at \in {"enter", "loop", "child"}
         \/ f.at = "try" /\ m = "run"
         \/ f.at \in {"join", "batch"} /\ ~Meets(Successors[f.node]["branch"], A)

Entries(s, A) == {j \in DOMAIN s : s[j] \in A}

Spots(f, m, A) ==
    IF f.at = "list" THEN Entries(f.rest, A)
    ELSE {j \in {0} : f.node \in A /\ Ahead(f, m, A)}

ModeAt(s, i, m) == IF i = Len(s) THEN m ELSE "wait"

SitesOf(s, m, A) ==
    {p \in Nat \X Nat : /\ p[1] \in 1 .. Len(s)
                        /\ p[2] \in Spots(s[p[1]], ModeAt(s, p[1], m), A)}

Sites(A) == [t \in Tasks |-> SitesOf(stack[t], mode[t], A)]

AtMostOne(S) == \A p, q \in S : p = q

Lone(P) == \A t, u \in Tasks : \A p \in P[t], q \in P[u] : t = u /\ p = q
Gone(P) == \A t \in Tasks : P[t] = {}

\* From the sites S of some calls to the sites T of those that take their place.
Passes(S, T) == AtMostOne(S) => AtMostOne(T) /\ (T # {} => S # {})

OnceInv(n, A) ==
    /\ stack \in [Tasks -> Seq(PlacedFrame)]
    /\ Lone(Sites(A))
    /\ ran[n] \in {0, 1}
    /\ ran[n] = 1 => Gone(Sites(A))
    /\ status = "new" => ran[n] = 0 /\ \A t \in Tasks : stack[t] = <<>>

-----------------------------------------------------------------------------
(* What happens to the sites when one coroutine moves *)

LEMMA OneMoves ==
    ASSUME NEW P, NEW Q, NEW t \in Tasks, Lone(P),
           \A c \in Tasks \ {t} : Q[c] \subseteq P[c], Passes(P[t], Q[t])
    PROVE  /\ Lone(Q)
           /\ Gone(P) => Gone(Q)
           /\ P[t] # {} /\ Q[t] = {} => Gone(Q)
<1>1. AtMostOne(P[t]) BY DEF Lone, AtMostOne
<1>2. AtMostOne(Q[t]) /\ (Q[t] # {} => P[t] # {}) BY <1>1 DEF Passes
<1>3. P[t] # {} => \A c \in Tasks \ {t} : P[c] = {} BY DEF Lone
<1>4. ASSUME NEW c \in Tasks, NEW d \in Tasks, NEW p \in Q[c], NEW q \in Q[d]
      PROVE  c = d /\ p = q
      <2>1. CASE c = t /\ d = t BY <1>2, <1>4, <2>1 DEF AtMostOne
      <2>2. CASE c # t /\ d # t BY <1>4, <2>2 DEF Lone
      <2>3. CASE (c = t /\ d # t) \/ (c # t /\ d = t) BY <1>2, <1>3, <1>4, <2>3
      <2> QED BY <2>1, <2>2, <2>3
<1>5. Lone(Q) BY <1>4 DEF Lone
<1>6. Gone(P) => Gone(Q)
      BY <1>2 DEF Gone
<1>7. P[t] # {} /\ Q[t] = {} => Gone(Q) BY <1>3 DEF Gone
<1> QED BY <1>5, <1>6, <1>7

LEMMA AllShrink ==
    ASSUME NEW P, NEW Q, Lone(P), \A c \in Tasks : Q[c] \subseteq P[c]
    PROVE  Lone(Q) /\ (Gone(P) => Gone(Q))
BY DEF Lone, Gone

\* A call that is not innermost, or is not running, waits.
LEMMA Paused ==
    ASSUME NEW f, NEW m, NEW A, m # "run"
    PROVE  Spots(f, m, A) = Spots(f, "wait", A)
BY DEF Spots, Ahead

LEMMA RunsMore ==
    ASSUME NEW f, NEW m, NEW k, NEW A, m # "run"
    PROVE  Spots(f, m, A) \subseteq Spots(f, k, A)
BY DEF Spots, Ahead

LEMMA SpotsType ==
    ASSUME NEW f \in Frame, NEW m, NEW A
    PROVE  Spots(f, m, A) \subseteq Nat
<1>1. f.rest \in Seq(Nodes) BY DEF Frame
<1>2. DOMAIN f.rest = 1 .. Len(f.rest) /\ Len(f.rest) \in Nat BY <1>1, LenProperties
<1> QED BY <1>2 DEF Spots, Entries

\* The sites of a stack: those of the calls below, and those of its last calls.
LEMMA SplitSites ==
    ASSUME NEW b \in Seq(Frame), NEW new \in Seq(Frame), NEW m, NEW A,
           new = <<>> => m # "run", NEW i \in Nat, NEW j \in Nat
    PROVE  <<i, j>> \in SitesOf(b \o new, m, A) <=>
              \/ i \in 1 .. Len(b) /\ j \in Spots(b[i], "wait", A)
              \/ i - Len(b) \in 1 .. Len(new) /\ <<i - Len(b), j>> \in SitesOf(new, m, A)
<1> DEFINE s == b \o new
           k == Len(b)
           l == Len(new)
<1>1. /\ k \in Nat /\ l \in Nat /\ Len(s) = k + l
      /\ \A x \in 1 .. k + l : s[x] = IF x <= k THEN b[x] ELSE new[x - k]
      BY ConcatProperties, LenProperties
<1>2. new = <<>> <=> l = 0 BY EmptySeq
<1>3. <<i, j>> \in SitesOf(s, m, A) <=> i \in 1 .. k + l /\ j \in Spots(s[i], ModeAt(s, i, m), A)
      BY <1>1 DEF SitesOf
<1>4. \A x \in Nat : <<x, j>> \in SitesOf(new, m, A) <=>
          x \in 1 .. l /\ j \in Spots(new[x], ModeAt(new, x, m), A)
      BY DEF SitesOf
<1> HIDE DEF s, k, l
<1>5. CASE i \in 1 .. k
      <2>1. s[i] = b[i] /\ i \in 1 .. k + l /\ ~(i - k \in 1 .. l) BY <1>1, <1>5
      <2>2. i = Len(s) => l = 0 BY <1>1, <1>5
      <2>3. Spots(s[i], ModeAt(s, i, m), A) = Spots(b[i], "wait", A)
            <3>1. CASE i = Len(s)
                  <4>1. m # "run" BY <1>2, <2>2, <3>1
                  <4> QED BY <2>1, <3>1, <4>1, Paused DEF ModeAt
            <3>2. CASE i # Len(s) BY <2>1, <3>2 DEF ModeAt
            <3> QED BY <3>1, <3>2
      <2> QED BY <1>3, <1>5, <2>1, <2>3 DEF s, k, l
<1>6. CASE ~(i \in 1 .. k)
      <2>1. i \in 1 .. k + l <=> i - k \in 1 .. l BY <1>1, <1>6
      <2>2. CASE ~(i - k \in 1 .. l) BY <1>3, <1>6, <2>1, <2>2 DEF s, k, l
      <2>3. CASE i - k \in 1 .. l
            <3>1. s[i] = new[i - k] /\ i - k \in Nat BY <1>1, <1>6, <2>1, <2>3
            <3>2. ModeAt(s, i, m) = ModeAt(new, i - k, m)
                  <4>1. i = Len(s) <=> i - k = l BY <1>1, <2>3
                  <4> QED BY <4>1 DEF ModeAt, l
            <3>3. <<i, j>> \in SitesOf(s, m, A) <=> <<i - k, j>> \in SitesOf(new, m, A)
                  BY <1>3, <1>4, <2>1, <2>3, <3>1, <3>2
            <3> QED BY <1>6, <2>3, <3>3 DEF s, k, l
      <2> QED BY <2>2, <2>3
<1> QED BY <1>5, <1>6

\* The innermost call f is replaced by the calls new.
LEMMA Advance ==
    ASSUME NEW b \in Seq(Frame), NEW f \in Frame, NEW new \in Seq(Frame),
           NEW m, NEW k, NEW A, new = <<>> => m # "run",
           Passes(SitesOf(<<f>>, k, A), SitesOf(new, m, A))
    PROVE  /\ Passes(SitesOf(b \o <<f>>, k, A), SitesOf(b \o new, m, A))
           /\ AtMostOne(SitesOf(b \o <<f>>, k, A)) /\ SitesOf(<<f>>, k, A) # {} =>
                 /\ SitesOf(b \o <<f>>, k, A) # {}
                 /\ SitesOf(new, m, A) = {} => SitesOf(b \o new, m, A) = {}
<1> DEFINE S == SitesOf(b \o <<f>>, k, A)
           T == SitesOf(b \o new, m, A)
           F == SitesOf(<<f>>, k, A)
           N == SitesOf(new, m, A)
           l == Len(b)
           Old(i, j) == i \in 1 .. l /\ j \in Spots(b[i], "wait", A)
<1>1. l \in Nat BY LenProperties
<1>2. <<f>> \in Seq(Frame) /\ <<f>> # <<>> /\ Len(<<f>>) = 1 OBVIOUS
<1>3. /\ S \subseteq Nat \X Nat /\ T \subseteq Nat \X Nat
      /\ F \subseteq Nat \X Nat /\ N \subseteq Nat \X Nat
      /\ \A i, j \in Nat : <<i, j>> \in F => i \in 1 .. Len(<<f>>)
      /\ \A i, j \in Nat : <<i, j>> \in N => i \in 1 .. Len(new)
      BY DEF SitesOf
<1>4. \A i, j \in Nat : <<i, j>> \in S <=>
         Old(i, j) \/ (i - l \in 1 .. Len(<<f>>) /\ <<i - l, j>> \in F)
      BY <1>2, SplitSites
<1>5. \A i, j \in Nat : <<i, j>> \in T <=>
         Old(i, j) \/ (i - l \in 1 .. Len(new) /\ <<i - l, j>> \in N)
      BY SplitSites
<1>6. \A i, j \in Nat : <<i, j>> \in F => <<l + i, j>> \in S
      <2> SUFFICES ASSUME NEW i \in Nat, NEW j \in Nat, <<i, j>> \in F
                   PROVE  <<l + i, j>> \in S
          OBVIOUS
      <2>1. l + i \in Nat /\ (l + i) - l = i BY <1>1
      <2>2. i \in 1 .. Len(<<f>>) BY <1>3
      <2> QED BY <1>4, <2>1, <2>2
<1> HIDE DEF S, T, F, N, Old, l
<1>7. ASSUME AtMostOne(S) PROVE AtMostOne(F)
      <2> SUFFICES ASSUME NEW p \in F, NEW q \in F PROVE p = q
          BY DEF AtMostOne
      <2>1. PICK i \in Nat, j \in Nat : p = <<i, j>> BY <1>3
      <2>2. PICK u \in Nat, v \in Nat : q = <<u, v>> BY <1>3
      <2>3. <<l + i, j>> = <<l + u, v>> BY <1>6, <1>7, <2>1, <2>2 DEF AtMostOne
      <2>4. l + i = l + u /\ j = v BY <2>3
      <2>5. i = u BY <1>1, <2>4
      <2> QED BY <2>1, <2>2, <2>4, <2>5
<1>8. ASSUME F # {} PROVE S # {}
      <2>1. PICK p \in F : TRUE BY <1>8
      <2>2. PICK i \in Nat, j \in Nat : p = <<i, j>> BY <1>3, <2>1
      <2> QED BY <1>6, <2>1, <2>2
<1>9. ASSUME AtMostOne(S), F # {}, NEW i \in Nat, NEW j \in Nat PROVE ~Old(i, j)
      <2>1. PICK p \in F : TRUE BY <1>9
      <2>2. PICK u \in Nat, v \in Nat : p = <<u, v>> BY <1>3, <2>1
      <2>3. <<l + u, v>> \in S /\ u \in 1 .. Len(<<f>>) BY <1>3, <1>6, <2>1, <2>2
      <2>4. Old(i, j) => <<i, j>> \in S /\ i \in 1 .. l BY <1>4 DEF Old
      <2>5. Old(i, j) => <<i, j>> = <<l + u, v>> BY <1>9, <2>3, <2>4 DEF AtMostOne
      <2>6. Old(i, j) => i = l + u BY <2>5
      <2>7. u >= 1 BY <1>2, <2>3
      <2> QED BY <1>1, <2>4, <2>6, <2>7
<1>10. ASSUME AtMostOne(S) PROVE AtMostOne(T) /\ (T # {} => S # {})
      <2>1. AtMostOne(N) /\ (N # {} => F # {})
            BY <1>7, <1>10 DEF Passes, F, N
      <2>2. CASE F = {}
            <3>1. N = {} BY <2>1, <2>2
            <3>2. \A i, j \in Nat : <<i, j>> \in T => <<i, j>> \in S
                  BY <1>4, <1>5, <3>1
            <3>3. T \subseteq S
                  <4> SUFFICES ASSUME NEW p \in T PROVE p \in S OBVIOUS
                  <4>1. PICK i \in Nat, j \in Nat : p = <<i, j>> BY <1>3
                  <4> QED BY <3>2, <4>1
            <3> QED BY <1>10, <3>3 DEF AtMostOne
      <2>3. CASE F # {}
            <3>1. \A i, j \in Nat : ~Old(i, j) BY <1>9, <1>10, <2>3
            <3>2. ASSUME NEW p \in T, NEW q \in T PROVE p = q
                  <4>1. PICK i \in Nat, j \in Nat : p = <<i, j>> BY <1>3, <3>2
                  <4>2. PICK u \in Nat, v \in Nat : q = <<u, v>> BY <1>3, <3>2
                  <4>3. <<i - l, j>> \in N /\ <<u - l, v>> \in N
                        BY <1>5, <3>1, <3>2, <4>1, <4>2
                  <4>4. <<i - l, j>> = <<u - l, v>> BY <2>1, <4>3 DEF AtMostOne
                  <4>5. i - l = u - l /\ j = v BY <4>4
                  <4>6. i = u BY <1>1, <4>5
                  <4> QED BY <4>1, <4>2, <4>5, <4>6
            <3> QED BY <1>8, <2>3, <3>2 DEF AtMostOne
      <2> QED BY <2>2, <2>3
<1>11. ASSUME AtMostOne(S), F # {}, N = {} PROVE T = {}
      <2>1. \A i, j \in Nat : ~Old(i, j) BY <1>9, <1>11
      <2>2. \A i, j \in Nat : <<i, j>> \notin T BY <1>5, <1>11, <2>1
      <2> SUFFICES ASSUME NEW p \in T PROVE FALSE OBVIOUS
      <2>3. PICK i \in Nat, j \in Nat : p = <<i, j>> BY <1>3
      <2> QED BY <2>2, <2>3
<1> QED BY <1>8, <1>10, <1>11 DEF Passes, S, T, F, N

\* The sites of one and of two calls.
LEMMA FewSites ==
    ASSUME NEW x \in Frame, NEW y \in Frame, NEW m, NEW A
    PROVE  /\ \A i, j \in Nat : <<i, j>> \in SitesOf(<<x>>, m, A) <=>
                 i = 1 /\ j \in Spots(x, m, A)
           /\ \A i, j \in Nat : <<i, j>> \in SitesOf(<<x, y>>, m, A) <=>
                 \/ i = 1 /\ j \in Spots(x, "wait", A)
                 \/ i = 2 /\ j \in Spots(y, m, A)
           /\ SitesOf(<<x>>, m, A) \subseteq Nat \X Nat
           /\ SitesOf(<<x, y>>, m, A) \subseteq Nat \X Nat
           /\ SitesOf(<<>>, m, A) = {}
<1>1. ModeAt(<<x>>, 1, m) = m /\ ModeAt(<<x, y>>, 1, m) = "wait" /\ ModeAt(<<x, y>>, 2, m) = m
      BY DEF ModeAt
<1>2. Len(<<x>>) = 1 /\ <<x>>[1] = x /\ 1 .. 1 = {1} OBVIOUS
<1>3. Len(<<x, y>>) = 2 /\ <<x, y>>[1] = x /\ <<x, y>>[2] = y /\ 1 .. 2 = {1, 2} OBVIOUS
<1>4. \A i, j \in Nat : <<i, j>> \in SitesOf(<<x>>, m, A) <=> i = 1 /\ j \in Spots(x, m, A)
      BY <1>1, <1>2 DEF SitesOf
<1>5. \A i, j \in Nat : <<i, j>> \in SitesOf(<<x, y>>, m, A) <=>
                 \/ i = 1 /\ j \in Spots(x, "wait", A)
                 \/ i = 2 /\ j \in Spots(y, m, A)
      BY <1>1, <1>3 DEF SitesOf
<1>6. SitesOf(<<>>, m, A) = {}
      <2>1. Len(<<>>) = 0 /\ 1 .. 0 = {} BY EmptySeq
      <2> QED BY <2>1 DEF SitesOf
<1> QED BY <1>4, <1>5, <1>6 DEF SitesOf

\* A call that moves on: its spots come from its spots before.
LEMMA PassOne ==
    ASSUME NEW f \in Frame, NEW x \in Frame, NEW k, NEW m, NEW A,
           AtMostOne(Spots(x, m, A)), Spots(x, m, A) # {} => Spots(f, k, A) # {}
    PROVE  /\ Passes(SitesOf(<<f>>, k, A), SitesOf(<<x>>, m, A))
           /\ Spots(f, k, A) # {} => SitesOf(<<f>>, k, A) # {}
           /\ Spots(x, m, A) = {} => SitesOf(<<x>>, m, A) = {}
<1> DEFINE F == SitesOf(<<f>>, k, A)
           N == SitesOf(<<x>>, m, A)
           P == Spots(f, k, A)
           Q == Spots(x, m, A)
<1>1. /\ \A i, j \in Nat : <<i, j>> \in F <=> i = 1 /\ j \in P
      /\ \A i, j \in Nat : <<i, j>> \in N <=> i = 1 /\ j \in Q
      /\ F \subseteq Nat \X Nat /\ N \subseteq Nat \X Nat
      BY FewSites
<1>2. P \subseteq Nat /\ Q \subseteq Nat BY SpotsType
<1> HIDE DEF F, N, P, Q
<1>3. P # {} => F # {} BY <1>1, <1>2
<1>4. ASSUME NEW p \in N PROVE \E j \in Q : p = <<1, j>>
      <2>1. PICK i \in Nat, j \in Nat : p = <<i, j>> BY <1>1, <1>4
      <2> QED BY <1>1, <1>4, <2>1
<1>5. AtMostOne(N)
      <2> SUFFICES ASSUME NEW p \in N, NEW q \in N PROVE p = q BY DEF AtMostOne
      <2>1. PICK i \in Q : p = <<1, i>> BY <1>4
      <2>2. PICK j \in Q : q = <<1, j>> BY <1>4
      <2>3. i = j BY DEF AtMostOne, Q
      <2> QED BY <2>1, <2>2, <2>3
<1>6. N # {} => Q # {} BY <1>4
<1>7. Q # {} => P # {} BY DEF P, Q
<1> QED BY <1>3, <1>5, <1>6, <1>7 DEF Passes, F, N, P, Q

\* A call x that makes another one, y; at most one of them has the site.
LEMMA PassTwo ==
    ASSUME NEW f \in Frame, NEW x \in Frame, NEW y \in Frame, NEW k, NEW m, NEW A,
           AtMostOne(Spots(f, k, A)) =>
              /\ AtMostOne(Spots(x, "wait", A)) /\ AtMostOne(Spots(y, m, A))
              /\ Spots(x, "wait", A) = {} \/ Spots(y, m, A) = {},
           Spots(x, "wait", A) # {} \/ Spots(y, m, A) # {} => Spots(f, k, A) # {}
    PROVE  /\ Passes(SitesOf(<<f>>, k, A), SitesOf(<<x, y>>, m, A))
           /\ Spots(x, "wait", A) = {} /\ Spots(y, m, A) = {} => SitesOf(<<x, y>>, m, A) = {}
<1> DEFINE F == SitesOf(<<f>>, k, A)
           N == SitesOf(<<x, y>>, m, A)
           P == Spots(f, k, A)
           Q == Spots(x, "wait", A)
           R == Spots(y, m, A)
<1>1. /\ \A i, j \in Nat : <<i, j>> \in F <=> i = 1 /\ j \in P
      /\ \A i, j \in Nat : <<i, j>> \in N <=> (i = 1 /\ j \in Q) \/ (i = 2 /\ j \in R)
      /\ F \subseteq Nat \X Nat /\ N \subseteq Nat \X Nat
      BY FewSites
<1>2. P \subseteq Nat /\ Q \subseteq Nat /\ R \subseteq Nat BY SpotsType
<1> HIDE DEF F, N, P, Q, R
<1>3. P # {} => F # {} BY <1>1, <1>2
<1>4. ASSUME NEW p \in N PROVE (\E j \in Q : p = <<1, j>>) \/ (\E j \in R : p = <<2, j>>)
      <2>1. PICK i \in Nat, j \in Nat : p = <<i, j>> BY <1>1, <1>4
      <2> QED BY <1>1, <1>4, <2>1
<1>5. AtMostOne(F) => AtMostOne(P)
      <2> SUFFICES ASSUME AtMostOne(F), NEW i \in P, NEW j \in P PROVE i = j BY DEF AtMostOne
      <2>1. <<1, i>> \in F /\ <<1, j>> \in F BY <1>1, <1>2
      <2>2. <<1, i>> = <<1, j>> BY <2>1 DEF AtMostOne
      <2> QED BY <2>2
<1>6. ASSUME AtMostOne(F) PROVE AtMostOne(N)
      <2>1. AtMostOne(Q) /\ AtMostOne(R) BY <1>5, <1>6 DEF P, Q, R
      <2>2. Q = {} \/ R = {} BY <1>5, <1>6 DEF P, Q, R
      <2> SUFFICES ASSUME NEW p \in N, NEW q \in N PROVE p = q BY DEF AtMostOne
      <2>3. CASE Q = {}
            <3>1. PICK i \in R : p = <<2, i>> BY <1>4, <2>3
            <3>2. PICK j \in R : q = <<2, j>> BY <1>4, <2>3
            <3> QED BY <2>1, <3>1, <3>2 DEF AtMostOne
      <2>4. CASE R = {}
            <3>1. PICK i \in Q : p = <<1, i>> BY <1>4, <2>4
            <3>2. PICK j \in Q : q = <<1, j>> BY <1>4, <2>4
            <3> QED BY <2>1, <3>1, <3>2 DEF AtMostOne
      <2> QED BY <2>2, <2>3, <2>4
<1>7. N # {} => Q # {} \/ R # {} BY <1>4
<1>8. Q # {} \/ R # {} => P # {} BY DEF P, Q, R
<1> QED BY <1>3, <1>6, <1>7, <1>8 DEF Passes, F, N, P, Q, R

-----------------------------------------------------------------------------
(* Steps inside one coroutine *)

LEMMA FrontAndLast ==
    ASSUME NEW S, NEW s \in Seq(S), s # <<>>
    PROVE  s = Front(s) \o <<Last(s)>>
<1> DEFINE x == Last(s)
           b == Front(s)
           r == b \o <<x>>
<1>1. /\ Len(s) \in Nat \ {0} /\ x = s[Len(s)] /\ x \in S
      /\ b \in Seq(S) /\ Len(b) = Len(s) - 1
      /\ \A i \in 1 .. Len(s) - 1 : b[i] = s[i]
      BY LastOfSeq, PopFrame
<1> HIDE DEF x, b
<1>2. <<x>> \in Seq(S) /\ Len(<<x>>) = 1 /\ <<x>>[1] = x BY <1>1
<1>3. /\ r \in Seq(S) /\ Len(r) = Len(b) + Len(<<x>>)
      /\ \A i \in 1 .. Len(b) + Len(<<x>>) : r[i] = IF i <= Len(b) THEN b[i] ELSE <<x>>[i - Len(b)]
      BY <1>1, <1>2, ConcatProperties
<1> HIDE DEF r
<1>4. Len(r) = Len(s) BY <1>1, <1>2, <1>3
<1>5. ASSUME NEW i \in 1 .. Len(s) PROVE s[i] = r[i]
      <2>1. r[i] = IF i <= Len(b) THEN b[i] ELSE <<x>>[i - Len(b)] BY <1>3, <1>4
      <2>2. CASE i <= Len(s) - 1
            <3>1. i \in 1 .. Len(s) - 1 BY <1>1, <2>2
            <3> QED BY <1>1, <2>1, <2>2, <3>1
      <2>3. CASE i = Len(s)
            <3>1. ~(i <= Len(b)) /\ i - Len(b) = 1 BY <1>1, <2>3
            <3> QED BY <1>1, <1>2, <2>1, <2>3, <3>1
      <2> QED BY <1>1, <2>2, <2>3
<1> QED BY <1>3, <1>4, <1>5, SeqEqual DEF r, b, x

\* t's innermost call becomes new, and the site is passed on or ended.
AdvancesBy(t, new, m, A) ==
    /\ new = <<>> => m # "run"
    /\ stack'[t] = Below(t) \o new
    /\ mode'[t] = m
    /\ Passes(SitesOf(<<Top(t)>>, mode[t], A), SitesOf(new, m, A))

\* The other coroutines get no new sites.
OthersKeep(t, A) ==
    /\ stack' = [c \in Tasks |-> stack'[c]]
    /\ \A c \in Tasks \ {t} :
          /\ stack'[c] \in Seq(PlacedFrame)
          /\ SitesOf(stack'[c], mode'[c], A) \subseteq SitesOf(stack[c], mode[c], A)

Advances(t, A) == \E new \in Seq(PlacedFrame) : \E m : AdvancesBy(t, new, m, A)

\* t advances and no site is left in its innermost call.
Exhausts(t, A) ==
    \E new \in Seq(PlacedFrame) : \E m :
        AdvancesBy(t, new, m, A) /\ SitesOf(new, m, A) = {}

Moved(A) ==
    /\ stack' \in [Tasks -> Seq(PlacedFrame)]
    /\ Lone(Sites(A)')
    /\ Gone(Sites(A)) => Gone(Sites(A)')

LEMMA PlacedTop ==
    ASSUME NEW n, NEW A, OnceInv(n, A), NEW t \in Tasks, stack[t] # <<>>
    PROVE  /\ stack[t] \in Seq(PlacedFrame) /\ Below(t) \in Seq(PlacedFrame)
           /\ Top(t) \in PlacedFrame /\ Top(t) \in GoodFrame /\ Top(t) \in Frame
           /\ Top(t).at # "list" => Top(t).node \in Nodes
<1>1. stack[t] \in Seq(PlacedFrame) BY DEF OnceInv
<1>2. Top(t) \in PlacedFrame /\ Below(t) \in Seq(PlacedFrame)
      BY <1>1, LastOfSeq, PopFrame DEF Top, Below
<1> QED BY <1>1, <1>2 DEF PlacedFrame, GoodFrame

LEMMA AdvanceKeeps ==
    ASSUME NEW n, NEW A, OnceInv(n, A), NEW t \in Tasks, stack[t] # <<>>,
           NEW new \in Seq(PlacedFrame), NEW m, AdvancesBy(t, new, m, A), OthersKeep(t, A)
    PROVE  /\ Moved(A)
           /\ SitesOf(<<Top(t)>>, mode[t], A) # {} =>
                 /\ ~Gone(Sites(A))
                 /\ SitesOf(new, m, A) = {} => Gone(Sites(A)')
<1> DEFINE P == Sites(A)
           Q == [c \in Tasks |-> SitesOf(stack'[c], mode'[c], A)]
           b == Below(t)
           f == Top(t)
           k == mode[t]
<1>1. Lone(P) BY DEF OnceInv
<1>2. \A c \in Tasks : P[c] = SitesOf(stack[c], mode[c], A) BY DEF Sites
<1>3. Sites(A)' = Q BY DEF Sites
<1>4. \A c \in Tasks \ {t} : Q[c] \subseteq P[c] BY <1>2 DEF OthersKeep
<1>5. b \in Seq(PlacedFrame) /\ f \in Frame /\ stack[t] = b \o <<f>>
      BY PlacedTop, FrontAndLast DEF Top, Below
<1>6. b \in Seq(Frame) /\ new \in Seq(Frame)
      <2>1. PlacedFrame \subseteq Frame BY DEF PlacedFrame, GoodFrame
      <2> QED BY <1>5, <2>1, SeqMonotonic
<1>7. P[t] = SitesOf(b \o <<f>>, k, A) /\ Q[t] = SitesOf(b \o new, m, A)
      BY <1>2, <1>5 DEF AdvancesBy
<1>8. Passes(SitesOf(<<f>>, k, A), SitesOf(new, m, A)) /\ (new = <<>> => m # "run")
      BY DEF AdvancesBy
<1> HIDE DEF P, Q, b, f, k
<1>9. /\ Passes(P[t], Q[t])
      /\ AtMostOne(P[t]) /\ SitesOf(<<f>>, k, A) # {} =>
            P[t] # {} /\ (SitesOf(new, m, A) = {} => Q[t] = {})
      BY <1>5, <1>6, <1>7, <1>8, Advance
<1>10. AtMostOne(P[t]) BY <1>1 DEF Lone, AtMostOne
<1>11. Lone(Q) /\ (Gone(P) => Gone(Q)) /\ (P[t] # {} /\ Q[t] = {} => Gone(Q))
      BY <1>1, <1>4, <1>9, OneMoves
<1>12. stack' \in [Tasks -> Seq(PlacedFrame)]
      <2>1. stack'[t] = b \o new BY DEF AdvancesBy, b
      <2>2. b \o new \in Seq(PlacedFrame) BY <1>5, ConcatProperties
      <2>3. \A c \in Tasks : stack'[c] \in Seq(PlacedFrame)
            BY <2>1, <2>2 DEF OthersKeep
      <2> QED BY <2>3 DEF OthersKeep
<1>13. Moved(A) BY <1>3, <1>11, <1>12 DEF Moved, P
<1>14. P[t] # {} => ~Gone(P) BY DEF Gone
<1> QED BY <1>3, <1>9, <1>10, <1>11, <1>13, <1>14 DEF P, f, k

LEMMA AdvanceMoves ==
    ASSUME NEW n, NEW A, OnceInv(n, A), NEW t \in Tasks, stack[t] # <<>>,
           Advances(t, A), OthersKeep(t, A)
    PROVE  Moved(A)
BY AdvanceKeeps DEF Advances

LEMMA ExhaustEnds ==
    ASSUME NEW n, NEW A, OnceInv(n, A), NEW t \in Tasks, stack[t] # <<>>,
           SitesOf(<<Top(t)>>, mode[t], A) # {}, Exhausts(t, A), OthersKeep(t, A)
    PROVE  /\ stack' \in [Tasks -> Seq(PlacedFrame)]
           /\ ~Gone(Sites(A)) /\ Gone(Sites(A)') /\ Lone(Sites(A)')
BY AdvanceKeeps DEF Exhausts, Moved

\* A step of the innermost call leaves the other coroutines alone.
LEMMA ContinueOthers ==
    ASSUME NEW n, NEW A, IInv, OnceInv(n, A), NEW t \in Tasks, NEW s, NEW m, Continue(t, s, m)
    PROVE  OthersKeep(t, A) /\ stack'[t] = s /\ mode'[t] = m
<1>1. stack \in [Tasks -> Seq(PlacedFrame)] /\ DOMAIN mode = Tasks
      BY DEF OnceInv, IInv, TypeOK
<1> QED BY <1>1 DEF Continue, OthersKeep

\* The call returns or raises to its caller.
LEMMA PopAdvances ==
    ASSUME NEW n, NEW A, IInv, OnceInv(n, A), NEW t \in Tasks, stack[t] # <<>>,
           NEW m, m # "run", Continue(t, Below(t), m)
    PROVE  Exhausts(t, A) /\ Advances(t, A) /\ OthersKeep(t, A)
<1>1. OthersKeep(t, A) /\ stack'[t] = Below(t) /\ mode'[t] = m BY ContinueOthers
<1>2. Below(t) \o <<>> = Below(t) /\ <<>> \in Seq(PlacedFrame)
      BY PlacedTop, ConcatEmptySeq, EmptySeq
<1>3. SitesOf(<<>>, m, A) = {} BY PlacedTop, FewSites
<1>4. AdvancesBy(t, <<>>, m, A)
      BY <1>1, <1>2, <1>3 DEF AdvancesBy, Passes, AtMostOne
<1> QED BY <1>1, <1>2, <1>3, <1>4 DEF Exhausts, Advances

\* The call of a node has one spot at most.
LEMMA NodeSpots ==
    ASSUME NEW f, f.at # "list", NEW m, NEW A
    PROVE  /\ AtMostOne(Spots(f, m, A))
           /\ Spots(f, m, A) # {} <=> f.node \in A /\ Ahead(f, m, A)
BY DEF Spots, AtMostOne

\* The call goes on as x.
LEMMA ReplaceAdvances ==
    ASSUME NEW n, NEW A, IInv, OnceInv(n, A), NEW t \in Tasks, stack[t] # <<>>,
           NEW x \in PlacedFrame, NEW m, Continue(t, Append(Below(t), x), m), x.at # "list",
           Spots(x, m, A) # {} => Spots(Top(t), mode[t], A) # {}
    PROVE  /\ Advances(t, A) /\ OthersKeep(t, A)
           /\ Spots(x, m, A) = {} => Exhausts(t, A)
<1>1. OthersKeep(t, A) /\ stack'[t] = Append(Below(t), x) /\ mode'[t] = m BY ContinueOthers
<1>2. Append(Below(t), x) = Below(t) \o <<x>>
      BY PlacedTop, AppendIsConcat
<1>3. <<x>> \in Seq(PlacedFrame) /\ <<x>> # <<>> OBVIOUS
<1>4. x \in Frame /\ AtMostOne(Spots(x, m, A)) BY NodeSpots DEF PlacedFrame, GoodFrame
<1>5. /\ Passes(SitesOf(<<Top(t)>>, mode[t], A), SitesOf(<<x>>, m, A))
      /\ Spots(x, m, A) = {} => SitesOf(<<x>>, m, A) = {}
      BY <1>4, PlacedTop, PassOne
<1>6. AdvancesBy(t, <<x>>, m, A) BY <1>1, <1>2, <1>3, <1>5 DEF AdvancesBy
<1> QED BY <1>1, <1>3, <1>5, <1>6 DEF Exhausts, Advances

\* The call goes on as x, which calls y.
LEMMA PushAdvances ==
    ASSUME NEW n, NEW A, IInv, OnceInv(n, A), NEW t \in Tasks, stack[t] # <<>>,
           NEW x \in PlacedFrame, NEW y \in PlacedFrame,
           Continue(t, Below(t) \o <<x, y>>, "run"),
           AtMostOne(Spots(Top(t), mode[t], A)) =>
              /\ AtMostOne(Spots(x, "wait", A)) /\ AtMostOne(Spots(y, "run", A))
              /\ Spots(x, "wait", A) = {} \/ Spots(y, "run", A) = {},
           Spots(x, "wait", A) # {} \/ Spots(y, "run", A) # {} => Spots(Top(t), mode[t], A) # {}
    PROVE  /\ Advances(t, A) /\ OthersKeep(t, A)
           /\ Spots(x, "wait", A) = {} /\ Spots(y, "run", A) = {} => Exhausts(t, A)
<1>1. OthersKeep(t, A) /\ stack'[t] = Below(t) \o <<x, y>> /\ mode'[t] = "run"
      BY ContinueOthers
<1>2. <<x, y>> \in Seq(PlacedFrame) /\ <<x, y>> # <<>> OBVIOUS
<1>3. x \in Frame /\ y \in Frame BY DEF PlacedFrame, GoodFrame
<1>4. /\ Passes(SitesOf(<<Top(t)>>, mode[t], A), SitesOf(<<x, y>>, "run", A))
      /\ Spots(x, "wait", A) = {} /\ Spots(y, "run", A) = {} => SitesOf(<<x, y>>, "run", A) = {}
      BY <1>3, PlacedTop, PassTwo
<1>5. AdvancesBy(t, <<x, y>>, "run", A) BY <1>1, <1>2, <1>4 DEF AdvancesBy
<1> QED BY <1>1, <1>2, <1>4, <1>5 DEF Exhausts, Advances

\* The frame f at another place, with another counter.
Put(f, place, num) == [f EXCEPT !.at = place, !.num = num]

\* A frame at another place is placed when the place fits its node.
LEMMA PlacedMove ==
    ASSUME NEW f \in PlacedFrame, f.node \in Nodes,
           NEW place \in Places \ {"child"}, NEW num \in Nat,
           place \in {"retry", "retrysucc"} => OnError[f.node] = "retry",
           place = "loop" => Kind[f.node] = "loop",
           place = "batch" /\ num # 0 => Kind[f.node] = "batch"
    PROVE  /\ Put(f, place, num) \in PlacedFrame
           /\ Put(f, place, num).at = place /\ Put(f, place, num).node = f.node
<1> DEFINE x == Put(f, place, num)
<1>1. f \in GoodFrame /\ f \in Frame /\ Root \in Range(f.chain) BY DEF PlacedFrame, GoodFrame
<1>2. x \in GoodFrame BY <1>1, MovedFrame DEF Put
<1>3. x.at = place /\ x.node = f.node /\ x.num = num /\ x.chain = f.chain
      BY <1>1 DEF Frame, Put
<1> HIDE DEF x
<1>4. x \in PlacedFrame BY <1>1, <1>2, <1>3 DEF PlacedFrame
<1> QED BY <1>3, <1>4 DEF x

\* The frames of new calls and their spots.
LEMMA NewPlaced ==
    ASSUME NEW chain \in Seq(Workflows), IsInjective(chain), Root \in Range(chain),
           NEW depth \in Nat
    PROVE  /\ \A nodes \in Seq(Nodes) : ListFrame(nodes, depth, chain) \in PlacedFrame
           /\ \A k \in Nodes : NodeFrame(k, depth, chain) \in PlacedFrame
<1>1. ASSUME NEW nodes \in Seq(Nodes) PROVE ListFrame(nodes, depth, chain) \in PlacedFrame
      <2> DEFINE f == ListFrame(nodes, depth, chain)
      <2>1. f \in GoodFrame BY NewFrames
      <2>2. f.at = "list" /\ f.chain = chain BY DEF ListFrame
      <2> HIDE DEF f
      <2>3. f \in PlacedFrame BY <2>1, <2>2 DEF PlacedFrame
      <2> QED BY <2>3 DEF f
<1>2. ASSUME NEW k \in Nodes PROVE NodeFrame(k, depth, chain) \in PlacedFrame
      <2> DEFINE f == NodeFrame(k, depth, chain)
      <2>1. f \in GoodFrame BY NewFrames
      <2>2. f.at = "enter" /\ f.chain = chain BY DEF NodeFrame
      <2> HIDE DEF f
      <2>3. f \in PlacedFrame BY <2>1, <2>2 DEF PlacedFrame
      <2> QED BY <2>3 DEF f
<1> QED BY <1>1, <1>2

LEMMA ListSpots ==
    ASSUME NEW nodes, NEW depth, NEW chain, NEW m, NEW A
    PROVE  Spots(ListFrame(nodes, depth, chain), m, A) = Entries(nodes, A)
BY DEF Spots, ListFrame

LEMMA EnterSpots ==
    ASSUME NEW k, NEW depth, NEW chain, NEW m, NEW A
    PROVE  /\ NodeFrame(k, depth, chain).at # "list"
           /\ Spots(NodeFrame(k, depth, chain), m, A) # {} <=> k \in A
<1> DEFINE f == NodeFrame(k, depth, chain)
<1>1. f.at = "enter" /\ f.node = k BY DEF NodeFrame
<1> HIDE DEF f
<1>2. Ahead(f, m, A) BY <1>1 DEF Ahead
<1> QED BY <1>1, <1>2, NodeSpots DEF f

\* await self._execute_nodes(nodes) from a call that goes on as x.
LEMMA CallAdvances ==
    ASSUME NEW n, NEW A, IInv, OnceInv(n, A), NEW t \in Tasks, stack[t] # <<>>,
           NEW nodes \in Seq(Nodes), NEW place \in Places \ {"child", "list"}, NEW num \in Nat,
           CallNodes(t, nodes, place, num), NEW x \in PlacedFrame,
           x = Put(Top(t), place, num), x.at = place,
           Sole(nodes, A), Meets(nodes, A) => Spots(x, "wait", A) = {},
           Meets(nodes, A) \/ Spots(x, "wait", A) # {} => Spots(Top(t), mode[t], A) # {}
    PROVE  /\ Advances(t, A) /\ OthersKeep(t, A)
           /\ ~Meets(nodes, A) /\ Spots(x, "wait", A) = {} => Exhausts(t, A)
<1> DEFINE y == ListFrame(nodes, x.depth + 1, x.chain)
<1>1. x.at # "list" /\ AtMostOne(Spots(x, "wait", A)) BY NodeSpots
<1>2. CASE nodes = <<>>
      <2>1. Continue(t, Below(t), "ret") BY <1>2 DEF CallNodes, Return
      <2> QED BY <2>1, PopAdvances
<1>3. CASE nodes # <<>> /\ x.depth + 1 > MaxDepth
      <2>1. Continue(t, Append(Below(t), x), "raise") BY <1>3 DEF CallNodes, Put
      <2>2. Spots(x, "raise", A) = Spots(x, "wait", A) BY Paused
      <2> QED BY <1>1, <2>1, <2>2, ReplaceAdvances
<1>4. CASE nodes # <<>> /\ ~(x.depth + 1 > MaxDepth)
      <2>1. Continue(t, Below(t) \o <<x, y>>, "run") BY <1>4 DEF CallNodes, Put
      <2>2. /\ x.depth + 1 \in Nat /\ x.chain \in Seq(Workflows) /\ IsInjective(x.chain)
            /\ Root \in Range(x.chain)
            <3>1. x \in GoodFrame /\ Root \in Range(x.chain) BY Zenon DEF PlacedFrame
            <3>2. x \in Frame /\ IsInjective(x.chain) BY <3>1, Zenon DEF GoodFrame
            <3>3. \A f \in Frame : f.depth + 1 \in Nat /\ f.chain \in Seq(Workflows)
                  BY DEF Frame
            <3> QED BY <3>1, <3>2, <3>3, Zenon
      <2>3. y \in PlacedFrame BY <2>2, NewPlaced
      <2>4. Spots(y, "run", A) = Entries(nodes, A) BY ListSpots
      <2> HIDE DEF y
      <2>5. AtMostOne(Spots(y, "run", A)) BY <2>4 DEF Sole, AtMostOne, Entries
      <2>6. Spots(y, "run", A) # {} <=> Meets(nodes, A) BY <2>4 DEF Meets, Entries
      <2> QED BY <1>1, <2>1, <2>3, <2>5, <2>6, PushAdvances
<1> QED BY <1>2, <1>3, <1>4

-----------------------------------------------------------------------------
(* The way through the graph *)

LEMMA ConcatMeets ==
    ASSUME NEW A, NEW s \in Seq(Nodes), NEW r \in Seq(Nodes)
    PROVE  /\ s \o r \in Seq(Nodes)
           /\ Meets(s \o r, A) <=> Meets(s, A) \/ Meets(r, A)
           /\ Sole(s, A) /\ Sole(r, A) /\ ~(Meets(s, A) /\ Meets(r, A)) => Sole(s \o r, A)
<1> DEFINE c == s \o r
           k == Len(s)
           l == Len(r)
<1>1. /\ c \in Seq(Nodes) /\ Len(c) = k + l
      /\ \A i \in 1 .. k + l : c[i] = IF i <= k THEN s[i] ELSE r[i - k]
      BY ConcatProperties
<1>2. /\ k \in Nat /\ l \in Nat /\ DOMAIN s = 1 .. k /\ DOMAIN r = 1 .. l
      /\ DOMAIN c = 1 .. k + l
      BY <1>1, LenProperties
<1> HIDE DEF c, k, l
<1>3. \A i \in 1 .. k : i \in 1 .. k + l /\ c[i] = s[i] BY <1>1, <1>2
<1>4. \A i \in 1 .. l : k + i \in 1 .. k + l /\ c[k + i] = r[i]
      <2> SUFFICES ASSUME NEW i \in 1 .. l PROVE k + i \in 1 .. k + l /\ c[k + i] = r[i]
          OBVIOUS
      <2>1. k + i \in 1 .. k + l /\ ~(k + i <= k) /\ (k + i) - k = i BY <1>2
      <2> QED BY <1>1, <2>1
<1>5. \A i \in 1 .. k + l : (i \in 1 .. k /\ c[i] = s[i]) \/ (i - k \in 1 .. l /\ c[i] = r[i - k])
      BY <1>1, <1>2
<1>6. Meets(c, A) <=> Meets(s, A) \/ Meets(r, A)
      <2>1. ASSUME Meets(c, A) PROVE Meets(s, A) \/ Meets(r, A)
            BY <1>2, <1>5, <2>1 DEF Meets
      <2>2. ASSUME Meets(s, A) PROVE Meets(c, A) BY <1>2, <1>3, <2>2 DEF Meets
      <2>3. ASSUME Meets(r, A) PROVE Meets(c, A) BY <1>2, <1>4, <2>3 DEF Meets
      <2> QED BY <2>1, <2>2, <2>3
<1>7. ASSUME Sole(s, A), Sole(r, A), ~(Meets(s, A) /\ Meets(r, A)) PROVE Sole(c, A)
      <2> SUFFICES ASSUME NEW i \in 1 .. k + l, NEW j \in 1 .. k + l, c[i] \in A, c[j] \in A
                   PROVE  i = j
          BY <1>2 DEF Sole
      <2>1. CASE i \in 1 .. k /\ c[i] = s[i] /\ j \in 1 .. k /\ c[j] = s[j]
            BY <1>2, <1>7, <2>1 DEF Sole
      <2>2. CASE i - k \in 1 .. l /\ c[i] = r[i - k] /\ j - k \in 1 .. l /\ c[j] = r[j - k]
            <3>1. i - k = j - k BY <1>2, <1>7, <2>2 DEF Sole
            <3> QED BY <1>2, <3>1
      <2>3. CASE i \in 1 .. k /\ c[i] = s[i] /\ j - k \in 1 .. l /\ c[j] = r[j - k]
            BY <1>2, <1>7, <2>3 DEF Meets
      <2>4. CASE i - k \in 1 .. l /\ c[i] = r[i - k] /\ j \in 1 .. k /\ c[j] = s[j]
            BY <1>2, <1>7, <2>4 DEF Meets
      <2> QED BY <1>5, <2>1, <2>2, <2>3, <2>4
<1> QED BY <1>1, <1>6, <1>7 DEF c

\* The edges of a node lead into A by one handle, and by one edge of it.
LEMMA AllWays ==
    ASSUME NEW n, NEW A, OneWay(n, A), NEW m \in Nodes
    PROVE  /\ Sole(AllSuccessors(m), A)
           /\ Meets(AllSuccessors(m), A) =>
                 \E h \in Handles : Meets(Successors[m][h], A)
<1> DEFINE s == Successors[m]
<1>1. \A h \in Handles : s[h] \in Seq(Nodes) /\ Sole(s[h], A)
      BY SuccessorsType DEF OneWay
<1>2. \A h, k \in Handles : Meets(s[h], A) /\ Meets(s[k], A) => k = h BY DEF OneWay
<1> HIDE DEF s
<1>3. /\ s["default"] \in Seq(Nodes) /\ s["true"] \in Seq(Nodes) /\ s["false"] \in Seq(Nodes)
      /\ s["branch"] \in Seq(Nodes) /\ s["body"] \in Seq(Nodes) /\ s["done"] \in Seq(Nodes)
      /\ Sole(s["default"], A) /\ Sole(s["true"], A) /\ Sole(s["false"], A)
      /\ Sole(s["branch"], A) /\ Sole(s["body"], A) /\ Sole(s["done"], A)
      BY <1>1 DEF Handles
<1> DEFINE s2 == s["default"] \o s["true"]
           s3 == s2 \o s["false"]
           s4 == s3 \o s["branch"]
           s5 == s4 \o s["body"]
           s6 == s5 \o s["done"]
<1>4. /\ s2 \in Seq(Nodes) /\ Sole(s2, A)
      /\ Meets(s2, A) => \E h \in {"default", "true"} : Meets(s[h], A)
      <2>1. ~(Meets(s["default"], A) /\ Meets(s["true"], A)) BY <1>2 DEF Handles
      <2> QED BY <1>3, <2>1, ConcatMeets
<1> HIDE DEF s2
<1>5. /\ s3 \in Seq(Nodes) /\ Sole(s3, A)
      /\ Meets(s3, A) => \E h \in {"default", "true", "false"} : Meets(s[h], A)
      <2>1. ~(Meets(s2, A) /\ Meets(s["false"], A)) BY <1>2, <1>4 DEF Handles
      <2> QED BY <1>3, <1>4, <2>1, ConcatMeets
<1> HIDE DEF s3
<1>6. /\ s4 \in Seq(Nodes) /\ Sole(s4, A)
      /\ Meets(s4, A) => \E h \in {"default", "true", "false", "branch"} : Meets(s[h], A)
      <2>1. ~(Meets(s3, A) /\ Meets(s["branch"], A)) BY <1>2, <1>5 DEF Handles
      <2> QED BY <1>3, <1>5, <2>1, ConcatMeets
<1> HIDE DEF s4
<1>7. /\ s5 \in Seq(Nodes) /\ Sole(s5, A)
      /\ Meets(s5, A) => \E h \in {"default", "true", "false", "branch", "body"} : Meets(s[h], A)
      <2>1. ~(Meets(s4, A) /\ Meets(s["body"], A)) BY <1>2, <1>6 DEF Handles
      <2> QED BY <1>3, <1>6, <2>1, ConcatMeets
<1> HIDE DEF s5
<1>8. /\ Sole(s6, A)
      /\ Meets(s6, A) => \E h \in Handles : Meets(s[h], A)
      <2>1. ~(Meets(s5, A) /\ Meets(s["done"], A)) BY <1>2, <1>7 DEF Handles
      <2> QED BY <1>3, <1>7, <2>1, ConcatMeets DEF Handles
<1>9. AllSuccessors(m) = s6 BY DEF AllSuccessors, s, s2, s3, s4, s5, s6
<1> QED BY <1>8, <1>9 DEF s

\* What leads into A is in A, is not caught by A and has no other policy.
LEMMA WayFacts ==
    ASSUME NEW n, NEW A, OneWay(n, A), NEW m \in Nodes
    PROVE  /\ Caught(m, A) => m \in A
           /\ Meets(AllSuccessors(m), A) => m \in A /\ ~Caught(m, A)
           /\ \A h \in Handles : Meets(Successors[m][h], A) => m \in A /\ ~Caught(m, A)
           /\ m \in A => OnError[m] \notin {"retry", "continue"}
           /\ m = n => ~Caught(m, A) /\ ~Meets(AllSuccessors(m), A)
                       /\ \A h \in Handles : ~Meets(Successors[m][h], A)
<1>1. Leads(m, A) => m \in A BY DEF OneWay
<1>2. \A h \in Handles : Meets(Successors[m][h], A) => Leads(m, A) /\ ~Caught(m, A)
      BY DEF OneWay, Leads
<1>3. Caught(m, A) => Leads(m, A) BY DEF Leads
<1>4. m = n => ~Leads(m, A) BY DEF OneWay
<1>5. m \in A => OnError[m] \notin {"retry", "continue"} BY DEF OneWay
<1>6. Meets(AllSuccessors(m), A) => \E h \in Handles : Meets(Successors[m][h], A)
      BY AllWays
<1> QED BY <1>1, <1>2, <1>3, <1>4, <1>5, <1>6

-----------------------------------------------------------------------------
(* Each step of a coroutine *)

\* The call of a node moves to a place that is ahead only if it was.
LEMMA MoveAdvances ==
    ASSUME NEW n, NEW A, IInv, OnceInv(n, A), NEW t \in Tasks, stack[t] # <<>>,
           Top(t).at # "list",
           NEW x \in PlacedFrame, x.at # "list", x.node = Top(t).node,
           NEW m, Continue(t, Append(Below(t), x), m),
           x.node \in A /\ Ahead(x, m, A) => Ahead(Top(t), mode[t], A)
    PROVE  Advances(t, A) /\ OthersKeep(t, A)
<1>1. Spots(x, m, A) # {} => Spots(Top(t), mode[t], A) # {} BY NodeSpots
<1> QED BY <1>1, ReplaceAdvances

\* An exception inside the try block.
LEMMA FaultAdvances ==
    ASSUME NEW n, NEW A, IInv, OnceInv(n, A), NEW t \in Tasks, stack[t] # <<>>,
           Top(t).at # "list", RaiseHere(t)
    PROVE  /\ Advances(t, A) /\ OthersKeep(t, A)
           /\ Spots(Top(t), "raise", A) = {} => Exhausts(t, A)
<1>1. Top(t) \in PlacedFrame /\ stack[t] = Append(Below(t), Top(t))
      <2>1. stack[t] = Below(t) \o <<Top(t)>> BY PlacedTop, FrontAndLast DEF Top, Below
      <2> QED BY <2>1, PlacedTop, AppendIsConcat
<1>2. Continue(t, Append(Below(t), Top(t)), "raise")
      <2>1. stack' = [stack EXCEPT ![t] = stack[t]] BY DEF RaiseHere, OnceInv
      <2> QED BY <1>1, <2>1 DEF RaiseHere, Continue
<1>3. Spots(Top(t), "raise", A) # {} => Spots(Top(t), mode[t], A) # {} BY RunsMore
<1> QED BY <1>1, <1>2, <1>3, ReplaceAdvances

\* A node completes and goes on to its successors.
LEMMA CompleteAdvances ==
    ASSUME NEW n, NEW A, OneWay(n, A), IInv, OnceInv(n, A), NEW t \in Tasks, stack[t] # <<>>,
           Top(t).at \in {"try", "loop", "child", "batch"},
           Top(t).at = "try" => mode[t] = "run",
           NEW nodes \in Seq(Nodes), Complete(t, nodes), Sole(nodes, A),
           Meets(nodes, A) =>
              /\ Top(t).node \in A /\ ~Caught(Top(t).node, A)
              /\ Top(t).at = "batch" => ~Meets(Successors[Top(t).node]["branch"], A)
    PROVE  /\ Advances(t, A) /\ OthersKeep(t, A)
           /\ ~Meets(nodes, A) /\ ~Caught(Top(t).node, A) => Exhausts(t, A)
<1>1. Top(t) \in PlacedFrame /\ Top(t).node \in Nodes /\ Top(t).at # "list" BY PlacedTop
<1>2. PICK x \in PlacedFrame : /\ x = Put(Top(t), "succ", 0)
                               /\ x.at = "succ" /\ x.node = Top(t).node
      <2>1. "succ" \in Places \ {"child"} BY DEF Places
      <2> QED BY <1>1, <2>1, PlacedMove
<1>3. CallNodes(t, nodes, "succ", 0) BY DEF Complete
<1>4. Spots(x, "wait", A) # {} <=> Top(t).node \in A /\ Caught(Top(t).node, A)
      <2>1. Ahead(x, "wait", A) <=> Caught(x.node, A) BY <1>2 DEF Ahead
      <2>2. x.at # "list" BY <1>2
      <2> QED BY <1>2, <2>1, <2>2, NodeSpots
<1>5. Top(t).node \in A /\ (Meets(nodes, A) \/ Caught(Top(t).node, A)) =>
         Spots(Top(t), mode[t], A) # {}
      <2>1. Meets(nodes, A) \/ Caught(Top(t).node, A) => Ahead(Top(t), mode[t], A)
            BY DEF Ahead
      <2> QED BY <1>1, <2>1, NodeSpots
<1>6. "succ" \in Places \ {"child", "list"} BY DEF Places
<1> QED BY <1>2, <1>3, <1>4, <1>5, <1>6, CallAdvances

Goes(t, A) == stack[t] # <<>> /\ Advances(t, A) /\ OthersKeep(t, A)

\* The next entry of a list is executed: it alone was the site, or is none.
LEMMA ListNextGoes ==
    ASSUME NEW n, NEW A, IInv, OnceInv(n, A), NEW t \in Tasks, ListNext(t)
    PROVE  Goes(t, A)
<1> DEFINE f == Top(t)
           r == f.rest
           g == [f EXCEPT !.rest = Tail(@)]
           h == NodeFrame(Head(r), f.depth, f.chain)
<1>1. stack[t] # <<>> /\ f.at = "list" BY DEF ListNext, At
<1>2. f \in PlacedFrame /\ f \in GoodFrame /\ f \in Frame /\ Root \in Range(f.chain)
      BY <1>1, PlacedTop DEF PlacedFrame
<1>3. CASE r = <<>>
      <2>1. Continue(t, Below(t), "ret") BY <1>3 DEF ListNext, Return
      <2> QED BY <1>1, <2>1, PopAdvances DEF Goes
<1>4. CASE r # <<>>
      <2>1. /\ r \in Seq(Nodes) /\ f.depth \in Nat /\ f.chain \in Seq(Workflows)
            /\ IsInjective(f.chain)
            BY <1>2 DEF Frame, GoodFrame
      <2>2. /\ Head(r) \in Nodes /\ Tail(r) \in Seq(Nodes) /\ Len(Tail(r)) = Len(r) - 1
            /\ \A i \in 1 .. Len(Tail(r)) : Tail(r)[i] = r[i + 1]
            BY <1>4, <2>1, HeadTailProperties
      <2>3. Head(r) = r[1] BY <1>4, <2>1
      <2>4. /\ DOMAIN r = 1 .. Len(r) /\ Len(r) \in Nat \ {0}
            /\ DOMAIN Tail(r) = 1 .. Len(Tail(r)) /\ Len(Tail(r)) \in Nat
            BY <1>4, <2>1, <2>2, LenProperties, EmptySeq
      <2>5. Continue(t, Below(t) \o <<g, h>>, "run") BY <1>4 DEF ListNext
      <2>6. h \in PlacedFrame BY <1>2, <2>1, <2>2, NewPlaced
      <2>7. h.at # "list" /\ (Spots(h, "run", A) # {} <=> Head(r) \in A) BY EnterSpots
      <2>8. g \in Frame /\ g.at = "list" /\ g.chain = f.chain /\ g.rest = Tail(r)
            BY <1>1, <1>2, <2>2 DEF Frame
      <2>9. g \in PlacedFrame
            <3> HIDE DEF g
            <3>1. g \in GoodFrame BY <2>1, <2>8 DEF GoodFrame
            <3> QED BY <1>2, <2>8, <3>1 DEF PlacedFrame
      <2>10. Spots(f, mode[t], A) = Entries(r, A) BY <1>1 DEF Spots
      <2>11. Spots(g, "wait", A) = Entries(Tail(r), A)
            <3> HIDE DEF g
            <3> QED BY <2>8 DEF Spots
      <2> HIDE DEF g, h, r
      <2>12. \A i \in Entries(Tail(r), A) : i + 1 \in Entries(r, A) /\ i + 1 # 1 /\ i \in Nat
            <3> SUFFICES ASSUME NEW i \in 1 .. Len(Tail(r)), Tail(r)[i] \in A
                         PROVE  i + 1 \in Entries(r, A) /\ i + 1 # 1 /\ i \in Nat
                BY <2>4 DEF Entries
            <3>1. r[i + 1] \in A BY <2>2
            <3>2. i + 1 \in 1 .. Len(r) BY <2>2, <2>4
            <3> QED BY <2>4, <3>1, <3>2 DEF Entries
      <2>13. Head(r) \in A => 1 \in Entries(r, A) BY <2>3, <2>4 DEF Entries
      <2>14. AtMostOne(Entries(r, A)) =>
                /\ AtMostOne(Entries(Tail(r), A))
                /\ Entries(Tail(r), A) = {} \/ Head(r) \notin A
            <3> SUFFICES ASSUME AtMostOne(Entries(r, A))
                         PROVE  /\ AtMostOne(Entries(Tail(r), A))
                                /\ Entries(Tail(r), A) = {} \/ Head(r) \notin A
                OBVIOUS
            <3>1. ASSUME NEW i \in Entries(Tail(r), A), NEW j \in Entries(Tail(r), A)
                  PROVE  i = j
                  <4>1. i + 1 = j + 1 BY <2>12, <3>1 DEF AtMostOne
                  <4> QED BY <2>12, <3>1, <4>1
            <3>2. ASSUME NEW i \in Entries(Tail(r), A), Head(r) \in A PROVE FALSE
                  BY <2>12, <2>13, <3>2 DEF AtMostOne
            <3> QED BY <3>1, <3>2 DEF AtMostOne
      <2>15. Entries(Tail(r), A) # {} \/ Head(r) \in A => Entries(r, A) # {}
            BY <2>12, <2>13
      <2>16. AtMostOne(Spots(h, "run", A)) BY <2>7, NodeSpots
      <2>17. Advances(t, A) /\ OthersKeep(t, A)
            BY <1>1, <2>5, <2>6, <2>7, <2>9, <2>10, <2>11, <2>14, <2>15, <2>16, PushAdvances
      <2> QED BY <1>1, <2>17 DEF Goes
<1> QED BY <1>3, <1>4

\* Returns, and exceptions that pass through.
LEMMA EndsGo ==
    ASSUME NEW n, NEW A, IInv, OnceInv(n, A), NEW t \in Tasks,
           Propagate(t) \/ AwaitReturned(t)
    PROVE  Goes(t, A)
<1>1. stack[t] # <<>> BY DEF Propagate, AwaitReturned, At
<1>2. Continue(t, Below(t), "ret") \/ Continue(t, Below(t), "raise")
      BY DEF Propagate, AwaitReturned, Return, Raise
<1> QED BY <1>1, <1>2, PopAdvances DEF Goes

LEMMA RespondGoes ==
    ASSUME NEW n, NEW A, IInv, OnceInv(n, A), NEW t \in Tasks, Respond(t)
    PROVE  Goes(t, A)
<1>1. stack[t] # <<>> /\ Top(t).at = "try" /\ mode[t] = "run" BY DEF Respond, At
<1>2. CASE Fault(t)
      <2>1. Advances(t, A) /\ OthersKeep(t, A) BY <1>1, <1>2, FaultAdvances DEF Fault
      <2> QED BY <1>1, <2>1 DEF Goes
<1>3. CASE Return(t)
      <2>1. Continue(t, Below(t), "ret") BY <1>3 DEF Return
      <2> QED BY <1>1, <2>1, PopAdvances DEF Goes
<1> QED BY <1>2, <1>3 DEF Respond

LEMMA EnterGoes ==
    ASSUME NEW n, NEW A, IInv, OnceInv(n, A), NEW t \in Tasks, Enter(t)
    PROVE  Goes(t, A)
<1>1. stack[t] # <<>> /\ Top(t).at = "enter" BY DEF Enter, At
<1>2. Top(t) \in PlacedFrame /\ Top(t).node \in Nodes BY <1>1, PlacedTop
<1>3. CASE Raise(t, NoNode)
      <2>1. Continue(t, Below(t), "raise") BY <1>3 DEF Raise
      <2> QED BY <1>1, <2>1, PopAdvances DEF Goes
<1>4. CASE Goto(t, "try", 0)
      <2> DEFINE x == Put(Top(t), "try", 0)
      <2>1. "try" \in Places \ {"child"} BY DEF Places
      <2>2. x \in PlacedFrame /\ x.at = "try" /\ x.node = Top(t).node
            BY <1>2, <2>1, PlacedMove
      <2>3. Continue(t, Append(Below(t), x), "run") BY <1>4 DEF Goto, Put
      <2>4. Ahead(Top(t), mode[t], A) BY <1>1 DEF Ahead
      <2> HIDE DEF x
      <2> QED BY <1>1, <2>2, <2>3, <2>4, MoveAdvances DEF Goes
<1> QED BY <1>3, <1>4 DEF Enter

\* The executors without calls back; the call of n's own uses the site up.
LEMMA PerformGoes ==
    ASSUME NEW n, NEW A, OneWay(n, A), IInv, OnceInv(n, A), NEW t \in Tasks,
           NEW kinds, Perform(t, kinds)
    PROVE  /\ Goes(t, A)
           /\ Top(t).node = n => Exhausts(t, A) /\ SitesOf(<<Top(t)>>, mode[t], A) # {}
<1> DEFINE k == Top(t).node
<1>1. stack[t] # <<>> /\ Top(t).at = "try" /\ mode[t] = "run" BY DEF Perform, At
<1>2. Top(t) \in Frame /\ k \in Nodes BY <1>1, PlacedTop
<1>3. AllSuccessors(k) \in Seq(Nodes) BY <1>2, SuccessorsType
<1>4. Sole(AllSuccessors(k), A) BY <1>2, AllWays
<1>5. /\ Meets(AllSuccessors(k), A) => k \in A /\ ~Caught(k, A)
      /\ k = n => ~Caught(k, A) /\ ~Meets(AllSuccessors(k), A)
      BY <1>2, WayFacts
<1>6. k = n => SitesOf(<<Top(t)>>, mode[t], A) # {}
      <2>1. Ahead(Top(t), mode[t], A) BY <1>1 DEF Ahead
      <2>2. k = n => k \in A BY DEF OneWay
      <2>3. k = n => Spots(Top(t), mode[t], A) # {} BY <1>1, <2>1, <2>2, NodeSpots
      <2>4. AtMostOne(Spots(Top(t), mode[t], A)) BY <1>1, NodeSpots
      <2>5. Spots(Top(t), mode[t], A) # {} => SitesOf(<<Top(t)>>, mode[t], A) # {}
            BY <1>2, <2>4, PassOne
      <2> QED BY <2>3, <2>5
<1>7. CASE Complete(t, AllSuccessors(k))
      <2>1. /\ Advances(t, A) /\ OthersKeep(t, A)
            /\ ~Meets(AllSuccessors(k), A) /\ ~Caught(k, A) => Exhausts(t, A)
            BY <1>1, <1>3, <1>4, <1>5, <1>7, CompleteAdvances
      <2> QED BY <1>1, <1>5, <1>6, <2>1 DEF Goes
<1>8. CASE Fault(t)
      <2>1. /\ Advances(t, A) /\ OthersKeep(t, A)
            /\ Spots(Top(t), "raise", A) = {} => Exhausts(t, A)
            BY <1>1, <1>8, FaultAdvances DEF Fault
      <2>2. k = n => Spots(Top(t), "raise", A) = {}
            <3>1. k = n => ~Ahead(Top(t), "raise", A) BY <1>1, <1>5 DEF Ahead
            <3> QED BY <1>1, <3>1, NodeSpots
      <2> QED BY <1>1, <1>6, <2>1, <2>2 DEF Goes
<1> QED BY <1>7, <1>8 DEF Perform

LEMMA ChooseGoes ==
    ASSUME NEW n, NEW A, OneWay(n, A), IInv, OnceInv(n, A), NEW t \in Tasks, Choose(t)
    PROVE  Goes(t, A)
<1> DEFINE k == Top(t).node
<1>1. stack[t] # <<>> /\ Top(t).at = "try" /\ mode[t] = "run" BY DEF Choose, At
<1>2. k \in Nodes BY <1>1, PlacedTop
<1>3. ASSUME NEW h \in Verdicts, Complete(t, Successors[k][h]) PROVE Goes(t, A)
      <2>1. h \in Handles BY <1>3 DEF Verdicts, Handles
      <2>2. Successors[k][h] \in Seq(Nodes) BY <1>2, <2>1, SuccessorsType
      <2>3. Sole(Successors[k][h], A) BY <1>2, <2>1 DEF OneWay
      <2>4. Meets(Successors[k][h], A) => k \in A /\ ~Caught(k, A) BY <1>2, <2>1, WayFacts
      <2>5. Advances(t, A) /\ OthersKeep(t, A)
            BY <1>1, <1>3, <2>2, <2>3, <2>4, CompleteAdvances
      <2> QED BY <1>1, <2>5 DEF Goes
<1>4. CASE Fault(t)
      <2>1. Advances(t, A) /\ OthersKeep(t, A) BY <1>1, <1>4, FaultAdvances DEF Fault
      <2> QED BY <1>1, <2>1 DEF Goes
<1> QED BY <1>3, <1>4 DEF Choose

LEMMA FilterGoes ==
    ASSUME NEW n, NEW A, OneWay(n, A), IInv, OnceInv(n, A), NEW t \in Tasks, Filter(t)
    PROVE  Goes(t, A)
<1> DEFINE k == Top(t).node
<1>1. stack[t] # <<>> /\ Top(t).at = "try" /\ mode[t] = "run" BY DEF Filter, At
<1>2. k \in Nodes BY <1>1, PlacedTop
<1>3. CASE Complete(t, AllSuccessors(k))
      <2>1. AllSuccessors(k) \in Seq(Nodes) BY <1>2, SuccessorsType
      <2>2. Sole(AllSuccessors(k), A) BY <1>2, AllWays
      <2>3. Meets(AllSuccessors(k), A) => k \in A /\ ~Caught(k, A) BY <1>2, WayFacts
      <2>4. Advances(t, A) /\ OthersKeep(t, A)
            BY <1>1, <1>3, <2>1, <2>2, <2>3, CompleteAdvances
      <2> QED BY <1>1, <2>4 DEF Goes
<1>4. CASE Fault(t)
      <2>1. Advances(t, A) /\ OthersKeep(t, A) BY <1>1, <1>4, FaultAdvances DEF Fault
      <2> QED BY <1>1, <2>1 DEF Goes
<1>5. CASE Return(t)
      <2>1. Continue(t, Below(t), "ret") BY <1>5 DEF Return
      <2> QED BY <1>1, <2>1, PopAdvances DEF Goes
<1> QED BY <1>3, <1>4, <1>5 DEF Filter

\* Goto a place that is ahead only for a handler in A.
LEMMA GotoGoes ==
    ASSUME NEW n, NEW A, IInv, OnceInv(n, A), NEW t \in Tasks, stack[t] # <<>>,
           Top(t).at \in {"try", "succ", "loop", "retry", "retrysucc"},
           NEW place \in {"retry", "failed"}, NEW num \in Nat, Goto(t, place, num),
           place = "retry" => OnError[Top(t).node] = "retry"
    PROVE  Goes(t, A)
<1> DEFINE x == Put(Top(t), place, num)
<1>1. Top(t) \in PlacedFrame /\ Top(t).node \in Nodes /\ Top(t).at # "list" BY PlacedTop
<1>2. place \in Places \ {"child"} /\ place # "loop" /\ place # "batch" BY DEF Places
<1>3. x \in PlacedFrame /\ x.at = place /\ x.node = Top(t).node
      BY <1>1, <1>2, PlacedMove
<1>4. Continue(t, Append(Below(t), x), "run") BY DEF Goto, Put
<1> HIDE DEF x
<1>5. Ahead(x, "run", A) => Caught(x.node, A) BY <1>3 DEF Ahead
<1>6. Caught(Top(t).node, A) => Ahead(Top(t), mode[t], A) BY DEF Ahead
<1>7. Advances(t, A) /\ OthersKeep(t, A)
      BY <1>1, <1>3, <1>4, <1>5, <1>6, MoveAdvances
<1> QED BY <1>7 DEF Goes

LEMMA CatchesGo ==
    ASSUME NEW n, NEW A, IInv, OnceInv(n, A), NEW t \in Tasks, CatchFirst(t) \/ CatchRetry(t)
    PROVE  Goes(t, A)
<1> DEFINE f == Top(t)
<1>1. CASE CatchFirst(t)
      <2>1. stack[t] # <<>> /\ f.at \in {"try", "succ", "loop"} BY <1>1 DEF CatchFirst, At
      <2>2. \/ Goto(t, "retry", 1) /\ OnError[f.node] = "retry"
            \/ Goto(t, "failed", 0)
            BY <1>1 DEF CatchFirst
      <2> QED BY <2>1, <2>2, GotoGoes
<1>2. CASE CatchRetry(t)
      <2>1. stack[t] # <<>> /\ f.at \in {"retry", "retrysucc"} BY <1>2 DEF CatchRetry, At
      <2>2. OnError[f.node] = "retry" /\ f.num + 1 \in Nat
            <3>1. f \in PlacedFrame /\ f \in Frame BY <2>1, PlacedTop
            <3>2. f.num + 1 \in Nat BY <3>1 DEF Frame
            <3> HIDE DEF f
            <3>3. OnError[f.node] = "retry" BY <2>1, <3>1 DEF PlacedFrame
            <3> QED BY <3>2, <3>3
      <2>3. Goto(t, "retry", f.num + 1) \/ Goto(t, "failed", 0)
            BY <1>2 DEF CatchRetry
      <2> QED BY <2>1, <2>2, <2>3, GotoGoes
<1> QED BY <1>1, <1>2

\* A node that is retried is not on the way.
LEMMA RetryGoes ==
    ASSUME NEW n, NEW A, OneWay(n, A), IInv, OnceInv(n, A), NEW t \in Tasks, Retry(t)
    PROVE  Goes(t, A) /\ Top(t).node \in Nodes /\ Top(t).node # n
<1> DEFINE k == Top(t).node
<1>1. stack[t] # <<>> /\ Top(t).at = "retry" BY DEF Retry, At
<1>2. /\ Top(t) \in PlacedFrame /\ k \in Nodes /\ OnError[k] = "retry" /\ Top(t).num \in Nat
      BY <1>1, PlacedTop DEF PlacedFrame, Frame
<1>3. k \notin A /\ k # n BY <1>2, WayFacts DEF OneWay
<1>4. ~Meets(AllSuccessors(k), A) BY <1>2, <1>3, WayFacts
<1>5. CASE CallNodes(t, AllSuccessors(k), "retrysucc", Top(t).num)
      <2>1. "retrysucc" \in Places \ {"child", "list"} BY DEF Places
      <2>2. PICK x \in PlacedFrame : /\ x = Put(Top(t), "retrysucc", Top(t).num)
                                     /\ x.at = "retrysucc" /\ x.node = k
            BY <1>2, <2>1, PlacedMove
      <2>3. Spots(x, "wait", A) = {}
            <3>1. x.at # "list" BY <2>2
            <3> QED BY <1>3, <2>2, <3>1, NodeSpots
      <2>4. AllSuccessors(k) \in Seq(Nodes) /\ Sole(AllSuccessors(k), A)
            BY <1>2, SuccessorsType, AllWays
      <2>5. Advances(t, A) /\ OthersKeep(t, A)
            BY <1>1, <1>2, <1>4, <1>5, <2>1, <2>2, <2>3, <2>4, CallAdvances
      <2> QED BY <1>1, <1>2, <1>3, <2>5 DEF Goes
<1>6. CASE Fault(t)
      <2>1. Advances(t, A) /\ OthersKeep(t, A) BY <1>1, <1>6, FaultAdvances DEF Fault
      <2> QED BY <1>1, <1>2, <1>3, <2>1 DEF Goes
<1> QED BY <1>5, <1>6 DEF Retry

\* The handler is the way on, or the call ends; "continue" is not on the way.
LEMMA HandleFailureGoes ==
    ASSUME NEW n, NEW A, OneWay(n, A), IInv, OnceInv(n, A), NEW t \in Tasks, HandleFailure(t)
    PROVE  Goes(t, A)
<1> DEFINE k == Top(t).node
           x == [Top(t) EXCEPT !.at = "handling"]
           y == NodeFrame(ErrorHandler(k), x.depth + 1, x.chain)
<1>1. stack[t] # <<>> /\ Top(t).at = "failed" BY DEF HandleFailure, At
<1>2. Top(t) \in PlacedFrame /\ Top(t) \in GoodFrame /\ Top(t) \in Frame /\ k \in Nodes
      BY <1>1, PlacedTop
<1>3. CASE HandlersOf(k) # {} /\ Continue(t, Below(t) \o <<x, y>>, "run")
      <2>1. ErrorHandler(k) \in Nodes BY <1>3 DEF ErrorHandler, HandlersOf
      <2>2. /\ x.at = "handling" /\ x.node = k
            /\ x.chain = Top(t).chain /\ x.depth = Top(t).depth
            BY <1>2 DEF Frame
      <2>3. x \in GoodFrame BY <1>2, TryFrame DEF Places
      <2>4. x \in PlacedFrame
            <3>1. Root \in Range(x.chain) BY <1>2, <2>2 DEF PlacedFrame
            <3> HIDE DEF x
            <3> QED BY <2>2, <2>3, <3>1 DEF PlacedFrame
      <2>5. y \in PlacedFrame
            <3>1. x \in Frame /\ IsInjective(x.chain) /\ Root \in Range(x.chain)
                  <4> HIDE DEF x
                  <4> QED BY <2>4 DEF PlacedFrame, GoodFrame
            <3>2. x.depth + 1 \in Nat /\ x.chain \in Seq(Workflows)
                  <4> HIDE DEF x
                  <4> QED BY <3>1 DEF Frame
            <3> QED BY <2>1, <3>1, <3>2, NewPlaced
      <2>6. y.at # "list" /\ (Spots(y, "run", A) # {} <=> ErrorHandler(k) \in A)
            BY EnterSpots
      <2>7. Spots(x, "wait", A) = {}
            <3> HIDE DEF x
            <3>1. ~Ahead(x, "wait", A) BY <2>2 DEF Ahead
            <3>2. x.at # "list" BY <2>2
            <3> QED BY <3>1, <3>2, NodeSpots
      <2>8. ErrorHandler(k) \in A => Spots(Top(t), mode[t], A) # {}
            <3>1. ErrorHandler(k) \in A => Caught(k, A) BY <1>3 DEF Caught
            <3>2. Caught(k, A) => k \in A BY <1>2, WayFacts
            <3>3. Caught(k, A) => Ahead(Top(t), mode[t], A) BY <1>1 DEF Ahead
            <3> QED BY <1>1, <3>1, <3>2, <3>3, NodeSpots
      <2> HIDE DEF x, y
      <2>9. AtMostOne(Spots(y, "run", A)) /\ AtMostOne(Spots(x, "wait", A))
            BY <2>6, <2>7, NodeSpots DEF AtMostOne
      <2>10. Advances(t, A) /\ OthersKeep(t, A)
            BY <1>1, <1>3, <2>4, <2>5, <2>6, <2>7, <2>8, <2>9, PushAdvances
      <2> QED BY <1>1, <2>10 DEF Goes
<1>4. CASE /\ HandlersOf(k) = {} /\ OnError[k] = "continue"
           /\ CallNodes(t, AllSuccessors(k), "continuing", 0)
      <2>1. "continuing" \in Places \ {"child", "list"} BY DEF Places
      <2>2. PICK z \in PlacedFrame : /\ z = Put(Top(t), "continuing", 0)
                                     /\ z.at = "continuing" /\ z.node = k
            BY <1>2, <2>1, PlacedMove
      <2>3. k \notin A /\ ~Meets(AllSuccessors(k), A) BY <1>2, <1>4, WayFacts
      <2>4. Spots(z, "wait", A) = {}
            <3>1. z.at # "list" BY <2>2
            <3> QED BY <2>2, <2>3, <3>1, NodeSpots
      <2>5. AllSuccessors(k) \in Seq(Nodes) /\ Sole(AllSuccessors(k), A)
            BY <1>2, SuccessorsType, AllWays
      <2>6. Advances(t, A) /\ OthersKeep(t, A)
            BY <1>1, <1>4, <2>1, <2>2, <2>3, <2>4, <2>5, CallAdvances
      <2> QED BY <1>1, <2>6 DEF Goes
<1>5. CASE Return(t) \/ Raise(t, k)
      <2>1. Continue(t, Below(t), "ret") \/ Continue(t, Below(t), "raise")
            BY <1>5 DEF Return, Raise
      <2> QED BY <1>1, <2>1, PopAdvances DEF Goes
<1> QED BY <1>3, <1>4, <1>5 DEF HandleFailure

LEMMA LoopStartGoes ==
    ASSUME NEW n, NEW A, IInv, OnceInv(n, A), NEW t \in Tasks, LoopStart(t)
    PROVE  Goes(t, A)
<1>1. /\ stack[t] # <<>> /\ Top(t).at = "try" /\ mode[t] = "run"
      /\ Kind[Top(t).node] = "loop"
      BY DEF LoopStart, At
<1>2. Top(t) \in PlacedFrame /\ Top(t).node \in Nodes BY <1>1, PlacedTop
<1>3. PICK k \in 0 .. ItemBound :
         Continue(t, Append(Below(t), Put(Top(t), "loop", k)), "ret")
      BY DEF LoopStart, Put
<1>4. k \in Nat /\ "loop" \in Places \ {"child"} BY GraphAssumption DEF Places
<1> DEFINE x == Put(Top(t), "loop", k)
<1>5. x \in PlacedFrame /\ x.at = "loop" /\ x.node = Top(t).node
      BY <1>1, <1>2, <1>4, PlacedMove
<1>6. Ahead(Top(t), mode[t], A) BY <1>1 DEF Ahead
<1>7. Continue(t, Append(Below(t), x), "ret") BY <1>3
<1> HIDE DEF x
<1>8. Advances(t, A) /\ OthersKeep(t, A)
      BY <1>1, <1>5, <1>6, <1>7, MoveAdvances
<1> QED BY <1>1, <1>8 DEF Goes

\* The way does not go through the body of a loop; after it, it goes on.
LEMMA LoopNextGoes ==
    ASSUME NEW n, NEW A, OneWay(n, A), IInv, OnceInv(n, A), NEW t \in Tasks, LoopNext(t)
    PROVE  Goes(t, A)
<1> DEFINE f == Top(t)
           k == f.node
           body == Successors[k]["default"]
           done == Successors[k]["done"]
<1>1. stack[t] # <<>> /\ f.at = "loop" /\ mode[t] = "ret" BY DEF LoopNext, At
<1>2. f \in PlacedFrame /\ f \in Frame /\ k \in Nodes BY <1>1, PlacedTop
<1>3. Kind[k] = "loop" /\ f.num \in Nat
      <2>1. f.num \in Nat BY <1>2 DEF Frame
      <2> HIDE DEF f
      <2> QED BY <1>1, <1>2, <2>1 DEF PlacedFrame
<1>4. body \in Seq(Nodes) /\ done \in Seq(Nodes)
      BY <1>2, SuccessorsType DEF Handles
<1>5. "default" \in Handles /\ "done" \in Handles BY DEF Handles
<1>6. Sole(done, A) /\ Sole(body, A) BY <1>2, <1>5 DEF OneWay
<1>7. ~Meets(body, A)
      <2>1. Meets(body, A) => <<Kind[k], "default">> \notin {<<"loop", "default">>, <<"batch", "body">>}
            BY <1>2, <1>5 DEF OneWay
      <2> QED BY <1>3, <2>1
<1>8. Meets(done, A) => k \in A /\ ~Caught(k, A) BY <1>2, <1>5, WayFacts
<1>9. CASE Complete(t, done)
      <2>1. Advances(t, A) /\ OthersKeep(t, A)
            BY <1>1, <1>4, <1>6, <1>8, <1>9, CompleteAdvances
      <2> QED BY <1>1, <2>1 DEF Goes
<1>10. CASE f.num # 0 /\ CallNodes(t, body, "loop", f.num - 1)
      <2>1. f.num - 1 \in Nat BY <1>3, <1>10
      <2>2. "loop" \in Places \ {"child", "list"} BY DEF Places
      <2>3. PICK x \in PlacedFrame : /\ x = Put(f, "loop", f.num - 1)
                                     /\ x.at = "loop" /\ x.node = k
            BY <1>2, <1>3, <2>1, <2>2, PlacedMove
      <2>4. Spots(x, "wait", A) # {} => Spots(f, mode[t], A) # {}
            <3>1. x.at # "list" /\ f.at # "list" BY <1>1, <2>3
            <3>2. Ahead(f, mode[t], A) BY <1>1 DEF Ahead
            <3> QED BY <2>3, <3>1, <3>2, NodeSpots
      <2>5. Advances(t, A) /\ OthersKeep(t, A)
            BY <1>1, <1>4, <1>6, <1>7, <1>10, <2>1, <2>2, <2>3, <2>4, CallAdvances
      <2> QED BY <1>1, <2>5 DEF Goes
<1> QED BY <1>9, <1>10 DEF LoopNext

\* A frame that only changes its place, like Put.
LEMMA PlacedAt ==
    ASSUME NEW f \in PlacedFrame, f.node \in Nodes, NEW place \in {"try", "join"}
    PROVE  /\ [f EXCEPT !.at = place] \in PlacedFrame
           /\ [f EXCEPT !.at = place].at = place
           /\ [f EXCEPT !.at = place].node = f.node
<1> DEFINE x == [f EXCEPT !.at = place]
<1>1. f \in GoodFrame /\ f \in Frame /\ Root \in Range(f.chain) BY DEF PlacedFrame, GoodFrame
<1>2. x \in GoodFrame BY <1>1, TryFrame DEF Places
<1>3. x.at = place /\ x.node = f.node /\ x.chain = f.chain BY <1>1 DEF Frame
<1> HIDE DEF x
<1>4. x \in PlacedFrame BY <1>1, <1>2, <1>3 DEF PlacedFrame
<1> QED BY <1>3, <1>4 DEF x

\* Root is in every chain: a child is another workflow and off the way.
LEMMA ChildStartGoes ==
    ASSUME NEW n, NEW A, OneWay(n, A), IInv, OnceInv(n, A), NEW t \in Tasks, ChildStart(t)
    PROVE  Goes(t, A)
<1> DEFINE f == Top(t)
           w == Child[f.node]
           x == [f EXCEPT !.at = "child"]
           y == ListFrame(AfterTrigger[w], 0, Append(f.chain, w))
<1>1. stack[t] # <<>> /\ f.at = "try" /\ mode[t] = "run" BY DEF ChildStart, At
<1>2. f \in PlacedFrame /\ f \in GoodFrame /\ f \in Frame /\ f.node \in Nodes
      BY <1>1, PlacedTop
<1>3. CASE Fault(t)
      <2>1. Advances(t, A) /\ OthersKeep(t, A) BY <1>1, <1>3, FaultAdvances DEF Fault
      <2> QED BY <1>1, <2>1 DEF Goes
<1>4. CASE ~ChildRejected(f) /\ Continue(t, Below(t) \o <<x, y>>, "run")
      <2>1. Root \in Range(f.chain) /\ IsInjective(f.chain)
            <3> HIDE DEF f
            <3> QED BY <1>2 DEF PlacedFrame, GoodFrame
      <2>2. f.chain \in Seq(Workflows) /\ w \in Workflows /\ AfterTrigger[w] \in Seq(Nodes)
            BY <1>2, GraphAssumption DEF Frame
      <2>3. w \notin Range(f.chain) /\ ~(Len(f.chain) >= NestLimit[f.node])
            BY <1>4 DEF ChildRejected
      <2>4. Len(f.chain) < NestLimit[f.node]
            <3>1. Len(f.chain) \in Nat /\ NestLimit[f.node] \in Nat
                  BY <1>2, <2>2, LenProperties, GraphAssumption
            <3> QED BY <2>3, <3>1
      <2>5. w # Root BY <2>1, <2>3
      <2>6. ~Meets(AfterTrigger[w], A) BY <2>2, <2>5 DEF OneWay
      <2>7. Append(f.chain, w) \in Seq(Workflows) /\ IsInjective(Append(f.chain, w))
            BY <2>1, <2>2, <2>3, LongerChain
      <2>8. Root \in Range(Append(f.chain, w))
            <3> DEFINE c == f.chain
                       r == Append(c, w)
            <3>1. /\ DOMAIN c = 1 .. Len(c) /\ Len(c) \in Nat
                  /\ Len(r) = Len(c) + 1 /\ DOMAIN r = 1 .. Len(r)
                  /\ \A i \in 1 .. Len(c) : r[i] = c[i]
                  BY <2>2, <2>7, LenProperties, AppendProperties
            <3> HIDE DEF c, r
            <3>2. PICK i \in DOMAIN c : c[i] = Root BY <2>1 DEF Range, c
            <3>3. i \in DOMAIN r /\ r[i] = Root BY <3>1, <3>2
            <3> QED BY <3>3 DEF Range, c, r
      <2>9. y \in PlacedFrame BY <2>2, <2>7, <2>8, NewPlaced
      <2>10. x \in Frame /\ x.at = "child" /\ x.node = f.node /\ x.chain = f.chain
            BY <1>2 DEF Frame, Places
      <2>11. Spots(y, "run", A) = Entries(AfterTrigger[w], A) BY ListSpots
      <2> HIDE DEF x, y
      <2>12. x \in GoodFrame BY <1>2, <2>1, <2>4, <2>10 DEF GoodFrame
      <2>13. x \in PlacedFrame BY <2>1, <2>10, <2>12 DEF PlacedFrame
      <2>14. Spots(y, "run", A) = {} BY <2>6, <2>11 DEF Entries, Meets
      <2>15. x.at # "list" /\ f.at # "list" BY <1>1, <2>10
      <2>16. AtMostOne(Spots(x, "wait", A)) BY <2>15, NodeSpots
      <2>17. Spots(x, "wait", A) # {} => Spots(f, mode[t], A) # {}
            <3>1. Ahead(f, mode[t], A) BY <1>1 DEF Ahead
            <3> QED BY <2>10, <2>15, <3>1, NodeSpots
      <2>18. AtMostOne(Spots(y, "run", A)) BY <2>14 DEF AtMostOne
      <2>19. Advances(t, A) /\ OthersKeep(t, A)
            BY <1>1, <1>4, <2>9, <2>13, <2>14, <2>16, <2>17, <2>18, PushAdvances
      <2> QED BY <1>1, <2>19 DEF Goes
<1> QED BY <1>3, <1>4 DEF ChildStart

LEMMA ChildEndGoes ==
    ASSUME NEW n, NEW A, OneWay(n, A), IInv, OnceInv(n, A), NEW t \in Tasks, ChildEnd(t)
    PROVE  Goes(t, A)
<1> DEFINE k == Top(t).node
           x == [Top(t) EXCEPT !.at = "try"]
<1>1. stack[t] # <<>> /\ Top(t).at = "child" BY DEF ChildEnd, At
<1>2. Top(t) \in PlacedFrame /\ k \in Nodes BY <1>1, PlacedTop
<1>3. CASE Complete(t, AllSuccessors(k))
      <2>1. AllSuccessors(k) \in Seq(Nodes) BY <1>2, SuccessorsType
      <2>2. Sole(AllSuccessors(k), A) BY <1>2, AllWays
      <2>3. Meets(AllSuccessors(k), A) => k \in A /\ ~Caught(k, A) BY <1>2, WayFacts
      <2>4. Advances(t, A) /\ OthersKeep(t, A)
            BY <1>1, <1>3, <2>1, <2>2, <2>3, CompleteAdvances
      <2> QED BY <1>1, <2>4 DEF Goes
<1>4. CASE Continue(t, Append(Below(t), x), "raise")
      <2>1. x \in PlacedFrame /\ x.at = "try" /\ x.node = k BY <1>2, PlacedAt
      <2>2. Ahead(Top(t), mode[t], A) BY <1>1 DEF Ahead
      <2> HIDE DEF x
      <2>3. Advances(t, A) /\ OthersKeep(t, A)
            BY <1>1, <1>4, <2>1, <2>2, MoveAdvances
      <2> QED BY <1>1, <2>3 DEF Goes
<1> QED BY <1>3, <1>4 DEF ChildEnd

LEMMA BatchStartGoes ==
    ASSUME NEW n, NEW A, OneWay(n, A), IInv, OnceInv(n, A), NEW t \in Tasks, BatchStart(t)
    PROVE  Goes(t, A)
<1>1. /\ stack[t] # <<>> /\ Top(t).at = "try" /\ mode[t] = "run"
      /\ Kind[Top(t).node] = "batch"
      BY DEF BatchStart, At
<1>2. Top(t) \in PlacedFrame /\ Top(t).node \in Nodes BY <1>1, PlacedTop
<1>3. PICK k \in 0 .. ItemBound : Goto(t, "batch", k) BY DEF BatchStart
<1>4. k \in Nat /\ "batch" \in Places \ {"child"} BY GraphAssumption DEF Places
<1> DEFINE x == Put(Top(t), "batch", k)
<1>5. x \in PlacedFrame /\ x.at = "batch" /\ x.node = Top(t).node
      BY <1>1, <1>2, <1>4, PlacedMove
<1>6. Ahead(Top(t), mode[t], A) BY <1>1 DEF Ahead
<1>7. Continue(t, Append(Below(t), x), "run") BY <1>3 DEF Goto, Put
<1> HIDE DEF x
<1>8. Advances(t, A) /\ OthersKeep(t, A)
      BY <1>1, <1>5, <1>6, <1>7, MoveAdvances
<1> QED BY <1>1, <1>8 DEF Goes

\* A way through a branch does not also go through "done".
LEMMA GatherDoneGoes ==
    ASSUME NEW n, NEW A, OneWay(n, A), IInv, OnceInv(n, A), NEW t \in Tasks, GatherDone(t)
    PROVE  Goes(t, A)
<1> DEFINE k == Top(t).node
           done == Successors[k]["done"]
<1>1. stack[t] # <<>> /\ Top(t).at = "batch" /\ Complete(t, done) BY DEF GatherDone, At
<1>2. k \in Nodes BY <1>1, PlacedTop
<1>3. "branch" \in Handles /\ "done" \in Handles BY DEF Handles
<1>4. done \in Seq(Nodes) BY <1>2, <1>3, SuccessorsType
<1>5. Sole(done, A) BY <1>2, <1>3 DEF OneWay
<1>6. Meets(done, A) => k \in A /\ ~Caught(k, A) BY <1>2, <1>3, WayFacts
<1>7. Meets(done, A) => ~Meets(Successors[k]["branch"], A)
      <2>1. Meets(done, A) => \A h \in Handles : Meets(Successors[k][h], A) => h = "done"
            BY <1>2, <1>3 DEF OneWay
      <2> QED BY <1>3, <2>1
<1>8. Advances(t, A) /\ OthersKeep(t, A)
      BY <1>1, <1>4, <1>5, <1>6, <1>7, CompleteAdvances
<1> QED BY <1>1, <1>8 DEF Goes

-----------------------------------------------------------------------------
(* Coroutines that end and start *)

\* Coroutines that are reaped lose their sites.
LEMMA ReapOthers ==
    ASSUME NEW n, NEW A, OnceInv(n, A), NEW t \in Tasks, NEW ended, NEW s, NEW m,
           Reap(t, ended, s, m)
    PROVE  OthersKeep(t, A) /\ stack'[t] = s /\ mode'[t] = m
<1>1. /\ stack' = [c \in Tasks |-> IF c = t THEN s ELSE IF c \in ended THEN <<>> ELSE stack[c]]
      /\ mode' = [c \in Tasks |-> IF c = t THEN m ELSE IF c \in ended THEN "free" ELSE mode[c]]
      BY DEF Reap
<1>2. ASSUME NEW c \in Tasks \ {t}
      PROVE  /\ stack'[c] \in Seq(PlacedFrame)
             /\ SitesOf(stack'[c], mode'[c], A) \subseteq SitesOf(stack[c], mode[c], A)
      <2>1. CASE c \in ended
            <3>1. stack'[c] = <<>> BY <1>1, <1>2, <2>1
            <3>2. Len(<<>>) = 0 /\ 1 .. 0 = {} /\ <<>> \in Seq(PlacedFrame) BY EmptySeq
            <3> QED BY <3>1, <3>2 DEF SitesOf
      <2>2. CASE c \notin ended
            <3>1. stack'[c] = stack[c] /\ mode'[c] = mode[c] BY <1>1, <1>2, <2>2
            <3> QED BY <1>2, <3>1 DEF OnceInv
      <2> QED BY <2>1, <2>2
<1>3. OthersKeep(t, A) BY <1>1, <1>2 DEF OthersKeep
<1> QED BY <1>1, <1>3

\* t goes on as x after others have been reaped.
LEMMA ReapGoes ==
    ASSUME NEW n, NEW A, OnceInv(n, A), NEW t \in Tasks, stack[t] # <<>>, Top(t).at # "list",
           NEW ended, NEW x \in PlacedFrame, x.at # "list", x.node = Top(t).node,
           NEW m, Reap(t, ended, Append(Below(t), x), m),
           x.node \in A /\ Ahead(x, m, A) => Ahead(Top(t), mode[t], A)
    PROVE  Goes(t, A)
<1>1. OthersKeep(t, A) /\ stack'[t] = Append(Below(t), x) /\ mode'[t] = m BY ReapOthers
<1>2. Append(Below(t), x) = Below(t) \o <<x>> BY PlacedTop, AppendIsConcat
<1>3. <<x>> \in Seq(PlacedFrame) /\ <<x>> # <<>> OBVIOUS
<1>4. x \in Frame BY DEF PlacedFrame, GoodFrame
<1>5. AtMostOne(Spots(x, m, A)) BY NodeSpots
<1>6. Spots(x, m, A) # {} => Spots(Top(t), mode[t], A) # {} BY NodeSpots
<1>7. Passes(SitesOf(<<Top(t)>>, mode[t], A), SitesOf(<<x>>, m, A))
      BY <1>4, <1>5, <1>6, PlacedTop, PassOne
<1>8. AdvancesBy(t, <<x>>, m, A) BY <1>1, <1>2, <1>3, <1>7 DEF AdvancesBy
<1> QED BY <1>1, <1>3, <1>8 DEF Advances, Goes

LEMMA JoinGoes ==
    ASSUME NEW n, NEW A, OnceInv(n, A), NEW t \in Tasks, Join(t)
    PROVE  Goes(t, A)
<1> DEFINE x == Put(Top(t), "batch", 0)
<1>1. stack[t] # <<>> /\ Top(t).at = "join" /\ mode[t] = "run" BY DEF Join, At
<1>2. Top(t) \in PlacedFrame /\ Top(t).node \in Nodes BY <1>1, PlacedTop
<1>3. "batch" \in Places \ {"child"} BY DEF Places
<1>4. x \in PlacedFrame /\ x.at = "batch" /\ x.node = Top(t).node
      BY <1>2, <1>3, PlacedMove
<1>5. Reap(t, Children(t), Append(Below(t), x), "run") BY DEF Join, Put
<1> HIDE DEF x
<1>6. Ahead(x, "run", A) => Ahead(Top(t), mode[t], A) BY <1>1, <1>4 DEF Ahead
<1> QED BY <1>1, <1>4, <1>5, <1>6, ReapGoes

LEMMA BatchItemEndGoes ==
    ASSUME NEW n, NEW A, OnceInv(n, A), NEW t \in Tasks, NEW c, BatchItemEnd(t, c)
    PROVE  Goes(t, A)
<1> DEFINE f == Top(t)
           left == IF ItemError[f.node] = "stop" /\ mode[c] = "broken" THEN 0 ELSE f.num
           x == [f EXCEPT !.num = left]
<1>1. stack[t] # <<>> /\ f.at = "batch" /\ mode[t] = "run" BY DEF BatchItemEnd, At
<1>2. f \in PlacedFrame /\ f \in GoodFrame /\ f \in Frame /\ f.node \in Nodes
      BY <1>1, PlacedTop
<1>3. f.num \in Nat BY <1>2 DEF Frame
<1>4. left \in Nat /\ (left # 0 => f.num # 0) BY <1>3
<1>5. Reap(t, {c}, Append(Below(t), x), "run") BY DEF BatchItemEnd
<1> HIDE DEF left
<1>6. /\ x \in Frame /\ x.at = f.at /\ x.node = f.node /\ x.chain = f.chain /\ x.num = left
      BY <1>2, <1>4 DEF Frame
<1> HIDE DEF x, f
<1>7. x \in GoodFrame BY <1>1, <1>2, <1>6 DEF GoodFrame
<1>8. x \in PlacedFrame BY <1>1, <1>2, <1>4, <1>6, <1>7 DEF PlacedFrame
<1>9. Ahead(x, "run", A) => Ahead(f, mode[t], A) BY <1>1, <1>6 DEF Ahead
<1> QED BY <1>1, <1>5, <1>6, <1>8, <1>9, ReapGoes DEF f

\* After the timeout only a handler in A is ahead.
LEMMA JoinTimeoutGoes ==
    ASSUME NEW n, NEW A, OnceInv(n, A), NEW t \in Tasks, JoinTimeout(t)
    PROVE  Goes(t, A)
<1> DEFINE x == [Top(t) EXCEPT !.at = "try"]
<1>1. stack[t] # <<>> /\ Top(t).at = "join" /\ mode[t] = "run" BY DEF JoinTimeout, At
<1>2. Top(t) \in PlacedFrame /\ Top(t).node \in Nodes BY <1>1, PlacedTop
<1>3. x \in PlacedFrame /\ x.at = "try" /\ x.node = Top(t).node BY <1>2, PlacedAt
<1>4. Reap(t, Descendants(t), Append(Below(t), x), "raise") BY DEF JoinTimeout
<1> HIDE DEF x
<1>5. Ahead(x, "raise", A) => Ahead(Top(t), mode[t], A) BY <1>1, <1>3 DEF Ahead
<1> QED BY <1>1, <1>3, <1>4, <1>5, ReapGoes

\* Steps that only lose sites.
LEMMA ShrinkMoves ==
    ASSUME NEW n, NEW A, OnceInv(n, A), NEW t \in Tasks, OthersKeep(t, A),
           stack'[t] \in Seq(PlacedFrame),
           SitesOf(stack'[t], mode'[t], A) \subseteq SitesOf(stack[t], mode[t], A)
    PROVE  Moved(A)
<1> DEFINE P == Sites(A)
           Q == [c \in Tasks |-> SitesOf(stack'[c], mode'[c], A)]
<1>1. Sites(A)' = Q BY DEF Sites
<1>2. \A c \in Tasks : Q[c] \subseteq P[c] BY DEF Sites, OthersKeep
<1>3. Lone(P) BY DEF OnceInv
<1> HIDE DEF P, Q
<1>4. Lone(Q) /\ (Gone(P) => Gone(Q)) BY <1>2, <1>3, AllShrink
<1>5. stack' \in [Tasks -> Seq(PlacedFrame)] BY DEF OthersKeep
<1> QED BY <1>1, <1>4, <1>5 DEF Moved, P

LEMMA NoSites ==
    ASSUME NEW m, NEW A
    PROVE  SitesOf(<<>>, m, A) = {} /\ <<>> \in Seq(PlacedFrame)
<1>1. Len(<<>>) = 0 /\ 1 .. 0 = {} /\ <<>> \in Seq(PlacedFrame) BY EmptySeq
<1> QED BY <1>1 DEF SitesOf

\* Where the calls above an unchanged part of the stack are cancelled.
LEMMA ChildTimeoutMoves ==
    ASSUME NEW n, NEW A, IInv, OnceInv(n, A), NEW t \in Tasks, ChildTimeout(t)
    PROVE  Moved(A) /\ UNCHANGED <<ran, status>>
<1>1. PICK i \in DOMAIN stack[t] :
        /\ stack[t][i].at = "child"
        /\ Reap(t, Descendants(t),
                SubSeq(stack[t], 1, i - 1) \o <<[stack[t][i] EXCEPT !.at = "try"]>>, "raise")
        /\ UNCHANGED <<ran, status>>
      BY DEF ChildTimeout
<1> DEFINE s == stack[t]
           f == s[i]
           x == [f EXCEPT !.at = "try"]
           a == SubSeq(s, 1, i - 1)
           r == a \o <<x>>
<1>2. /\ s \in Seq(PlacedFrame) /\ DOMAIN s = 1 .. Len(s) /\ Len(s) \in Nat
      /\ \A j \in 1 .. Len(s) : s[j] \in PlacedFrame
      <2>1. s \in Seq(PlacedFrame) BY DEF OnceInv
      <2> QED BY <2>1, LenProperties, ElementOfSeq
<1>3. f \in PlacedFrame /\ f.node \in Nodes
      <2>1. f \in PlacedFrame /\ f.at = "child" BY <1>1, <1>2
      <2> HIDE DEF f
      <2> QED BY <2>1 DEF PlacedFrame, GoodFrame
<1>4. x \in PlacedFrame /\ x.at = "try" /\ x.node = f.node BY <1>3, PlacedAt
<1>5. OthersKeep(t, A) /\ stack'[t] = r /\ mode'[t] = "raise" BY <1>1, ReapOthers
<1>6. /\ a \in Seq(PlacedFrame) /\ Len(a) = i - 1
      /\ \A j \in 1 .. i - 1 : a[j] = s[j]
      <2>1. i \in Int /\ i >= 1 /\ \A j \in 1 .. i - 1 : s[j] \in PlacedFrame BY <1>2
      <2>2. /\ a \in Seq(PlacedFrame)
            /\ Len(a) = IF 1 <= i - 1 THEN (i - 1) - 1 + 1 ELSE 0
            /\ \A j \in 1 .. (i - 1) - 1 + 1 : a[j] = s[1 + j - 1]
            BY <2>1, SubSeqProperties
      <2> HIDE DEF a, s
      <2>3. Len(a) = i - 1 BY <2>1, <2>2
      <2>4. \A j \in 1 .. i - 1 : j \in 1 .. (i - 1) - 1 + 1 /\ 1 + j - 1 = j BY <2>1
      <2> QED BY <2>2, <2>3, <2>4
<1>7. i \in 1 .. Len(s) BY <1>2
<1> HIDE DEF a, x, f
<1>8. <<x>> \in Seq(PlacedFrame) /\ Len(<<x>>) = 1 /\ <<x>>[1] = x BY <1>4
<1>9. /\ r \in Seq(PlacedFrame) /\ Len(r) = i
      /\ \A j \in 1 .. i : r[j] = IF j = i THEN x ELSE s[j]
      <2>1. /\ r \in Seq(PlacedFrame) /\ Len(r) = Len(a) + Len(<<x>>)
            /\ \A j \in 1 .. Len(a) + Len(<<x>>) :
                  r[j] = IF j <= Len(a) THEN a[j] ELSE <<x>>[j - Len(a)]
            BY <1>6, <1>8, ConcatProperties
      <2> HIDE DEF r, s
      <2>2. Len(a) + Len(<<x>>) = i BY <1>6, <1>7, <1>8
      <2>3. ASSUME NEW j \in 1 .. i PROVE r[j] = IF j = i THEN x ELSE s[j]
            <3>1. CASE j = i
                  <4>1. ~(j <= Len(a)) /\ j - Len(a) = 1 BY <1>6, <1>7, <3>1
                  <4> QED BY <1>8, <2>1, <2>2, <3>1, <4>1
            <3>2. CASE j # i
                  <4>1. j <= Len(a) /\ j \in 1 .. i - 1 BY <1>6, <1>7, <2>3, <3>2
                  <4> QED BY <1>6, <2>1, <2>2, <3>2, <4>1
            <3> QED BY <3>1, <3>2
      <2> QED BY <2>1, <2>2, <2>3
<1> HIDE DEF r
<1>10. Spots(x, "raise", A) \subseteq Spots(f, ModeAt(s, i, mode[t]), A)
      <2>1. f.at = "child" /\ f.node = x.node BY <1>1, <1>4 DEF f, s
      <2>2. Ahead(f, ModeAt(s, i, mode[t]), A) BY <2>1 DEF Ahead
      <2>3. x.at # "list" /\ f.at # "list" BY <1>4, <2>1
      <2> QED BY <2>1, <2>2, <2>3 DEF Spots
<1>11. SitesOf(r, "raise", A) \subseteq SitesOf(s, mode[t], A)
      <2> SUFFICES ASSUME NEW p \in Nat \X Nat, p[1] \in 1 .. Len(r),
                          p[2] \in Spots(r[p[1]], ModeAt(r, p[1], "raise"), A)
                   PROVE  /\ p[1] \in 1 .. Len(s)
                          /\ p[2] \in Spots(s[p[1]], ModeAt(s, p[1], mode[t]), A)
          BY DEF SitesOf
      <2>1. p[1] \in 1 .. i /\ p[1] \in 1 .. Len(s) BY <1>7, <1>9
      <2>2. CASE p[1] = i
            <3>1. r[p[1]] = x /\ ModeAt(r, p[1], "raise") = "raise"
                  BY <1>9, <2>1, <2>2 DEF ModeAt
            <3> QED BY <1>10, <2>1, <2>2, <3>1 DEF f
      <2>3. CASE p[1] # i
            <3>1. r[p[1]] = s[p[1]] /\ ModeAt(r, p[1], "raise") = "wait"
                  BY <1>9, <2>1, <2>3 DEF ModeAt
            <3>2. ModeAt(s, p[1], mode[t]) = "wait"
                  <4>1. p[1] # Len(s) BY <1>7, <2>1, <2>3
                  <4> QED BY <4>1 DEF ModeAt
            <3> QED BY <2>1, <3>1, <3>2
      <2> QED BY <2>2, <2>3
<1>12. Moved(A) BY <1>5, <1>9, <1>11, ShrinkMoves DEF s
<1> QED BY <1>1, <1>12

\* Who runs what after Spawn.
AfterSpawn(t, w, k, ids, frames, m) ==
    /\ stack' \in [Tasks -> Seq(PlacedFrame)]
    /\ stack'[t] = Below(t) \o <<w>> /\ mode'[t] = "run"
    /\ \A c \in Tasks \ {t} :
          \/ stack'[c] = stack[c] /\ mode'[c] = mode[c]
          \/ \E i \in 1 .. k : ids[i] = c /\ stack'[c] = <<frames[i]>> /\ mode'[c] = m

LEMMA Spawned ==
    ASSUME NEW n, NEW A, IInv, OnceInv(n, A), NEW t \in Tasks, stack[t] # <<>>, mode[t] = "run",
           NEW w \in PlacedFrame, NEW k \in Nat, NEW ids \in [1 .. k -> Free],
           NEW frames, \A i \in 1 .. k : frames[i] \in PlacedFrame,
           NEW m, Spawn(t, w, ids, frames, m)
    PROVE  AfterSpawn(t, w, k, ids, frames, m)
<1> DEFINE started == Range(ids)
           Index(c) == CHOOSE i \in DOMAIN ids : ids[i] = c
           top == Append(Below(t), w)
<1>1. /\ stack' = [c \in Tasks |-> IF c = t THEN top
                                   ELSE IF c \in started THEN <<frames[Index(c)]>>
                                   ELSE stack[c]]
      /\ mode' = [c \in Tasks |-> IF c \in started THEN m ELSE mode[c]]
      BY DEF Spawn
<1>2. \A c \in started : Index(c) \in 1 .. k /\ ids[Index(c)] = c
      <2>1. DOMAIN ids = 1 .. k OBVIOUS
      <2> QED BY <2>1 DEF Range
<1>3. t \notin started
      <2>1. started \subseteq Free BY DEF Range
      <2> QED BY <2>1 DEF Free
<1>4. top = Below(t) \o <<w>> /\ top \in Seq(PlacedFrame)
      BY PlacedTop, AppendIsConcat, AppendProperties
<1>5. stack \in [Tasks -> Seq(PlacedFrame)] BY DEF OnceInv
<1>6. \A x \in PlacedFrame : <<x>> \in Seq(PlacedFrame) OBVIOUS
<1> HIDE DEF started, Index, top
<1>7. \A c \in started : <<frames[Index(c)]>> \in Seq(PlacedFrame) BY <1>2, <1>6
<1>8. stack' \in [Tasks -> Seq(PlacedFrame)] BY <1>1, <1>4, <1>5, <1>7
<1>9. stack'[t] = Below(t) \o <<w>> /\ mode'[t] = "run" BY <1>1, <1>3, <1>4
<1>10. ASSUME NEW c \in Tasks \ {t}
       PROVE  \/ stack'[c] = stack[c] /\ mode'[c] = mode[c]
              \/ \E i \in 1 .. k : ids[i] = c /\ stack'[c] = <<frames[i]>> /\ mode'[c] = m
      <2>1. CASE c \in started
            <3>1. stack'[c] = <<frames[Index(c)]>> /\ mode'[c] = m BY <1>1, <1>10, <2>1
            <3> QED BY <1>2, <2>1, <3>1
      <2>2. CASE c \notin started BY <1>1, <1>10, <2>2
      <2> QED BY <2>1, <2>2
<1> QED BY <1>8, <1>9, <1>10 DEF AfterSpawn

\* No new coroutine is on the way: t goes on as w.
LEMMA SpawnGoes ==
    ASSUME NEW n, NEW A, IInv, OnceInv(n, A), NEW t \in Tasks, stack[t] # <<>>, mode[t] = "run",
           NEW w \in PlacedFrame, NEW k \in Nat, NEW ids \in [1 .. k -> Free],
           NEW frames, \A i \in 1 .. k : frames[i] \in PlacedFrame,
           NEW m, Spawn(t, w, ids, frames, m),
           \A i \in 1 .. k : Spots(frames[i], m, A) = {},
           w.at # "list", Top(t).at # "list", w.node = Top(t).node,
           w.node \in A /\ Ahead(w, "run", A) => Ahead(Top(t), mode[t], A)
    PROVE  Goes(t, A)
<1>1. /\ stack' \in [Tasks -> Seq(PlacedFrame)]
      /\ stack' = [c \in Tasks |-> stack'[c]]
      /\ stack'[t] = Below(t) \o <<w>> /\ mode'[t] = "run"
      /\ \A c \in Tasks \ {t} :
            \/ stack'[c] = stack[c] /\ mode'[c] = mode[c]
            \/ \E i \in 1 .. k : ids[i] = c /\ stack'[c] = <<frames[i]>> /\ mode'[c] = m
      <2>1. AfterSpawn(t, w, k, ids, frames, m) BY Spawned
      <2> QED BY <2>1 DEF AfterSpawn
<1>2. ASSUME NEW c \in Tasks \ {t}
      PROVE  SitesOf(stack'[c], mode'[c], A) \subseteq SitesOf(stack[c], mode[c], A)
      <2>1. CASE stack'[c] = stack[c] /\ mode'[c] = mode[c] BY <2>1
      <2>2. ASSUME NEW i \in 1 .. k, stack'[c] = <<frames[i]>>, mode'[c] = m
            PROVE  SitesOf(stack'[c], mode'[c], A) = {}
            <3>1. frames[i] \in PlacedFrame /\ Spots(frames[i], m, A) = {} BY <2>2
            <3>2. frames[i] \in Frame BY <3>1 DEF PlacedFrame, GoodFrame
            <3>3. AtMostOne(Spots(frames[i], m, A)) BY <3>1 DEF AtMostOne
            <3>4. SitesOf(<<frames[i]>>, m, A) = {} BY <3>1, <3>2, <3>3, PassOne
            <3> QED BY <2>2, <3>4
      <2> QED BY <1>1, <1>2, <2>1, <2>2
<1>3. OthersKeep(t, A) BY <1>1, <1>2 DEF OthersKeep
<1>4. <<w>> \in Seq(PlacedFrame) /\ <<w>> # <<>> OBVIOUS
<1>5. w \in Frame BY DEF PlacedFrame, GoodFrame
<1>6. AtMostOne(Spots(w, "run", A)) BY NodeSpots
<1>7. Spots(w, "run", A) # {} => Spots(Top(t), mode[t], A) # {} BY NodeSpots
<1>8. Passes(SitesOf(<<Top(t)>>, mode[t], A), SitesOf(<<w>>, "run", A))
      BY <1>5, <1>6, <1>7, PlacedTop, PassOne
<1>9. AdvancesBy(t, <<w>>, "run", A) BY <1>1, <1>4, <1>8 DEF AdvancesBy
<1> QED BY <1>3, <1>4, <1>9 DEF Advances, Goes

\* The way does not go through the items of a batch.
LEMMA BatchItemGoes ==
    ASSUME NEW n, NEW A, OneWay(n, A), IInv, OnceInv(n, A), NEW t \in Tasks, BatchItem(t)
    PROVE  Goes(t, A)
<1> DEFINE f == Top(t)
           body == Successors[f.node]["body"]
           tooDeep == body # <<>> /\ f.depth + 1 > MaxDepth
           w == [f EXCEPT !.num = @ - 1]
           g == ListFrame(body, f.depth + 1, f.chain)
           m == IF tooDeep THEN "raise" ELSE "run"
<1>1. stack[t] # <<>> /\ f.at = "batch" /\ mode[t] = "run" /\ f.num > 0
      BY DEF BatchItem, At
<1>2. f \in PlacedFrame /\ f \in GoodFrame /\ f \in Frame /\ f.node \in Nodes
      BY <1>1, PlacedTop
<1>3. f.num - 1 \in Nat /\ f.num # 0 BY <1>1, <1>2 DEF Frame
<1>4. f.depth + 1 \in Nat /\ f.chain \in Seq(Workflows) BY <1>2 DEF Frame
<1>5. w \in Frame /\ w.at = f.at /\ w.node = f.node /\ w.chain = f.chain
      BY <1>2, <1>3 DEF Frame
<1>6. Spawn(t, w, Fresh(1), <<g>>, m) BY DEF BatchItem
<1>7. body \in Seq(Nodes) /\ "body" \in Handles BY <1>2, SuccessorsType DEF Handles
<1>8. Spots(g, m, A) = Entries(body, A) BY ListSpots
<1>9. Fresh(1) \in [1 .. 1 -> Free] BY FreshType DEF BatchItem
<1> HIDE DEF w, g, m, f
<1>10. IsInjective(f.chain) /\ Root \in Range(f.chain) /\ Kind[f.node] = "batch"
      BY <1>1, <1>2, <1>3 DEF PlacedFrame, GoodFrame
<1>11. g \in PlacedFrame BY <1>4, <1>7, <1>10, NewPlaced DEF g
<1>12. w \in GoodFrame BY <1>1, <1>2, <1>5, <1>10 DEF GoodFrame
<1>13. w \in PlacedFrame BY <1>1, <1>5, <1>10, <1>12 DEF PlacedFrame
<1>14. ~Meets(body, A)
      <2>1. Meets(body, A) =>
               <<Kind[f.node], "body">> \notin {<<"loop", "default">>, <<"batch", "body">>}
            BY <1>2, <1>7 DEF OneWay
      <2> QED BY <1>10, <2>1
<1>15. Spots(g, m, A) = {} BY <1>8, <1>14 DEF Entries, Meets
<1>16. Ahead(w, "run", A) => Ahead(f, mode[t], A) BY <1>1, <1>5 DEF Ahead
<1>17. \A i \in 1 .. 1 : <<g>>[i] = g OBVIOUS
<1>18. \A i \in 1 .. 1 : <<g>>[i] \in PlacedFrame /\ Spots(<<g>>[i], m, A) = {}
      BY <1>11, <1>15, <1>17
<1> DEFINE frames == <<g>>
           one == 1
<1>19. /\ one \in Nat /\ Fresh(1) \in [1 .. one -> Free] /\ Spawn(t, w, Fresh(1), frames, m)
       /\ \A i \in 1 .. one : frames[i] \in PlacedFrame /\ Spots(frames[i], m, A) = {}
      BY <1>6, <1>9, <1>18
<1> HIDE DEF frames, one
<1>20. w.at # "list" /\ f.at # "list" BY <1>1, <1>5
<1> QED BY <1>1, <1>5, <1>13, <1>16, <1>19, <1>20, SpawnGoes DEF f

\* A way through a branch goes on in one of the new coroutines, any other one
\* stays with t.
LEMMA ParallelStartMoves ==
    ASSUME NEW n, NEW A, OneWay(n, A), IInv, OnceInv(n, A), NEW t \in Tasks, ParallelStart(t)
    PROVE  Moved(A)
<1> DEFINE f == Top(t)
           branches == Successors[f.node]["branch"]
           k == Len(branches)
           ids == Fresh(k)
           frames == [i \in DOMAIN branches |-> NodeFrame(branches[i], f.depth + 1, f.chain)]
           w == [f EXCEPT !.at = "join"]
<1>1. stack[t] # <<>> /\ f.at = "try" /\ mode[t] = "run" BY DEF ParallelStart, At
<1>2. f \in PlacedFrame /\ f \in GoodFrame /\ f \in Frame /\ f.node \in Nodes
      BY <1>1, PlacedTop
<1>3. branches \in Seq(Nodes) /\ "branch" \in Handles
      BY <1>2, SuccessorsType DEF Handles
<1>4. /\ k \in Nat /\ DOMAIN branches = 1 .. k
      /\ \A i \in 1 .. k : branches[i] \in Nodes
      BY <1>3, LenProperties, ElementOfSeq
<1>5. f.depth + 1 \in Nat /\ f.chain \in Seq(Workflows) BY <1>2 DEF Frame
<1>6. IsInjective(f.chain) /\ Root \in Range(f.chain)
      <2> HIDE DEF f
      <2> QED BY <1>2 DEF PlacedFrame, GoodFrame
<1>7. \A i \in 1 .. k : frames[i] = NodeFrame(branches[i], f.depth + 1, f.chain)
      BY <1>4
<1>8. ids \in [1 .. k -> Free] BY <1>4, FreshType DEF ParallelStart
<1>9. w \in PlacedFrame /\ w.at = "join" /\ w.node = f.node BY <1>2, PlacedAt
<1>10. Spawn(t, w, ids, frames, "run") BY DEF ParallelStart
<1> HIDE DEF frames, w, ids, k
<1>11. \A i \in 1 .. k : frames[i] \in PlacedFrame
      BY <1>4, <1>5, <1>6, <1>7, NewPlaced
<1>12. \A i \in 1 .. k : /\ frames[i].at # "list"
                         /\ Spots(frames[i], "run", A) # {} <=> branches[i] \in A
      <2> SUFFICES ASSUME NEW i \in 1 .. k
                   PROVE  /\ frames[i].at # "list"
                          /\ Spots(frames[i], "run", A) # {} <=> branches[i] \in A
          OBVIOUS
      <2> DEFINE d == f.depth + 1
                 c == f.chain
                 y == branches[i]
      <2>1. frames[i] = NodeFrame(y, d, c) BY <1>7
      <2> HIDE DEF d, c, y
      <2>2. /\ NodeFrame(y, d, c).at # "list"
            /\ Spots(NodeFrame(y, d, c), "run", A) # {} <=> y \in A
            BY EnterSpots
      <2> QED BY <2>1, <2>2 DEF y
<1>13. Sole(branches, A) BY <1>2, <1>3 DEF OneWay
<1>14. Meets(branches, A) => f.node \in A /\ ~Caught(f.node, A) BY <1>2, <1>3, WayFacts
<1>15. Ahead(f, mode[t], A) BY <1>1 DEF Ahead
<1>16. w.at # "list" /\ f.at # "list" BY <1>1, <1>9
<1> HIDE DEF f, branches
<1>17. CASE ~Meets(branches, A)
      <2>1. \A i \in 1 .. k : Spots(frames[i], "run", A) = {}
            BY <1>4, <1>12, <1>17 DEF Meets
      <2>2. Goes(t, A)
            BY <1>1, <1>4, <1>8, <1>9, <1>10, <1>11, <1>15, <1>16, <2>1, SpawnGoes DEF f
      <2> QED BY <2>2, AdvanceMoves DEF Goes
<1>18. CASE Meets(branches, A)
      <2> DEFINE P == Sites(A)
                 Q == [c \in Tasks |-> SitesOf(stack'[c], mode'[c], A)]
                 b == Below(t)
      <2>1. /\ stack' \in [Tasks -> Seq(PlacedFrame)]
            /\ stack'[t] = b \o <<w>> /\ mode'[t] = "run"
            /\ \A c \in Tasks \ {t} :
                  \/ stack'[c] = stack[c] /\ mode'[c] = mode[c]
                  \/ \E i \in 1 .. k :
                        ids[i] = c /\ stack'[c] = <<frames[i]>> /\ mode'[c] = "run"
            <3>1. AfterSpawn(t, w, k, ids, frames, "run")
                  BY <1>1, <1>4, <1>8, <1>9, <1>10, <1>11, Spawned
            <3> QED BY <3>1 DEF AfterSpawn
      <2>2. Spots(f, mode[t], A) # {} BY <1>14, <1>15, <1>16, <1>18, NodeSpots
      <2>3. Spots(w, "run", A) = {}
            <3>1. ~Ahead(w, "run", A) BY <1>9, <1>14, <1>18 DEF Ahead, branches
            <3> QED BY <1>16, <3>1, NodeSpots
      <2>4. w \in Frame BY <1>9 DEF PlacedFrame, GoodFrame
      <2>5. AtMostOne(Spots(w, "run", A)) BY <2>3 DEF AtMostOne
      <2>6. /\ Passes(SitesOf(<<f>>, mode[t], A), SitesOf(<<w>>, "run", A))
            /\ SitesOf(<<f>>, mode[t], A) # {} /\ SitesOf(<<w>>, "run", A) = {}
            <3>1. Spots(w, "run", A) # {} => Spots(f, mode[t], A) # {} BY <2>3
            <3>2. /\ Passes(SitesOf(<<f>>, mode[t], A), SitesOf(<<w>>, "run", A))
                  /\ Spots(f, mode[t], A) # {} => SitesOf(<<f>>, mode[t], A) # {}
                  /\ Spots(w, "run", A) = {} => SitesOf(<<w>>, "run", A) = {}
                  BY <1>2, <2>4, <2>5, <3>1, PassOne
            <3> QED BY <2>2, <2>3, <3>2
      <2>7. b \in Seq(PlacedFrame) /\ stack[t] = b \o <<f>>
            BY <1>1, PlacedTop, FrontAndLast DEF Top, Below, f
      <2>8. b \in Seq(Frame)
            <3>1. PlacedFrame \subseteq Frame BY DEF PlacedFrame, GoodFrame
            <3> QED BY <2>7, <3>1, SeqMonotonic
      <2>9. <<w>> \in Seq(Frame) /\ <<w>> # <<>> BY <2>4
      <2>10. Lone(P) BY DEF OnceInv
      <2>11. P[t] = SitesOf(b \o <<f>>, mode[t], A) /\ Q[t] = SitesOf(b \o <<w>>, "run", A)
            BY <2>1, <2>7 DEF Sites
      <2>12. \A c \in Tasks : P[c] = SitesOf(stack[c], mode[c], A) BY DEF Sites
      <2>13. Sites(A)' = Q BY DEF Sites
      <2>14. \A c \in Tasks : Q[c] = SitesOf(stack'[c], mode'[c], A) OBVIOUS
      <2> HIDE DEF P, Q, b
      <2>15. AtMostOne(P[t]) BY <2>10 DEF Lone, AtMostOne
      <2>16. P[t] # {} /\ Q[t] = {}
            <3>1. AtMostOne(SitesOf(b \o <<f>>, mode[t], A)) BY <2>11, <2>15
            <3>2. AtMostOne(SitesOf(b \o <<f>>, mode[t], A)) /\ SitesOf(<<f>>, mode[t], A) # {} =>
                     /\ SitesOf(b \o <<f>>, mode[t], A) # {}
                     /\ SitesOf(<<w>>, "run", A) = {} => SitesOf(b \o <<w>>, "run", A) = {}
                  BY <1>2, <2>6, <2>8, <2>9, Advance
            <3> QED BY <2>6, <2>11, <3>1, <3>2
      <2>17. \A c \in Tasks \ {t} : P[c] = {} BY <2>10, <2>16 DEF Lone
      <2>18. ASSUME NEW c \in Tasks, NEW p \in Q[c]
             PROVE  p = <<1, 0>> /\ \E i \in 1 .. k : ids[i] = c /\ branches[i] \in A
            <3>1. c # t BY <2>16, <2>18
            <3>2. ~(stack'[c] = stack[c] /\ mode'[c] = mode[c])
                  BY <2>12, <2>14, <2>17, <2>18, <3>1
            <3>3. PICK i \in 1 .. k : ids[i] = c /\ stack'[c] = <<frames[i]>> /\ mode'[c] = "run"
                  BY <2>1, <2>18, <3>1, <3>2
            <3>4. p \in SitesOf(<<frames[i]>>, "run", A) BY <2>14, <2>18, <3>3
            <3>5. frames[i] \in Frame BY <1>11 DEF PlacedFrame, GoodFrame
            <3>6. PICK u \in Nat, v \in Nat : p = <<u, v>> BY <3>4 DEF SitesOf
            <3>7. u = 1 /\ v \in Spots(frames[i], "run", A) BY <3>4, <3>5, <3>6, FewSites
            <3>8. v = 0 BY <1>12, <3>7 DEF Spots
            <3>9. branches[i] \in A BY <1>12, <3>7
            <3> QED BY <3>3, <3>6, <3>7, <3>8, <3>9
      <2>19. Lone(Q)
            <3> SUFFICES ASSUME NEW c \in Tasks, NEW d \in Tasks, NEW p \in Q[c], NEW q \in Q[d]
                         PROVE  c = d /\ p = q
                BY DEF Lone
            <3>1. p = <<1, 0>> /\ q = <<1, 0>> BY <2>18
            <3>2. PICK i \in 1 .. k : ids[i] = c /\ branches[i] \in A BY <2>18
            <3>3. PICK j \in 1 .. k : ids[j] = d /\ branches[j] \in A BY <2>18
            <3>4. i = j BY <1>4, <1>13, <3>2, <3>3 DEF Sole
            <3> QED BY <3>1, <3>2, <3>3, <3>4
      <2>20. ~Gone(P) BY <2>16 DEF Gone
      <2> QED BY <2>1, <2>13, <2>19, <2>20 DEF Moved, P
<1> QED BY <1>17, <1>18

LEMMA GlobalTimeoutMoves ==
    ASSUME NEW n, NEW A, OnceInv(n, A), GlobalTimeout
    PROVE  Moved(A)
<1>1. Main \in Tasks BY GraphAssumption
<1>2. Reap(Main, Descendants(Main), <<>>, "done") BY DEF GlobalTimeout
<1>3. OthersKeep(Main, A) /\ stack'[Main] = <<>> /\ mode'[Main] = "done"
      BY <1>1, <1>2, ReapOthers
<1> QED BY <1>1, <1>3, NoSites, ShrinkMoves

\* A coroutine whose calls have ended only changes its mode.
LEMMA IdleMoves ==
    ASSUME NEW n, NEW A, IInv, OnceInv(n, A), NEW t \in Tasks, stack[t] = <<>>,
           stack' = stack, NEW m, mode' = [mode EXCEPT ![t] = m]
    PROVE  Moved(A)
<1>1. stack \in [Tasks -> Seq(PlacedFrame)] /\ DOMAIN mode = Tasks
      BY DEF OnceInv, IInv, TypeOK
<1>2. OthersKeep(t, A) BY <1>1 DEF OthersKeep
<1> QED BY <1>2, NoSites, ShrinkMoves

-----------------------------------------------------------------------------
(* The theorem *)

LEMMA MovedKeeps ==
    ASSUME NEW n, NEW A, OnceInv(n, A), Moved(A), ran'[n] = ran[n], status' # "new"
    PROVE  OnceInv(n, A)'
BY DEF OnceInv, Moved

\* Coroutines run only during the execution.
LEMMA Awake ==
    ASSUME IInv, NEW t \in Tasks, mode[t] \in Live
    PROVE  status = "running"
<1>1. CASE t = Main BY <1>1 DEF IInv, Modes
<1>2. CASE t # Main
      <2>1. mode[t] # "free" BY DEF Live
      <2>2. Waiting(Main) BY <1>2, <2>1, Alone
      <2>3. mode[Main] \in Live BY <2>2 DEF Waiting, Live
      <2> QED BY <2>3 DEF IInv, Modes
<1> QED BY <1>1, <1>2

\* A step that calls no executor of n.
LEMMA GoesKeeps ==
    ASSUME NEW n, NEW A, IInv, OnceInv(n, A), NEW t \in Tasks, mode[t] \in Live,
           Goes(t, A), ran'[n] = ran[n], status' = status
    PROVE  OnceInv(n, A)'
<1>1. Moved(A) BY AdvanceMoves DEF Goes
<1>2. status' # "new" BY Awake
<1> QED BY <1>1, <1>2, MovedKeeps

\* The call of n's executor: it was the first, and there is no second.
LEMMA PerformKeeps ==
    ASSUME NEW n \in Nodes, NEW A, OneWay(n, A), IInv, OnceInv(n, A), NEW t \in Tasks,
           NEW kinds, Perform(t, kinds)
    PROVE  OnceInv(n, A)'
<1>1. /\ stack[t] # <<>> /\ mode[t] \in Live /\ status' = status /\ Called(Top(t).node)
      BY DEF Perform, At, Live
<1>2. ran \in [Nodes -> 0 .. 2] BY DEF IInv, TypeOK
<1>3. Goes(t, A) BY PerformGoes
<1>4. CASE Top(t).node # n
      <2>1. ran'[n] = ran[n] BY <1>1, <1>2, <1>4 DEF Called
      <2> QED BY <1>1, <1>3, <2>1, GoesKeeps
<1>5. CASE Top(t).node = n
      <2>1. Exhausts(t, A) /\ SitesOf(<<Top(t)>>, mode[t], A) # {} BY <1>5, PerformGoes
      <2>2. OthersKeep(t, A) BY <1>3 DEF Goes
      <2>3. /\ stack' \in [Tasks -> Seq(PlacedFrame)]
            /\ ~Gone(Sites(A)) /\ Gone(Sites(A)') /\ Lone(Sites(A)')
            BY <1>1, <2>1, <2>2, ExhaustEnds
      <2>4. ran[n] = 0 BY <2>3 DEF OnceInv
      <2>5. ran'[n] = 1 BY <1>1, <1>2, <1>5, <2>4 DEF Called
      <2>6. status' # "new" BY <1>1, Awake
      <2> QED BY <2>3, <2>5, <2>6 DEF OnceInv
<1> QED BY <1>4, <1>5

LEMMA RetryKeeps ==
    ASSUME NEW n \in Nodes, NEW A, OneWay(n, A), IInv, OnceInv(n, A), NEW t \in Tasks, Retry(t)
    PROVE  OnceInv(n, A)'
<1>1. mode[t] \in Live /\ status' = status /\ Called(Top(t).node) BY DEF Retry, At, Live
<1>2. ran \in [Nodes -> 0 .. 2] BY DEF IInv, TypeOK
<1>3. Goes(t, A) /\ Top(t).node # n BY RetryGoes
<1>4. ran'[n] = ran[n] BY <1>1, <1>2, <1>3 DEF Called
<1> QED BY <1>1, <1>3, <1>4, GoesKeeps

LEMMA StepOnce ==
    ASSUME NEW n \in Nodes, NEW A, OneWay(n, A), IInv, OnceInv(n, A), NEW t \in Tasks, Step(t)
    PROVE  OnceInv(n, A)'
<1>1. CASE ListNext(t)
      <2>1. mode[t] \in Live /\ UNCHANGED <<ran, status>> BY <1>1 DEF ListNext, At, Live
      <2> QED BY <1>1, <2>1, ListNextGoes, GoesKeeps
<1>2. CASE Propagate(t) \/ AwaitReturned(t)
      <2>1. mode[t] \in Live /\ UNCHANGED <<ran, status>>
            BY <1>2 DEF Propagate, AwaitReturned, At, Live
      <2> QED BY <1>2, <2>1, EndsGo, GoesKeeps
<1>21. CASE Respond(t)
      <2>1. mode[t] \in Live /\ UNCHANGED <<ran, status>> BY <1>21 DEF Respond, At, Live
      <2> QED BY <1>21, <2>1, RespondGoes, GoesKeeps
<1>3. CASE Enter(t)
      <2>1. mode[t] \in Live /\ UNCHANGED <<ran, status>> BY <1>3 DEF Enter, At, Live
      <2> QED BY <1>3, <2>1, EnterGoes, GoesKeeps
<1>4. CASE ExecAction(t) \/ ExecStep(t) \/ ExecErrorHandler(t)
      BY <1>4, PerformKeeps DEF ExecAction, ExecStep, ExecErrorHandler
<1>5. CASE Choose(t)
      <2>1. mode[t] \in Live /\ UNCHANGED <<ran, status>> BY <1>5 DEF Choose, At, Live
      <2> QED BY <1>5, <2>1, ChooseGoes, GoesKeeps
<1>6. CASE Filter(t)
      <2>1. mode[t] \in Live /\ UNCHANGED <<ran, status>> BY <1>6 DEF Filter, At, Live
      <2> QED BY <1>6, <2>1, FilterGoes, GoesKeeps
<1>7. CASE CatchFirst(t) \/ CatchRetry(t)
      <2>1. mode[t] \in Live /\ UNCHANGED <<ran, status>>
            BY <1>7 DEF CatchFirst, CatchRetry, At, Live
      <2> QED BY <1>7, <2>1, CatchesGo, GoesKeeps
<1>8. CASE Retry(t) BY <1>8, RetryKeeps
<1>9. CASE HandleFailure(t)
      <2>1. mode[t] \in Live /\ UNCHANGED <<ran, status>> BY <1>9 DEF HandleFailure, At, Live
      <2> QED BY <1>9, <2>1, HandleFailureGoes, GoesKeeps
<1>10. CASE LoopStart(t)
      <2>1. mode[t] \in Live /\ UNCHANGED <<ran, status>> BY <1>10 DEF LoopStart, At, Live
      <2> QED BY <1>10, <2>1, LoopStartGoes, GoesKeeps
<1>11. CASE LoopNext(t)
      <2>1. mode[t] \in Live /\ UNCHANGED <<ran, status>> BY <1>11 DEF LoopNext, At, Live
      <2> QED BY <1>11, <2>1, LoopNextGoes, GoesKeeps
<1>12. CASE ChildStart(t)
      <2>1. mode[t] \in Live /\ UNCHANGED <<ran, status>> BY <1>12 DEF ChildStart, At, Live
      <2> QED BY <1>12, <2>1, ChildStartGoes, GoesKeeps
<1>13. CASE ChildEnd(t)
      <2>1. mode[t] \in Live /\ UNCHANGED <<ran, status>> BY <1>13 DEF ChildEnd, At, Live
      <2> QED BY <1>13, <2>1, ChildEndGoes, GoesKeeps
<1>14. CASE ParallelStart(t)
      <2>1. mode[t] \in Live /\ UNCHANGED <<ran, status>> BY <1>14 DEF ParallelStart, At, Live
      <2>2. status' # "new" BY <2>1, Awake
      <2> QED BY <1>14, <2>1, <2>2, ParallelStartMoves, MovedKeeps
<1>15. CASE Join(t)
      <2>1. mode[t] \in Live /\ UNCHANGED <<ran, status>> BY <1>15 DEF Join, At, Live
      <2> QED BY <1>15, <2>1, JoinGoes, GoesKeeps
<1>16. CASE BatchStart(t)
      <2>1. mode[t] \in Live /\ UNCHANGED <<ran, status>> BY <1>16 DEF BatchStart, At, Live
      <2> QED BY <1>16, <2>1, BatchStartGoes, GoesKeeps
<1>17. CASE BatchItem(t)
      <2>1. mode[t] \in Live /\ UNCHANGED <<ran, status>> BY <1>17 DEF BatchItem, At, Live
      <2> QED BY <1>17, <2>1, BatchItemGoes, GoesKeeps
<1>18. CASE GatherDone(t)
      <2>1. mode[t] \in Live /\ UNCHANGED <<ran, status>> BY <1>18 DEF GatherDone, At, Live
      <2> QED BY <1>18, <2>1, GatherDoneGoes, GoesKeeps
<1>19. ASSUME NEW c \in Tasks, BatchItemEnd(t, c) PROVE OnceInv(n, A)'
      <2>1. mode[t] \in Live /\ UNCHANGED <<ran, status>> BY <1>19 DEF BatchItemEnd, At, Live
      <2> QED BY <1>19, <2>1, BatchItemEndGoes, GoesKeeps
<1>20. CASE BranchEnd(t)
      <2>1. /\ mode[t] \in Live /\ stack[t] = <<>> /\ UNCHANGED <<stack, ran, status>>
            BY <1>20 DEF BranchEnd, Live
      <2>2. PICK m : mode' = [mode EXCEPT ![t] = m] BY <1>20 DEF BranchEnd
      <2>3. Moved(A) BY <2>1, <2>2, IdleMoves
      <2>4. status' # "new" BY <2>1, Awake
      <2> QED BY <2>1, <2>3, <2>4, MovedKeeps
<1> QED BY <1>1, <1>2, <1>3, <1>4, <1>5, <1>6, <1>7, <1>8, <1>9, <1>10, <1>11, <1>12, <1>13,
           <1>14, <1>15, <1>16, <1>17, <1>18, <1>19, <1>20, <1>21 DEF Step

\* The first call has one site: the way into A from the trigger is one edge.
LEMMA StartOnce ==
    ASSUME NEW n, NEW A, OneWay(n, A), IInv, OnceInv(n, A), Start
    PROVE  OnceInv(n, A)'
<1>1. PICK s \in Starts :
         stack' = [stack EXCEPT ![Main] =
                     <<IF s = "trigger" THEN ListFrame(AfterTrigger[Root], 0, <<Root>>)
                       ELSE NodeFrame(s, 0, <<Root>>)>>]
      BY DEF Start
<1> DEFINE chain == <<Root>>
           f == IF s = "trigger" THEN ListFrame(AfterTrigger[Root], 0, chain)
                ELSE NodeFrame(s, 0, chain)
<1>2. /\ status = "new" /\ status' = "running" /\ mode' = [mode EXCEPT ![Main] = "run"]
      /\ ran' = ran
      BY DEF Start
<1>3. chain \in Seq(Workflows) /\ IsInjective(chain) /\ Root \in Range(chain)
      BY GraphAssumption DEF IsInjective, Range
<1>4. AfterTrigger[Root] \in Seq(Nodes) /\ (s # "trigger" => s \in Nodes)
      BY GraphAssumption
<1>5. stack' = [stack EXCEPT ![Main] = <<f>>] BY <1>1
<1> HIDE DEF chain
<1>6. f \in PlacedFrame BY <1>3, <1>4, NewPlaced
<1>7. AtMostOne(Spots(f, "run", A))
      <2>1. CASE s = "trigger"
            <3>1. Spots(f, "run", A) = Entries(AfterTrigger[Root], A) BY <2>1, ListSpots
            <3>2. Sole(AfterTrigger[Root], A) BY GraphAssumption DEF OneWay
            <3> HIDE DEF f
            <3> QED BY <3>1, <3>2 DEF Sole, AtMostOne, Entries
      <2>2. CASE s # "trigger"
            <3>1. f.at # "list" BY <2>2, EnterSpots
            <3> HIDE DEF f
            <3> QED BY <3>1, NodeSpots
      <2> QED BY <2>1, <2>2
<1> HIDE DEF f
<1>8. Main \in Tasks /\ stack \in [Tasks -> Seq(PlacedFrame)] /\ DOMAIN mode = Tasks
      BY GraphAssumption DEF OnceInv, IInv, TypeOK
<1>9. \A c \in Tasks \ {Main} : stack'[c] = <<>> BY <1>2, <1>5, <1>8 DEF OnceInv
<1>10. stack'[Main] = <<f>> /\ mode'[Main] = "run" BY <1>2, <1>5, <1>8
<1>11. AtMostOne(SitesOf(<<f>>, "run", A))
      <2>1. f \in Frame BY <1>6 DEF PlacedFrame, GoodFrame
      <2>2. \A i, j \in Nat : <<i, j>> \in SitesOf(<<f>>, "run", A) <=>
               i = 1 /\ j \in Spots(f, "run", A)
            BY <2>1, FewSites
      <2>3. SitesOf(<<f>>, "run", A) \subseteq Nat \X Nat BY DEF SitesOf
      <2> SUFFICES ASSUME NEW p \in SitesOf(<<f>>, "run", A), NEW q \in SitesOf(<<f>>, "run", A)
                   PROVE  p = q
          BY DEF AtMostOne
      <2>4. PICK i \in Nat, j \in Nat : p = <<i, j>> BY <2>3
      <2>5. PICK u \in Nat, v \in Nat : q = <<u, v>> BY <2>3
      <2>6. i = 1 /\ u = 1 /\ j \in Spots(f, "run", A) /\ v \in Spots(f, "run", A)
            BY <2>2, <2>4, <2>5
      <2> QED BY <1>7, <2>4, <2>5, <2>6 DEF AtMostOne
<1> DEFINE Q == [c \in Tasks |-> SitesOf(stack'[c], mode'[c], A)]
<1>12. \A c \in Tasks \ {Main} : Q[c] = {} BY <1>9, NoSites
<1>13. AtMostOne(Q[Main]) BY <1>8, <1>10, <1>11
<1>14. Sites(A)' = Q BY DEF Sites
<1> HIDE DEF Q
<1>15. Lone(Q) BY <1>12, <1>13 DEF Lone, AtMostOne
<1>16. stack' \in [Tasks -> Seq(PlacedFrame)]
      <2>1. <<f>> \in Seq(PlacedFrame) BY <1>6
      <2> QED BY <1>5, <1>8, <2>1
<1>17. ran'[n] = 0 BY <1>2 DEF OnceInv
<1> QED BY <1>2, <1>14, <1>15, <1>16, <1>17 DEF OnceInv

LEMMA NextOnce ==
    ASSUME NEW n \in Nodes, NEW A, OneWay(n, A), IInv, OnceInv(n, A), [Next]_vars
    PROVE  OnceInv(n, A)'
<1>1. CASE Start BY <1>1, StartOnce
<1>2. CASE Finish
      <2>1. /\ stack[Main] = <<>> /\ stack' = stack /\ ran' = ran
            /\ mode' = [mode EXCEPT ![Main] = "done"]
            /\ status' \in {"success", "failed"} /\ Main \in Tasks
            BY <1>2, GraphAssumption DEF Finish
      <2>2. Moved(A) BY <2>1, IdleMoves
      <2> QED BY <2>1, <2>2, MovedKeeps
<1>3. CASE GlobalTimeout
      <2>1. Moved(A) BY <1>3, GlobalTimeoutMoves
      <2>2. ran' = ran /\ status' # "new" BY <1>3 DEF GlobalTimeout
      <2> QED BY <2>1, <2>2, MovedKeeps
<1>4. ASSUME NEW t \in Tasks, Step(t) PROVE OnceInv(n, A)' BY <1>4, StepOnce
<1>5. ASSUME NEW t \in Tasks, JoinTimeout(t) PROVE OnceInv(n, A)'
      <2>1. mode[t] \in Live /\ UNCHANGED <<ran, status>> BY <1>5 DEF JoinTimeout, At, Live
      <2> QED BY <1>5, <2>1, JoinTimeoutGoes, GoesKeeps
<1>6. ASSUME NEW t \in Tasks, ChildTimeout(t) PROVE OnceInv(n, A)'
      <2>1. mode[t] \in Live BY <1>6 DEF ChildTimeout, Live
      <2>2. Moved(A) /\ UNCHANGED <<ran, status>> BY <1>6, ChildTimeoutMoves
      <2>3. status' # "new" BY <2>1, <2>2, Awake
      <2> QED BY <2>2, <2>3, MovedKeeps
<1>7. CASE UNCHANGED vars BY <1>7 DEF vars, OnceInv, Sites
<1> QED BY <1>1, <1>2, <1>3, <1>4, <1>5, <1>6, <1>7 DEF Next, Done

LEMMA InitOnce ==
    ASSUME NEW n \in Nodes, NEW A, Init
    PROVE  OnceInv(n, A)
<1>1. \A t \in Tasks : stack[t] = <<>> BY DEF Init
<1>2. stack \in [Tasks -> Seq(PlacedFrame)] BY NoSites DEF Init
<1>3. \A t \in Tasks : Sites(A)[t] = {} BY <1>1, NoSites DEF Sites
<1>4. Lone(Sites(A)) /\ Gone(Sites(A)) BY <1>3 DEF Lone, Gone
<1>5. ran[n] = 0 BY DEF Init
<1> QED BY <1>1, <1>2, <1>4, <1>5 DEF OnceInv

\* Some way to n.
Way(n) == CHOOSE A \in SUBSET Nodes : OneWay(n, A)

Once == \A n \in OncePerRun : OnceInv(n, Way(n))

\* With policies stop and ignore, a node that one way leads to has its executor
\* called at most once in an execution: exceptions that pass through its
\* callers, handlers, timeouts and cancelled branches of core/workflow_engine.py
\* never lead to it again.
THEOREM EffectsNotRepeated ==
    ASSUME \A n \in OncePerRun : \E A \in SUBSET Nodes : OneWay(n, A)
    PROVE  Spec => []NoRepeatedEffects
<1>1. \A n \in OncePerRun : n \in Nodes /\ OneWay(n, Way(n))
      BY GraphAssumption DEF Way
<1>2. Init => Once
      BY <1>1, InitOnce DEF Once
<1>3. IInv /\ Once /\ [Next]_vars => Once'
      BY <1>1, NextOnce DEF Once
<1>4. Once => NoRepeatedEffects
      BY DEF Once, OnceInv, NoRepeatedEffects
<1> QED BY <1>2, <1>3, <1>4, Invariant, PTL DEF Spec

=============================================================================
