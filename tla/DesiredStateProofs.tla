------------------------- MODULE DesiredStateProofs -------------------------
(***************************************************************************)
(* Proofs about the merging of requests into a desired state               *)
(* (DesiredState), for any requests, lists of any length and any number of *)
(* handlers at a time.                                                     *)
(*                                                                         *)
(* The merge is made of loops over lists.  A loop is a recursive function  *)
(* of the number of iterations; RunExists shows that the function exists,  *)
(* a lemma per loop (the ...Steps) gives its value after every iteration,  *)
(* and UpTo, induction with a set for the predicate, shows what the whole  *)
(* loop does to the list (the ...Effect and ...Keeps).                     *)
(*                                                                         *)
(* PutInv is inductive because what holds of the row holds of the copies   *)
(* the handlers have read: a copy, however old, is saved or merged into.   *)
(***************************************************************************)
EXTENDS DesiredState, WellFoundedInduction, TLAPS

-----------------------------------------------------------------------------
(* Loops.                                                                  *)

\* Induction on the natural numbers up to n, with a set for the predicate.
LEMMA UpTo ==
  ASSUME NEW n \in Nat, NEW Good, 0 \in Good,
         \A k \in 1..n : k - 1 \in Good => k \in Good
  PROVE  \A k \in 0..n : k \in Good
<1> DEFINE Bad == {k \in 0..n : k \notin Good}
           R == OpToRel(<, Nat)
<1> SUFFICES ASSUME Bad # {} PROVE FALSE
  OBVIOUS
<1>1. IsWellFoundedOn(R, Nat)
  BY Zenon, NatLessThanWellFounded
<1>2. Bad \subseteq Nat
  OBVIOUS
<1> HIDE DEF Bad, R
<1>3. PICK x \in Bad : \A y \in Bad : ~ (<<y, x>> \in R)
  BY Zenon, <1>1, <1>2, WFMin
<1>4. \A y \in Bad : ~ (y < x)
  BY Zenon, <1>2, <1>3 DEF R, OpToRel
<1>5. x \in 1..n /\ x \notin Good
  BY <1>3 DEF Bad
<1>6. x - 1 \in Good
  BY <1>4, <1>5 DEF Bad
<1> QED BY <1>5, <1>6

\* g holds what n iterations of F make of base, after every one of them.
IsRun(g, n, V, base, F) ==
  /\ g \in [0..n -> V] /\ g[0] = base
  /\ \A k \in 1..n : g[k] = F[<<k, g[k - 1]>>]

\* There is such a function: the one that Loop chooses.
LEMMA RunExists ==
  ASSUME NEW n \in Nat, NEW V, NEW base \in V, NEW F \in [(1..n) \X V -> V]
  PROVE  \E g : IsRun(g, n, V, base, F)
<1> DEFINE Good == {m \in 0..n : \E g : IsRun(g, m, V, base, F)}
<1>0. 0 \in 0..n /\ n \in 0..n
  OBVIOUS
<1>1. 0 \in Good
  <2> DEFINE g == [k \in 0..0 |-> base]
  <2>1. IsRun(g, 0, V, base, F)
    BY DEF IsRun
  <2> HIDE DEF g
  <2> QED BY Zenon, <1>0, <2>1
<1>2. ASSUME NEW m \in 1..n, m - 1 \in Good PROVE m \in Good
  <2>1. PICK f : IsRun(f, m - 1, V, base, F)
    BY Zenon, <1>2
  <2> DEFINE g == [k \in 0..m |-> IF k = m THEN F[<<m, f[m - 1]>>] ELSE f[k]]
  <2>2. f[m - 1] \in V /\ F[<<m, f[m - 1]>>] \in V
    <3>1. m - 1 \in 0..(m - 1)
      OBVIOUS
    <3> QED BY <2>1, <3>1 DEF IsRun
  <2>3. \A k \in 0..(m - 1) : g[k] = f[k]
    OBVIOUS
  <2>4. g \in [0..m -> V]
    BY <2>1, <2>2 DEF IsRun
  <2>5. g[0] = base /\ g[m] = F[<<m, g[m - 1]>>]
    <3>1. /\ 0 \in 0..(m - 1) /\ m - 1 \in 0..(m - 1)
          /\ g[m] = F[<<m, f[m - 1]>>] /\ f[0] = base
      BY <2>1 DEF IsRun
    <3> QED BY Zenon, <2>3, <3>1
  <2>6. ASSUME NEW k \in 1..(m - 1) PROVE g[k] = F[<<k, g[k - 1]>>]
    <3>1. k \in 0..(m - 1) /\ k - 1 \in 0..(m - 1)
      OBVIOUS
    <3> QED BY <2>1, <2>3, <3>1 DEF IsRun
  <2> HIDE DEF g
  <2>7. m \in 0..n /\ \A k \in 1..m : k = m \/ k \in 1..(m - 1)
    OBVIOUS
  <2>8. IsRun(g, m, V, base, F)
    BY Zenon, <2>4, <2>5, <2>6, <2>7 DEF IsRun
  <2> QED BY Zenon, <2>7, <2>8
<1> HIDE DEF Good
<1>3. n \in Good
  BY Zenon, <1>0, <1>1, <1>2, UpTo
<1> QED BY Zenon, <1>3 DEF Good

\* The indices of a list.
Indices(a) == [i \in DOMAIN a |-> i]

\* The list of indices has the length of the list.
LEMMA IndicesOf ==
  ASSUME NEW S, NEW a \in Seq(S)
  PROVE  Indices(a) \in Seq(1..Len(a)) /\ Len(Indices(a)) = Len(a)
         /\ \A k \in 1..Len(a) : Indices(a)[k] = k
<1>1. Indices(a) \in [1..Len(a) -> 1..Len(a)] /\ Len(a) \in Nat
  BY DEF Indices
<1>2. Indices(a) \in Seq(1..Len(a))
  BY <1>1
<1>3. Len(Indices(a)) = Len(a)
  BY <1>1, <1>2
<1> QED BY <1>2, <1>3 DEF Indices

\* The position i, once for every element of rm that is equal to the i-th.
FoundAt(a, rm, s, i) == Loop(LAMBDA t, x : IF x = a[i] THEN Append(t, i) ELSE t, s, rm)

\* KeysOf are one to one with entries.
LEMMA KeysType ==
  ASSUME NEW e \in Seq(Entry)
  PROVE  KeysOf(e) \in Seq(Names) /\ Len(KeysOf(e)) = Len(e) /\ DOMAIN KeysOf(e) = 1..Len(e)
         /\ \A i \in 1..Len(e) : KeysOf(e)[i] = e[i].key
<1>1. DOMAIN e = 1..Len(e) /\ Len(e) \in Nat /\ \A i \in 1..Len(e) : e[i] \in Entry
  OBVIOUS
<1>2. KeysOf(e) = [i \in 1..Len(e) |-> e[i].key]
  BY <1>1 DEF KeysOf
<1>3. \A i \in 1..Len(e) : e[i].key \in Names
  BY <1>1 DEF Entry
<1>4. KeysOf(e) \in [1..Len(e) -> Names]
  BY <1>2, <1>3
<1>5. KeysOf(e) \in Seq(Names)
  BY <1>1, <1>4
<1>6. Len(KeysOf(e)) = Len(e)
  BY <1>1, <1>2, <1>4, <1>5
<1> QED BY <1>1, <1>2, <1>5, <1>6

\* addToken: a token that is there gets the val of the request, if it has one.
LEMMA AddTokenEffect ==
  ASSUME NEW v \in Seq(Entry), NEW t \in Entry, t.key \in Range(KeysOf(v))
  PROVE  /\ addToken(v, t) \in Seq(Entry) /\ Len(addToken(v, t)) = Len(v)
         /\ \A i \in 1..Len(v) :
              /\ addToken(v, t)[i].key = v[i].key
              /\ addToken(v, t)[i].val
                   = IF v[i].key = t.key /\ t.val # Nil THEN t.val ELSE v[i].val
<1> DEFINE w == [i \in 1..Len(v) |-> IF v[i].key = t.key
                                    THEN [v[i] EXCEPT !.val = overwrite(@, t.val)] ELSE v[i]]
<1>1. DOMAIN v = 1..Len(v) /\ Len(v) \in Nat /\ \A i \in 1..Len(v) : v[i] \in Entry
  OBVIOUS
<1>2. addToken(v, t) = w
  BY <1>1 DEF addToken
<1>3. ASSUME NEW i \in 1..Len(v)
      PROVE  /\ w[i] \in Entry /\ w[i].key = v[i].key
             /\ w[i].val = IF v[i].key = t.key /\ t.val # Nil THEN t.val ELSE v[i].val
  <2>1. v[i] \in Entry
    BY <1>1
  <2>2. CASE v[i].key = t.key
    <3>1. overwrite(v[i].val, t.val) \in Opt(Vals)
      BY <2>1 DEF Entry, overwrite
    <3>2. w[i] = [v[i] EXCEPT !.val = overwrite(v[i].val, t.val)]
      BY <2>2
    <3>3. w[i] \in Entry /\ w[i].key = v[i].key /\ w[i].val = overwrite(v[i].val, t.val)
      BY <2>1, <3>1, <3>2 DEF Entry
    <3> QED BY <2>2, <3>3 DEF overwrite
  <2>3. CASE v[i].key # t.key
    BY <2>1, <2>3
  <2> QED BY <2>2, <2>3
<1>4. w \in [1..Len(v) -> Entry] /\ DOMAIN w = 1..Len(v)
  BY <1>3
<1> HIDE DEF w
<1>5. w \in Seq(Entry)
  BY <1>1, <1>4
<1>6. Len(w) = Len(v)
  BY <1>1, <1>4, <1>5
<1> QED BY <1>2, <1>3, <1>5, <1>6

\* addToken makes a list of entries of a list of entries.
LEMMA AddTokenType ==
  ASSUME NEW v \in Seq(Entry), NEW t \in Entry
  PROVE  addToken(v, t) \in Seq(Entry)
<1>1. CASE t.key \in Range(KeysOf(v))
  BY <1>1, AddTokenEffect
<1>2. CASE t.key \notin Range(KeysOf(v))
  BY <1>2 DEF addToken
<1> QED BY <1>1, <1>2

\* Where the elements of a concatenation come from.
LEMMA ConcatEffect ==
  ASSUME NEW S, NEW l \in Seq(S), NEW r \in Seq(S)
  PROVE  /\ Len(l \o r) = Len(l) + Len(r)
         /\ \A j \in 1..(Len(l) + Len(r)) :
              (l \o r)[j] = IF j <= Len(l) THEN l[j] ELSE r[j - Len(l)]
OBVIOUS

\* One cut of the list.
RemoveAt(v, i) == SubSeq(v, 1, i - 1) \o SubSeq(v, i + 1, Len(v))

CutAt(v, i) == IF v = Panic \/ i > Len(v) THEN Panic ELSE RemoveAt(v, i)

\* What is left when the element at i is cut out.
LEMMA RemoveAtEffect ==
  ASSUME NEW S, NEW v \in Seq(S), NEW i \in 1..Len(v)
  PROVE  /\ RemoveAt(v, i) \in Seq(S) /\ Len(RemoveAt(v, i)) = Len(v) - 1
         /\ \A j \in 1..(Len(v) - 1) :
              RemoveAt(v, i)[j] = IF j < i THEN v[j] ELSE v[j + 1]
<1> DEFINE l == SubSeq(v, 1, i - 1)
           r == SubSeq(v, i + 1, Len(v))
<1>1. l \in Seq(S) /\ Len(l) = i - 1 /\ \A j \in 1..(i - 1) : l[j] = v[j]
  OBVIOUS
<1>2. r \in Seq(S) /\ Len(r) = Len(v) - i /\ \A j \in 1..(Len(v) - i) : r[j] = v[i + j]
  OBVIOUS
<1> HIDE DEF l, r
<1>3. /\ l \o r \in Seq(S) /\ Len(l \o r) = Len(v) - 1
      /\ \A j \in 1..(Len(v) - 1) : (l \o r)[j] = IF j < i THEN l[j] ELSE r[j - i + 1]
  <2>1. l \o r \in Seq(S)
    BY <1>1, <1>2
  <2>2. /\ Len(l \o r) = Len(l) + Len(r)
        /\ \A j \in 1..(Len(l) + Len(r)) :
             (l \o r)[j] = IF j <= Len(l) THEN l[j] ELSE r[j - Len(l)]
    BY Zenon, <1>1, <1>2, ConcatEffect
  <2>3. ASSUME NEW j \in 1..(Len(v) - 1)
        PROVE  (l \o r)[j] = IF j < i THEN l[j] ELSE r[j - i + 1]
    <3>1. j \in 1..(Len(l) + Len(r)) /\ (j <= Len(l) <=> j < i) /\ j - Len(l) = j - i + 1
      BY <1>1, <1>2
    <3> QED BY <2>2, <3>1
  <2> QED BY <1>1, <1>2, <2>1, <2>2, <2>3
<1>4. \A j \in 1..(Len(v) - 1) : (l \o r)[j] = IF j < i THEN v[j] ELSE v[j + 1]
  <2> SUFFICES ASSUME NEW j \in 1..(Len(v) - 1)
               PROVE  (l \o r)[j] = IF j < i THEN v[j] ELSE v[j + 1]
    BY Zenon
  <2>0. (l \o r)[j] = IF j < i THEN l[j] ELSE r[j - i + 1]
    BY Zenon, <1>3
  <2>1. CASE j < i
    <3>1. j \in 1..(i - 1)
      BY <2>1
    <3> QED BY Zenon, <1>1, <2>0, <2>1, <3>1
  <2>2. CASE ~ (j < i)
    <3>1. j - i + 1 \in 1..(Len(v) - i) /\ i + (j - i + 1) = j + 1
      BY <2>2
    <3>2. r[j - i + 1] = v[i + (j - i + 1)]
      BY Zenon, <1>2, <3>1
    <3> QED BY Zenon, <2>0, <2>2, <3>1, <3>2
  <2> QED BY Zenon, <2>1, <2>2
<1> QED BY Zenon, <1>3, <1>4 DEF RemoveAt, l, r

\* A cut leaves a list of the same elements, or panics.
LEMMA CutAtType ==
  ASSUME NEW S, NEW v \in Seq(S) \cup {Panic}, NEW i \in Nat \ {0}
  PROVE  CutAt(v, i) \in Seq(S) \cup {Panic}
  BY RemoveAtEffect DEF CutAt

\* addPaths appends one path after the other, those that are not there yet.
AddPathsRun(h, S, a, b) ==
  /\ h \in [0..Len(b) -> Seq(S)]
  /\ h[0] = a /\ addPaths(a, b) = h[Len(b)]
  /\ \A k \in 1..Len(b) :
       h[k] = IF b[k] \in Range(h[k - 1]) THEN h[k - 1] ELSE Append(h[k - 1], b[k])

\* The loop of addPaths, iteration by iteration.
LEMMA AddPathsSteps ==
  ASSUME NEW S, NEW a \in Seq(S), NEW b \in Seq(S)
  PROVE  \E h : AddPathsRun(h, S, a, b)
<1> DEFINE n == Len(b)
           V == Seq(S)
           Op(v, x) == IF x \in Range(v) THEN v ELSE Append(v, x)
           F == [q \in (1..n) \X V |-> Op(q[2], b[q[1]])]
           W == CHOOSE g : g = [k \in 0..n |-> IF k = 0 THEN a ELSE Op(g[k - 1], b[k])]
<1>1. n \in Nat /\ a \in V
  OBVIOUS
<1>2. addPaths(a, b) = W[n]
  BY Zenon DEF addPaths, Loop
<1>3. ASSUME NEW v \in V, NEW k \in 1..n PROVE Op(v, b[k]) \in V
  OBVIOUS
<1> HIDE DEF n, V, Op, W
<1>4. F \in [(1..n) \X V -> V] /\ \A k \in 1..n, v \in V : F[<<k, v>>] = Op(v, b[k])
  BY <1>3
<1> HIDE DEF F
<1>5. PICK g : IsRun(g, n, V, a, F)
  BY Zenon, <1>1, <1>4, RunExists
<1>6. \A k \in 0..n : k # 0 => k \in 1..n /\ k - 1 \in 0..n
  BY <1>1
<1>7. g = [k \in 0..n |-> IF k = 0 THEN a ELSE Op(g[k - 1], b[k])]
  BY Zenon, <1>4, <1>5, <1>6 DEF IsRun
<1>8. W = [k \in 0..n |-> IF k = 0 THEN a ELSE Op(W[k - 1], b[k])]
  BY Zenon, <1>7 DEF W
<1>9. 0 \in 0..n /\ n \in 0..n /\ \A k \in 1..n : k \in 0..n /\ k # 0
  BY <1>1
<1>10. W[0] = a /\ \A k \in 1..n : W[k] = Op(W[k - 1], b[k])
  BY Zenon, <1>8, <1>9
<1> DEFINE Good == {k \in 0..n : W[k] \in V}
<1>11. 0 \in Good /\ \A k \in 1..n : k - 1 \in Good => k \in Good
  BY Zenon, <1>1, <1>3, <1>9, <1>10
<1> HIDE DEF Good
<1>12. \A k \in 0..n : k \in Good
  BY Zenon, <1>1, <1>11, UpTo
<1>13. W \in [0..n -> V]
  BY Zenon, <1>8, <1>12 DEF Good
<1> QED BY Zenon, <1>2, <1>10, <1>13 DEF AddPathsRun, n, V, Op

\* removeIPs looks at one address after the other.
RemoveIPsRun(h, S, a, req) ==
  /\ h \in [0..Len(a) -> Seq(S)]
  /\ h[0] = <<>> /\ removeIPs(a, req) = h[Len(a)]
  /\ \A k \in 1..Len(a) :
       h[k] = IF a[k] \in Range(req) THEN h[k - 1] ELSE Append(h[k - 1], a[k])

\* The loop of removeIPs, iteration by iteration.
LEMMA RemoveIPsSteps ==
  ASSUME NEW S, NEW a \in Seq(S), NEW req
  PROVE  \E h : RemoveIPsRun(h, S, a, req)
<1> DEFINE n == Len(a)
           V == Seq(S)
           Op(v, x) == IF x \in Range(req) THEN v ELSE Append(v, x)
           F == [q \in (1..n) \X V |-> Op(q[2], a[q[1]])]
           W == CHOOSE g : g = [k \in 0..n |-> IF k = 0 THEN <<>> ELSE Op(g[k - 1], a[k])]
<1>1. n \in Nat /\ <<>> \in V
  OBVIOUS
<1>2. removeIPs(a, req) = W[n]
  BY Zenon DEF removeIPs, Loop
<1>3. ASSUME NEW v \in V, NEW k \in 1..n PROVE Op(v, a[k]) \in V
  OBVIOUS
<1> HIDE DEF n, V, Op, W
<1>4. F \in [(1..n) \X V -> V] /\ \A k \in 1..n, v \in V : F[<<k, v>>] = Op(v, a[k])
  BY <1>3
<1> HIDE DEF F
<1>5. PICK g : IsRun(g, n, V, <<>>, F)
  BY Zenon, <1>1, <1>4, RunExists
<1>6. \A k \in 0..n : k # 0 => k \in 1..n /\ k - 1 \in 0..n
  BY <1>1
<1>7. g = [k \in 0..n |-> IF k = 0 THEN <<>> ELSE Op(g[k - 1], a[k])]
  BY Zenon, <1>4, <1>5, <1>6 DEF IsRun
<1>8. W = [k \in 0..n |-> IF k = 0 THEN <<>> ELSE Op(W[k - 1], a[k])]
  BY Zenon, <1>7 DEF W
<1>9. 0 \in 0..n /\ n \in 0..n /\ \A k \in 1..n : k \in 0..n /\ k # 0
  BY <1>1
<1>10. W[0] = <<>> /\ \A k \in 1..n : W[k] = Op(W[k - 1], a[k])
  BY Zenon, <1>8, <1>9
<1> DEFINE Good == {k \in 0..n : W[k] \in V}
<1>11. 0 \in Good /\ \A k \in 1..n : k - 1 \in Good => k \in Good
  BY Zenon, <1>1, <1>3, <1>9, <1>10
<1> HIDE DEF Good
<1>12. \A k \in 0..n : k \in Good
  BY Zenon, <1>1, <1>11, UpTo
<1>13. W \in [0..n -> V]
  BY Zenon, <1>8, <1>12 DEF Good
<1> QED BY Zenon, <1>2, <1>10, <1>13 DEF RemoveIPsRun, n, V, Op

\* BasicAuth.Merge adds one user after the other.
AddUserRun(h, a, b) ==
  /\ h \in [0..Len(b) -> Seq(Entry)]
  /\ h[0] = a /\ Loop(addUser, a, b) = h[Len(b)]
  /\ \A k \in 1..Len(b) : h[k] = addUser(h[k - 1], b[k])

\* The loop over the users to add, iteration by iteration.
LEMMA AddUserSteps ==
  ASSUME NEW a \in Seq(Entry), NEW b \in Seq(Entry)
  PROVE  \E h : AddUserRun(h, a, b)
<1> DEFINE n == Len(b)
           V == Seq(Entry)
           Op(v, x) == addUser(v, x)
           F == [q \in (1..n) \X V |-> Op(q[2], b[q[1]])]
           W == CHOOSE g : g = [k \in 0..n |-> IF k = 0 THEN a ELSE Op(g[k - 1], b[k])]
<1>1. n \in Nat /\ a \in V
  OBVIOUS
<1>2. Loop(addUser, a, b) = W[n]
  BY Zenon DEF Loop
<1>3. ASSUME NEW v \in V, NEW k \in 1..n PROVE Op(v, b[k]) \in V
  BY DEF addUser
<1> HIDE DEF n, V, Op, W
<1>4. F \in [(1..n) \X V -> V] /\ \A k \in 1..n, v \in V : F[<<k, v>>] = Op(v, b[k])
  BY <1>3
<1> HIDE DEF F
<1>5. PICK g : IsRun(g, n, V, a, F)
  BY Zenon, <1>1, <1>4, RunExists
<1>6. \A k \in 0..n : k # 0 => k \in 1..n /\ k - 1 \in 0..n
  BY <1>1
<1>7. g = [k \in 0..n |-> IF k = 0 THEN a ELSE Op(g[k - 1], b[k])]
  BY Zenon, <1>4, <1>5, <1>6 DEF IsRun
<1>8. W = [k \in 0..n |-> IF k = 0 THEN a ELSE Op(W[k - 1], b[k])]
  BY Zenon, <1>7 DEF W
<1>9. 0 \in 0..n /\ n \in 0..n /\ \A k \in 1..n : k \in 0..n /\ k # 0
  BY <1>1
<1>10. W[0] = a /\ \A k \in 1..n : W[k] = Op(W[k - 1], b[k])
  BY Zenon, <1>8, <1>9
<1> DEFINE Good == {k \in 0..n : W[k] \in V}
<1>11. 0 \in Good /\ \A k \in 1..n : k - 1 \in Good => k \in Good
  BY Zenon, <1>1, <1>3, <1>9, <1>10
<1> HIDE DEF Good
<1>12. \A k \in 0..n : k \in Good
  BY Zenon, <1>1, <1>11, UpTo
<1>13. W \in [0..n -> V]
  BY Zenon, <1>8, <1>12 DEF Good
<1> QED BY Zenon, <1>2, <1>10, <1>13 DEF AddUserRun, n, V, Op

\* TokenAuth.Merge adds one token after the other.
AddTokenRun(h, a, b) ==
  /\ h \in [0..Len(b) -> Seq(Entry)]
  /\ h[0] = a /\ Loop(addToken, a, b) = h[Len(b)]
  /\ \A k \in 1..Len(b) : h[k] = addToken(h[k - 1], b[k])

\* The loop over the tokens to add, iteration by iteration.
LEMMA AddTokenSteps ==
  ASSUME NEW a \in Seq(Entry), NEW b \in Seq(Entry)
  PROVE  \E h : AddTokenRun(h, a, b)
<1> DEFINE n == Len(b)
           V == Seq(Entry)
           Op(v, x) == addToken(v, x)
           F == [q \in (1..n) \X V |-> Op(q[2], b[q[1]])]
           W == CHOOSE g : g = [k \in 0..n |-> IF k = 0 THEN a ELSE Op(g[k - 1], b[k])]
<1>1. n \in Nat /\ a \in V
  OBVIOUS
<1>2. Loop(addToken, a, b) = W[n]
  BY Zenon DEF Loop
<1>3. ASSUME NEW v \in V, NEW k \in 1..n PROVE Op(v, b[k]) \in V
  BY AddTokenType
<1> HIDE DEF n, V, Op, W
<1>4. F \in [(1..n) \X V -> V] /\ \A k \in 1..n, v \in V : F[<<k, v>>] = Op(v, b[k])
  BY <1>3
<1> HIDE DEF F
<1>5. PICK g : IsRun(g, n, V, a, F)
  BY Zenon, <1>1, <1>4, RunExists
<1>6. \A k \in 0..n : k # 0 => k \in 1..n /\ k - 1 \in 0..n
  BY <1>1
<1>7. g = [k \in 0..n |-> IF k = 0 THEN a ELSE Op(g[k - 1], b[k])]
  BY Zenon, <1>4, <1>5, <1>6 DEF IsRun
<1>8. W = [k \in 0..n |-> IF k = 0 THEN a ELSE Op(W[k - 1], b[k])]
  BY Zenon, <1>7 DEF W
<1>9. 0 \in 0..n /\ n \in 0..n /\ \A k \in 1..n : k \in 0..n /\ k # 0
  BY <1>1
<1>10. W[0] = a /\ \A k \in 1..n : W[k] = Op(W[k - 1], b[k])
  BY Zenon, <1>8, <1>9
<1> DEFINE Good == {k \in 0..n : W[k] \in V}
<1>11. 0 \in Good /\ \A k \in 1..n : k - 1 \in Good => k \in Good
  BY Zenon, <1>1, <1>3, <1>9, <1>10
<1> HIDE DEF Good
<1>12. \A k \in 0..n : k \in Good
  BY Zenon, <1>1, <1>11, UpTo
<1>13. W \in [0..n -> V]
  BY Zenon, <1>8, <1>12 DEF Good
<1> QED BY Zenon, <1>2, <1>10, <1>13 DEF AddTokenRun, n, V, Op

\* The elements to remove are compared with the i-th one after the other.
FoundAtRun(h, S, a, rm, s, i) ==
  /\ h \in [0..Len(rm) -> Seq(1..Len(a))]
  /\ h[0] = s /\ FoundAt(a, rm, s, i) = h[Len(rm)]
  /\ \A k \in 1..Len(rm) : h[k] = IF rm[k] = a[i] THEN Append(h[k - 1], i) ELSE h[k - 1]

\* The inner loop of removeAt, iteration by iteration.
LEMMA FoundAtSteps ==
  ASSUME NEW S, NEW a \in Seq(S), NEW rm \in Seq(S), NEW s \in Seq(1..Len(a)),
         NEW i \in 1..Len(a)
  PROVE  \E h : FoundAtRun(h, S, a, rm, s, i)
<1> DEFINE n == Len(rm)
           V == Seq(1..Len(a))
           Op(v, x) == IF x = a[i] THEN Append(v, i) ELSE v
           F == [q \in (1..n) \X V |-> Op(q[2], rm[q[1]])]
           W == CHOOSE g : g = [k \in 0..n |-> IF k = 0 THEN s ELSE Op(g[k - 1], rm[k])]
<1>1. n \in Nat /\ s \in V
  OBVIOUS
<1>2. FoundAt(a, rm, s, i) = W[n]
  BY Zenon DEF FoundAt, Loop
<1>3. ASSUME NEW v \in V, NEW k \in 1..n PROVE Op(v, rm[k]) \in V
  <2>1. v \in Seq(1..Len(a)) /\ Append(v, i) \in Seq(1..Len(a))
    OBVIOUS
  <2> QED BY Zenon, <2>1
<1> HIDE DEF n, V, Op, W
<1>4. F \in [(1..n) \X V -> V] /\ \A k \in 1..n, v \in V : F[<<k, v>>] = Op(v, rm[k])
  BY <1>3
<1> HIDE DEF F
<1>5. PICK g : IsRun(g, n, V, s, F)
  BY Zenon, <1>1, <1>4, RunExists
<1>6. \A k \in 0..n : k # 0 => k \in 1..n /\ k - 1 \in 0..n
  BY <1>1
<1>7. g = [k \in 0..n |-> IF k = 0 THEN s ELSE Op(g[k - 1], rm[k])]
  BY Zenon, <1>4, <1>5, <1>6 DEF IsRun
<1>8. W = [k \in 0..n |-> IF k = 0 THEN s ELSE Op(W[k - 1], rm[k])]
  BY Zenon, <1>7 DEF W
<1>9. 0 \in 0..n /\ n \in 0..n /\ \A k \in 1..n : k \in 0..n /\ k # 0
  BY <1>1
<1>10. W[0] = s /\ \A k \in 1..n : W[k] = Op(W[k - 1], rm[k])
  BY Zenon, <1>8, <1>9
<1> DEFINE Good == {k \in 0..n : W[k] \in V}
<1>11. 0 \in Good /\ \A k \in 1..n : k - 1 \in Good => k \in Good
  BY Zenon, <1>1, <1>3, <1>9, <1>10
<1> HIDE DEF Good
<1>12. \A k \in 0..n : k \in Good
  BY Zenon, <1>1, <1>11, UpTo
<1>13. W \in [0..n -> V]
  BY Zenon, <1>8, <1>12 DEF Good
<1> QED BY Zenon, <1>2, <1>10, <1>13 DEF FoundAtRun, n, V, Op

\* cut removes the element at one position after the other.
CutRun(h, S, a, b) ==
  /\ h \in [0..Len(b) -> Seq(S) \cup {Panic}]
  /\ h[0] = a /\ cut(a, b) = h[Len(b)]
  /\ \A k \in 1..Len(b) : h[k] = CutAt(h[k - 1], b[k])

\* The loop of cut, iteration by iteration.
LEMMA CutSteps ==
  ASSUME NEW S, NEW a \in Seq(S), NEW b \in Seq(Nat \ {0})
  PROVE  \E h : CutRun(h, S, a, b)
<1> DEFINE n == Len(b)
           V == Seq(S) \cup {Panic}
           Op(v, x) == CutAt(v, x)
           F == [q \in (1..n) \X V |-> Op(q[2], b[q[1]])]
           W == CHOOSE g : g = [k \in 0..n |-> IF k = 0 THEN a ELSE Op(g[k - 1], b[k])]
<1>1. n \in Nat /\ a \in V
  OBVIOUS
<1>2. cut(a, b) = W[n]
  BY Zenon DEF cut, CutAt, RemoveAt, Loop
<1>3. ASSUME NEW v \in V, NEW k \in 1..n PROVE Op(v, b[k]) \in V
  <2>1. b[k] \in Nat \ {0}
    OBVIOUS
  <2> QED BY Zenon, <2>1, CutAtType
<1> HIDE DEF n, V, Op, W
<1>4. F \in [(1..n) \X V -> V] /\ \A k \in 1..n, v \in V : F[<<k, v>>] = Op(v, b[k])
  BY <1>3
<1> HIDE DEF F
<1>5. PICK g : IsRun(g, n, V, a, F)
  BY Zenon, <1>1, <1>4, RunExists
<1>6. \A k \in 0..n : k # 0 => k \in 1..n /\ k - 1 \in 0..n
  BY <1>1
<1>7. g = [k \in 0..n |-> IF k = 0 THEN a ELSE Op(g[k - 1], b[k])]
  BY Zenon, <1>4, <1>5, <1>6 DEF IsRun
<1>8. W = [k \in 0..n |-> IF k = 0 THEN a ELSE Op(W[k - 1], b[k])]
  BY Zenon, <1>7 DEF W
<1>9. 0 \in 0..n /\ n \in 0..n /\ \A k \in 1..n : k \in 0..n /\ k # 0
  BY <1>1
<1>10. W[0] = a /\ \A k \in 1..n : W[k] = Op(W[k - 1], b[k])
  BY Zenon, <1>8, <1>9
<1> DEFINE Good == {k \in 0..n : W[k] \in V}
<1>11. 0 \in Good /\ \A k \in 1..n : k - 1 \in Good => k \in Good
  BY Zenon, <1>1, <1>3, <1>9, <1>10
<1> HIDE DEF Good
<1>12. \A k \in 0..n : k \in Good
  BY Zenon, <1>1, <1>11, UpTo
<1>13. W \in [0..n -> V]
  BY Zenon, <1>8, <1>12 DEF Good
<1> QED BY Zenon, <1>2, <1>10, <1>13 DEF CutRun, n, V, Op

-----------------------------------------------------------------------------
(* What the merge makes of lists.                                          *)

\* An element that is not there yet is appended.
LEMMA AppendDistinct ==
  ASSUME NEW S, NEW s \in Seq(S), NEW e \in S, IsInjective(s), e \notin Range(s)
  PROVE  IsInjective(Append(s, e))
<1> DEFINE t == Append(s, e)
<1>1. /\ DOMAIN t = 1..(Len(s) + 1) /\ DOMAIN s = 1..Len(s) /\ Len(s) \in Nat
      /\ t[Len(s) + 1] = e /\ \A i \in 1..Len(s) : t[i] = s[i]
  OBVIOUS
<1> HIDE DEF t
<1>2. \A i \in 1..Len(s) : t[i] # e
  BY Zenon, <1>1 DEF Range
<1>3. IsInjective(t)
  BY <1>1, <1>2 DEF IsInjective
<1> QED BY Zenon, <1>3 DEF t

\* The elements of a list after an Append.
LEMMA AppendSet ==
  ASSUME NEW S, NEW s \in Seq(S), NEW e \in S
  PROVE  Range(Append(s, e)) = Range(s) \cup {e}
<1> DEFINE t == Append(s, e)
<1>1. t \in Seq(S) /\ Len(t) = Len(s) + 1 /\ t[Len(t)] = e
      /\ DOMAIN t = 1..(Len(s) + 1) /\ DOMAIN s = 1..Len(s) /\ Len(s) \in Nat
      /\ \A i \in 1..Len(s) : t[i] = s[i]
  OBVIOUS
<1> HIDE DEF t
<1>2. ASSUME NEW x \in Range(t) PROVE x \in Range(s) \cup {e}
  BY <1>1, <1>2 DEF Range
<1>3. ASSUME NEW x \in Range(s) PROVE x \in Range(t)
  BY <1>1, <1>3 DEF Range
<1>4. e \in Range(t)
  BY <1>1 DEF Range
<1> QED BY <1>2, <1>3, <1>4 DEF t

\* addPaths: a union that keeps the elements distinct.
LEMMA AddPathsEffect ==
  ASSUME NEW S, NEW a \in Seq(S), NEW b \in Seq(S)
  PROVE  /\ addPaths(a, b) \in Seq(S)
         /\ Range(addPaths(a, b)) = Range(a) \cup Range(b)
         /\ IsInjective(a) => IsInjective(addPaths(a, b))
<1>0. Len(b) \in Nat /\ DOMAIN b = 1..Len(b)
  OBVIOUS
<1>1. PICK h : AddPathsRun(h, S, a, b)
  BY Zenon, AddPathsSteps
<1>2. /\ h \in [0..Len(b) -> Seq(S)] /\ h[0] = a /\ addPaths(a, b) = h[Len(b)]
      /\ \A k \in 1..Len(b) :
           h[k] = IF b[k] \in Range(h[k - 1]) THEN h[k - 1] ELSE Append(h[k - 1], b[k])
  BY Zenon, <1>1 DEF AddPathsRun
<1> DEFINE Good == {k \in 0..Len(b) : /\ Range(h[k]) = Range(a) \cup {b[i] : i \in 1..k}
                                      /\ IsInjective(a) => IsInjective(h[k])}
<1>3. 0 \in Good
  BY <1>0, <1>2
<1>4. ASSUME NEW k \in 1..Len(b), k - 1 \in Good PROVE k \in Good
  <2>0. k - 1 \in 0..Len(b) /\ k \in 0..Len(b) /\ b[k] \in S
    BY <1>0
  <2>1. h[k - 1] \in Seq(S) /\ b[k] \in S /\ k \in 0..Len(b)
    BY Zenon, <1>2, <2>0
  <2>2. {b[i] : i \in 1..k} = {b[i] : i \in 1..(k - 1)} \cup {b[k]}
    <3>1. 1..k = (1..(k - 1)) \cup {k}
      BY <1>0
    <3> QED BY Zenon, <3>1
  <2>3. Range(h[k - 1]) = Range(a) \cup {b[i] : i \in 1..(k - 1)}
        /\ (IsInjective(a) => IsInjective(h[k - 1]))
    BY <1>4
  <2>4. CASE b[k] \in Range(h[k - 1])
    <3>1. h[k] = h[k - 1]
      BY <1>2, <2>4
    <3>2. Range(h[k]) = Range(a) \cup {b[i] : i \in 1..k}
      BY <2>2, <2>3, <2>4, <3>1
    <3> QED BY <2>1, <2>3, <3>1, <3>2
  <2>5. CASE b[k] \notin Range(h[k - 1])
    <3>1. h[k] = Append(h[k - 1], b[k])
      BY Zenon, <1>2, <2>5
    <3>2. Range(h[k]) = Range(h[k - 1]) \cup {b[k]}
      BY <2>1, <3>1, AppendSet
    <3>3. IsInjective(a) => IsInjective(h[k])
      <4>1. IsInjective(h[k - 1]) => IsInjective(Append(h[k - 1], b[k]))
        BY <2>1, <2>5, AppendDistinct
      <4> QED BY Zenon, <2>3, <3>1, <4>1
    <3>4. Range(h[k]) = Range(a) \cup {b[i] : i \in 1..k}
      BY <2>2, <2>3, <3>2
    <3> QED BY <2>1, <3>3, <3>4
  <2> QED BY <2>4, <2>5
<1> HIDE DEF Good
<1>5. Len(b) \in Good
  <2>1. \A k \in 0..Len(b) : k \in Good
    BY Zenon, <1>0, <1>3, <1>4, UpTo
  <2> QED BY <1>0, <2>1
<1>6. Range(b) = {b[i] : i \in 1..Len(b)} /\ Len(b) \in 0..Len(b)
  BY <1>0 DEF Range
<1> QED BY Zenon, <1>2, <1>5, <1>6 DEF Good

\* removeIPs: a difference that keeps the elements distinct.
LEMMA RemoveIPsEffect ==
  ASSUME NEW S, NEW a \in Seq(S), NEW req \in Seq(S)
  PROVE  /\ removeIPs(a, req) \in Seq(S)
         /\ Range(removeIPs(a, req)) = Range(a) \ Range(req)
         /\ IsInjective(a) => IsInjective(removeIPs(a, req))
<1>0. Len(a) \in Nat /\ DOMAIN a = 1..Len(a)
  OBVIOUS
<1>1. PICK h : RemoveIPsRun(h, S, a, req)
  BY Zenon, RemoveIPsSteps
<1>2. /\ h \in [0..Len(a) -> Seq(S)] /\ h[0] = <<>> /\ removeIPs(a, req) = h[Len(a)]
      /\ \A k \in 1..Len(a) :
           h[k] = IF a[k] \in Range(req) THEN h[k - 1] ELSE Append(h[k - 1], a[k])
  BY Zenon, <1>1 DEF RemoveIPsRun
<1> DEFINE Before(k) == {a[i] : i \in 1..k}
           Good == {k \in 0..Len(a) : /\ Range(h[k]) = Before(k) \ Range(req)
                                      /\ IsInjective(a) => IsInjective(h[k])}
<1>3. 0 \in Good
  BY <1>0, <1>2 DEF Range, IsInjective
<1>4. ASSUME NEW k \in 1..Len(a), k - 1 \in Good PROVE k \in Good
  <2>0. k - 1 \in 0..Len(a) /\ k \in 0..Len(a) /\ a[k] \in S
    BY <1>0
  <2>1. h[k - 1] \in Seq(S) /\ a[k] \in S /\ k \in 0..Len(a)
    BY Zenon, <1>2, <2>0
  <2>2. Before(k) = Before(k - 1) \cup {a[k]}
    BY <1>0
  <2>3. /\ Range(h[k - 1]) = Before(k - 1) \ Range(req)
        /\ IsInjective(a) => IsInjective(h[k - 1])
    BY <1>4
  <2>4. CASE a[k] \in Range(req)
    <3>1. h[k] = h[k - 1]
      BY Zenon, <1>2, <2>4
    <3>2. Range(h[k]) = Before(k) \ Range(req)
      <4> HIDE DEF Before
      <4> QED BY <2>2, <2>3, <2>4, <3>1
    <3> QED BY <2>1, <2>3, <3>1, <3>2
  <2>5. CASE a[k] \notin Range(req)
    <3>1. h[k] = Append(h[k - 1], a[k])
      BY Zenon, <1>2, <2>5
    <3>2. Range(h[k]) = Range(h[k - 1]) \cup {a[k]}
      BY <2>1, <3>1, AppendSet
    <3>3. Range(h[k]) = Before(k) \ Range(req)
      <4> HIDE DEF Before
      <4> QED BY <2>2, <2>3, <2>5, <3>2
    <3>4. IsInjective(a) => a[k] \notin Range(h[k - 1])
      <4>1. IsInjective(a) => a[k] \notin Before(k - 1)
        BY <1>0 DEF IsInjective
      <4> HIDE DEF Before
      <4> QED BY <2>3, <4>1
    <3>5. IsInjective(a) => IsInjective(h[k])
      <4>1. IsInjective(h[k - 1]) /\ a[k] \notin Range(h[k - 1])
              => IsInjective(Append(h[k - 1], a[k]))
        BY <2>1, AppendDistinct
      <4> QED BY Zenon, <2>3, <3>1, <3>4, <4>1
    <3> QED BY <2>1, <3>3, <3>5
  <2> QED BY <2>4, <2>5
<1>5. Range(a) = Before(Len(a)) /\ Len(a) \in 0..Len(a)
  BY <1>0 DEF Range
<1> HIDE DEF Good
<1>6. Len(a) \in Good
  <2>1. \A k \in 0..Len(a) : k \in Good
    BY Zenon, <1>0, <1>3, <1>4, UpTo
  <2> QED BY <1>5, <2>1
<1> QED BY Zenon, <1>2, <1>5, <1>6 DEF Good

\* mergeIPs: the rules less those to remove, and those to add.
LEMMA MergeIPsEffect ==
  ASSUME NEW S, NEW a \in Seq(S), NEW rm \in Seq(S), NEW add \in Seq(S)
  PROVE  /\ mergeIPs(a, rm, add) \in Seq(S)
         /\ SetMerged(a, rm, add, mergeIPs(a, rm, add))
         /\ IsInjective(a) => IsInjective(mergeIPs(a, rm, add))
<1> DEFINE b == removeIPs(a, rm)
           c == removeIPs(b, add)
           d == addPaths(c, add)
<1>1. b \in Seq(S) /\ Range(b) = Range(a) \ Range(rm) /\ (IsInjective(a) => IsInjective(b))
  BY Zenon, RemoveIPsEffect
<1> HIDE DEF b
<1>2. c \in Seq(S) /\ Range(c) = Range(b) \ Range(add) /\ (IsInjective(b) => IsInjective(c))
  BY <1>1, RemoveIPsEffect
<1> HIDE DEF c
<1>3. /\ d \in Seq(S) /\ Range(d) = Range(c) \cup Range(add)
      /\ IsInjective(c) => IsInjective(d)
  BY <1>2, AddPathsEffect
<1> HIDE DEF d
<1>4. mergeIPs(a, rm, add) = d
  BY Zenon DEF mergeIPs, addIPs, b, c, d
<1>5. Range(d) = (Range(a) \ Range(rm)) \cup Range(add)
  BY <1>1, <1>2, <1>3
<1> QED BY Zenon, <1>1, <1>2, <1>3, <1>4, <1>5 DEF SetMerged

\* The positions to remove among i alone.
HitAt(a, rm, i) == IF a[i] \in Range(rm) THEN {i} ELSE {}

\* FoundAt adds the position i, if the i-th element is one to remove.
LEMMA FoundAtEffect ==
  ASSUME NEW S, NEW a \in Seq(S), NEW rm \in Seq(S), NEW s \in Seq(1..Len(a)),
         NEW i \in 1..Len(a)
  PROVE  /\ FoundAt(a, rm, s, i) \in Seq(1..Len(a))
         /\ Range(FoundAt(a, rm, s, i)) = Range(s) \cup HitAt(a, rm, i)
<1>0. Len(rm) \in Nat /\ DOMAIN rm = 1..Len(rm) /\ Len(rm) \in 0..Len(rm) /\ 0 \in 0..Len(rm)
  OBVIOUS
<1>1. PICK h : FoundAtRun(h, S, a, rm, s, i)
  BY Zenon, FoundAtSteps
<1>2. /\ h \in [0..Len(rm) -> Seq(1..Len(a))] /\ h[0] = s
      /\ FoundAt(a, rm, s, i) = h[Len(rm)]
      /\ \A k \in 1..Len(rm) : h[k] = IF rm[k] = a[i] THEN Append(h[k - 1], i) ELSE h[k - 1]
  BY Zenon, <1>1 DEF FoundAtRun
<1> DEFINE Hits(k) == {j \in {i} : \E l \in 1..k : rm[l] = a[j]}
           Good == {k \in 0..Len(rm) : Range(h[k]) = Range(s) \cup Hits(k)}
<1>3. 0 \in Good
  BY <1>0, <1>2
<1>4. ASSUME NEW k \in 1..Len(rm), k - 1 \in Good PROVE k \in Good
  <2>0. k - 1 \in 0..Len(rm) /\ k \in 0..Len(rm)
    BY <1>0
  <2>1. h[k - 1] \in Seq(1..Len(a)) /\ Range(h[k - 1]) = Range(s) \cup Hits(k - 1)
    BY Zenon, <1>2, <1>4, <2>0
  <2>2. CASE rm[k] = a[i]
    <3>1. Range(h[k]) = Range(h[k - 1]) \cup {i}
      BY <1>2, <2>1, <2>2, AppendSet
    <3>2. Hits(k) = {i} /\ Hits(k - 1) \subseteq {i}
      BY <1>0, <2>2
    <3> HIDE DEF Hits
    <3> QED BY <2>0, <2>1, <3>1, <3>2
  <2>3. CASE rm[k] # a[i]
    <3>1. h[k] = h[k - 1]
      BY <1>2, <2>3
    <3>2. Hits(k) = Hits(k - 1)
      BY <1>0, <2>3
    <3> HIDE DEF Hits
    <3> QED BY <2>0, <2>1, <3>1, <3>2
  <2> QED BY Zenon, <2>2, <2>3
<1>5. \A k \in 0..Len(rm) : k \in Good
  <2> HIDE DEF Good
  <2> QED BY Zenon, <1>0, <1>3, <1>4, UpTo
<1>6. Hits(Len(rm)) = HitAt(a, rm, i)
  BY Zenon, <1>0 DEF Range, HitAt
<1> HIDE DEF Hits
<1>7. Range(h[Len(rm)]) = Range(s) \cup Hits(Len(rm)) /\ h[Len(rm)] \in Seq(1..Len(a))
  BY Zenon, <1>0, <1>2, <1>5
<1> QED BY Zenon, <1>2, <1>6, <1>7

\* The positions to remove are collected one element of the list after the other.
RemoveAtRun(h, S, a, rm) ==
  /\ h \in [0..Len(Indices(a)) -> Seq(1..Len(a))]
  /\ h[0] = <<>> /\ removeAt(a, rm) = h[Len(Indices(a))]
  /\ \A k \in 1..Len(Indices(a)) : h[k] = FoundAt(a, rm, h[k - 1], Indices(a)[k])

\* The outer loop of removeAt, iteration by iteration.
LEMMA RemoveAtSteps ==
  ASSUME NEW S, NEW a \in Seq(S), NEW rm \in Seq(S)
  PROVE  \E h : RemoveAtRun(h, S, a, rm)
<1> DEFINE n == Len(Indices(a))
           V == Seq(1..Len(a))
           Op(v, x) == FoundAt(a, rm, v, x)
           F == [q \in (1..n) \X V |-> Op(q[2], Indices(a)[q[1]])]
           W == CHOOSE g : g = [k \in 0..n |-> IF k = 0 THEN <<>>
                                               ELSE Op(g[k - 1], Indices(a)[k])]
<1>1. n \in Nat /\ <<>> \in V
  BY IndicesOf
<1>2. removeAt(a, rm) = W[n]
  BY Zenon DEF removeAt, FoundAt, Indices, Loop
<1>3. ASSUME NEW v \in V, NEW k \in 1..n PROVE Op(v, Indices(a)[k]) \in V
  <2>1. Indices(a)[k] \in 1..Len(a)
    BY Zenon, IndicesOf
  <2> QED BY Zenon, <2>1, FoundAtEffect
<1> HIDE DEF n, V, Op, W
<1>4. F \in [(1..n) \X V -> V] /\ \A k \in 1..n, v \in V : F[<<k, v>>] = Op(v, Indices(a)[k])
  BY <1>3
<1> HIDE DEF F
<1>5. PICK g : IsRun(g, n, V, <<>>, F)
  BY Zenon, <1>1, <1>4, RunExists
<1>6. \A k \in 0..n : k # 0 => k \in 1..n /\ k - 1 \in 0..n
  BY <1>1
<1>7. g = [k \in 0..n |-> IF k = 0 THEN <<>> ELSE Op(g[k - 1], Indices(a)[k])]
  BY Zenon, <1>4, <1>5, <1>6 DEF IsRun
<1>8. W = [k \in 0..n |-> IF k = 0 THEN <<>> ELSE Op(W[k - 1], Indices(a)[k])]
  BY Zenon, <1>7 DEF W
<1>9. 0 \in 0..n /\ n \in 0..n /\ \A k \in 1..n : k \in 0..n /\ k # 0
  BY <1>1
<1>10. W[0] = <<>> /\ \A k \in 1..n : W[k] = Op(W[k - 1], Indices(a)[k])
  BY Zenon, <1>8, <1>9
<1> DEFINE Good == {k \in 0..n : W[k] \in V}
<1>11. 0 \in Good /\ \A k \in 1..n : k - 1 \in Good => k \in Good
  BY Zenon, <1>1, <1>3, <1>9, <1>10
<1> HIDE DEF Good
<1>12. \A k \in 0..n : k \in Good
  BY Zenon, <1>1, <1>11, UpTo
<1>13. W \in [0..n -> V]
  BY Zenon, <1>8, <1>12 DEF Good
<1> QED BY Zenon, <1>2, <1>10, <1>13 DEF RemoveAtRun, n, V, Op

\* c holds elements of a, each from a position of its own.
DrawnAt(f, c, a) ==
  /\ f \in [1..Len(c) -> 1..Len(a)]
  /\ \A i, j \in 1..Len(c) : f[i] = f[j] => i = j
  /\ \A i \in 1..Len(c) : c[i] = a[f[i]]

Drawn(c, a) == \E f : DrawnAt(f, c, a)

\* What is drawn from a list of distinct elements is distinct ...
LEMMA DrawnDistinct ==
  ASSUME NEW S, NEW a \in Seq(S), NEW c \in Seq(S), Drawn(c, a), IsInjective(a)
  PROVE  IsInjective(c)
<1>1. PICK f : DrawnAt(f, c, a)
  BY Zenon DEF Drawn
<1>2. DOMAIN c = 1..Len(c) /\ DOMAIN a = 1..Len(a)
  OBVIOUS
<1> SUFFICES ASSUME NEW i \in 1..Len(c), NEW j \in 1..Len(c), c[i] = c[j] PROVE i = j
  BY Zenon, <1>2 DEF IsInjective
<1>3. f[i] \in 1..Len(a) /\ f[j] \in 1..Len(a) /\ a[f[i]] = a[f[j]]
  BY <1>1 DEF DrawnAt
<1>4. f[i] = f[j]
  BY Zenon, <1>2, <1>3 DEF IsInjective
<1> QED BY Zenon, <1>1, <1>4 DEF DrawnAt

\* ... and so are the keys of what is drawn from entries with distinct keys.
LEMMA DrawnKeys ==
  ASSUME NEW a \in Seq(Entry), NEW c \in Seq(Entry), Drawn(c, a), IsInjective(KeysOf(a))
  PROVE  IsInjective(KeysOf(c))
<1>1. PICK f : DrawnAt(f, c, a)
  BY Zenon DEF Drawn
<1>2. /\ KeysOf(a) \in Seq(Names) /\ Len(KeysOf(a)) = Len(a)
      /\ \A i \in 1..Len(a) : KeysOf(a)[i] = a[i].key
  BY Zenon, KeysType
<1>3. /\ KeysOf(c) \in Seq(Names) /\ Len(KeysOf(c)) = Len(c)
      /\ \A i \in 1..Len(c) : KeysOf(c)[i] = c[i].key
  BY Zenon, KeysType
<1>4. ASSUME NEW i \in 1..Len(c) PROVE KeysOf(c)[i] = KeysOf(a)[f[i]]
  BY <1>1, <1>2, <1>3 DEF DrawnAt
<1>5. DrawnAt(f, KeysOf(c), KeysOf(a))
  BY Zenon, <1>1, <1>2, <1>3, <1>4 DEF DrawnAt
<1>6. Drawn(KeysOf(c), KeysOf(a))
  BY Zenon, <1>5 DEF Drawn
<1> QED BY Zenon, <1>2, <1>3, <1>6, DrawnDistinct

\* One cut draws from the list.
LEMMA RemoveAtDrawn ==
  ASSUME NEW S, NEW a \in Seq(S), NEW v \in Seq(S), NEW p \in 1..Len(v), Drawn(v, a)
  PROVE  Drawn(RemoveAt(v, p), a)
<1> DEFINE w == RemoveAt(v, p)
           From(i) == IF i < p THEN i ELSE i + 1
<1>1. PICK f : DrawnAt(f, v, a)
  BY Zenon DEF Drawn
<1>2. /\ w \in Seq(S) /\ Len(w) = Len(v) - 1
      /\ \A i \in 1..(Len(v) - 1) : w[i] = IF i < p THEN v[i] ELSE v[i + 1]
  BY Zenon, RemoveAtEffect
<1> HIDE DEF w
<1> DEFINE g == [i \in 1..Len(w) |-> f[From(i)]]
<1>3. ASSUME NEW i \in 1..Len(w) PROVE From(i) \in 1..Len(v) /\ w[i] = v[From(i)]
  BY <1>2
<1>4. ASSUME NEW i \in 1..Len(w), NEW j \in 1..Len(w), From(i) = From(j) PROVE i = j
  BY <1>2, <1>4
<1> HIDE DEF From
<1>5. g \in [1..Len(w) -> 1..Len(a)] /\ \A i \in 1..Len(w) : w[i] = a[g[i]]
  BY Zenon, <1>1, <1>3 DEF DrawnAt
<1>6. \A i, j \in 1..Len(w) : g[i] = g[j] => i = j
  BY <1>1, <1>3, <1>4 DEF DrawnAt
<1> HIDE DEF g
<1>7. DrawnAt(g, w, a)
  BY Zenon, <1>5, <1>6 DEF DrawnAt
<1> QED BY Zenon, <1>7 DEF Drawn, w

\* What cut leaves of a list was there before.
LEMMA CutDrawn ==
  ASSUME NEW S, NEW a \in Seq(S), NEW p \in Seq(Nat \ {0}), cut(a, p) # Panic
  PROVE  cut(a, p) \in Seq(S) /\ Drawn(cut(a, p), a)
<1>0. Len(p) \in Nat /\ Len(p) \in 0..Len(p) /\ 0 \in 0..Len(p)
  OBVIOUS
<1>1. PICK h : CutRun(h, S, a, p)
  BY Zenon, CutSteps
<1>2. /\ h \in [0..Len(p) -> Seq(S) \cup {Panic}] /\ h[0] = a /\ cut(a, p) = h[Len(p)]
      /\ \A k \in 1..Len(p) : h[k] = CutAt(h[k - 1], p[k])
  BY Zenon, <1>1 DEF CutRun
<1> DEFINE Good == {k \in 0..Len(p) : h[k] # Panic => Drawn(h[k], a)}
<1>3. 0 \in Good
  <2> DEFINE id == [i \in 1..Len(a) |-> i]
  <2>1. DrawnAt(id, a, a)
    BY DEF DrawnAt
  <2>2. Drawn(a, a)
    BY Zenon, <2>1 DEF Drawn
  <2> QED BY Zenon, <1>0, <1>2, <2>2
<1>4. ASSUME NEW k \in 1..Len(p), k - 1 \in Good PROVE k \in Good
  <2>0. k - 1 \in 0..Len(p) /\ k \in 0..Len(p) /\ p[k] \in Nat \ {0}
    BY <1>0
  <2>1. h[k] = CutAt(h[k - 1], p[k]) /\ h[k - 1] \in Seq(S) \cup {Panic}
    BY Zenon, <1>2, <2>0
  <2>2. ASSUME h[k] # Panic PROVE Drawn(h[k], a)
    <3>1. h[k - 1] # Panic /\ ~ (p[k] > Len(h[k - 1])) /\ h[k] = RemoveAt(h[k - 1], p[k])
      BY Zenon, <2>1, <2>2 DEF CutAt
    <3>2. Drawn(h[k - 1], a) /\ h[k - 1] \in Seq(S)
      BY Zenon, <1>4, <2>1, <3>1
    <3>3. p[k] \in 1..Len(h[k - 1])
      BY <2>0, <3>1, <3>2
    <3> QED BY Zenon, <3>1, <3>2, <3>3, RemoveAtDrawn
  <2> QED BY Zenon, <2>0, <2>2
<1> HIDE DEF Good
<1>5. Len(p) \in Good
  <2>1. \A k \in 0..Len(p) : k \in Good
    BY Zenon, <1>0, <1>3, <1>4, UpTo
  <2> QED BY Zenon, <1>0, <2>1
<1>6. cut(a, p) \in Seq(S)
  <2>1. h[Len(p)] \in Seq(S) \cup {Panic}
    BY Zenon, <1>0, <1>2
  <2> QED BY Zenon, <1>2, <2>1
<1> QED BY Zenon, <1>2, <1>5, <1>6 DEF Good

\* Where a has an element to remove.
Marked(a, rm) == {i \in 1..Len(a) : a[i] \in Range(rm)}

\* The positions to remove are positions, those of elements to remove.
LEMMA RemoveAtPositions ==
  ASSUME NEW S, NEW a \in Seq(S), NEW rm \in Seq(S)
  PROVE  /\ removeAt(a, rm) \in Seq(1..Len(a)) /\ removeAt(a, rm) \in Seq(Nat \ {0})
         /\ Range(removeAt(a, rm)) = Marked(a, rm)
<1>0. Len(a) \in Nat /\ Len(a) \in 0..Len(a) /\ 0 \in 0..Len(a)
  OBVIOUS
<1>1. PICK h : RemoveAtRun(h, S, a, rm)
  BY Zenon, RemoveAtSteps
<1>2. Len(Indices(a)) = Len(a) /\ \A k \in 1..Len(a) : Indices(a)[k] = k
  BY Zenon, IndicesOf
<1>3. /\ h \in [0..Len(a) -> Seq(1..Len(a))] /\ h[0] = <<>> /\ removeAt(a, rm) = h[Len(a)]
      /\ \A k \in 1..Len(a) : h[k] = FoundAt(a, rm, h[k - 1], k)
  BY Zenon, <1>1, <1>2 DEF RemoveAtRun
<1> DEFINE Found(k) == {i \in 1..k : a[i] \in Range(rm)}
           Good == {k \in 0..Len(a) : Range(h[k]) = Found(k)}
<1>4. 0 \in Good
  BY <1>0, <1>3 DEF Range
<1>5. ASSUME NEW k \in 1..Len(a), k - 1 \in Good PROVE k \in Good
  <2>0. k - 1 \in 0..Len(a) /\ k \in 0..Len(a)
    BY <1>0
  <2>1. h[k - 1] \in Seq(1..Len(a)) /\ Range(h[k - 1]) = Found(k - 1)
    BY Zenon, <1>3, <1>5, <2>0
  <2>2. Range(h[k]) = Range(h[k - 1]) \cup HitAt(a, rm, k)
    <3>1. h[k] = FoundAt(a, rm, h[k - 1], k)
      BY Zenon, <1>3
    <3>2. ASSUME NEW w \in Seq(1..Len(a))
          PROVE  Range(FoundAt(a, rm, w, k)) = Range(w) \cup HitAt(a, rm, k)
      BY FoundAtEffect
    <3> QED BY Zenon, <2>1, <3>1, <3>2
  <2>3. Found(k) = Found(k - 1) \cup HitAt(a, rm, k)
    BY <1>0 DEF HitAt
  <2> HIDE DEF Found
  <2> QED BY Zenon, <2>0, <2>1, <2>2, <2>3
<1>6. \A k \in 0..Len(a) : k \in Good
  <2> HIDE DEF Good
  <2> QED BY Zenon, <1>0, <1>4, <1>5, UpTo
<1>7. Range(removeAt(a, rm)) = Found(Len(a))
  BY Zenon, <1>0, <1>3, <1>6
<1>8. removeAt(a, rm) \in Seq(1..Len(a))
  BY Zenon, <1>0, <1>3
<1>9. removeAt(a, rm) \in Seq(Nat \ {0})
  BY <1>8
<1> QED BY Zenon, <1>7, <1>8, <1>9 DEF Marked

\* addUser and addToken keep the keys distinct.
LEMMA AppendKeys ==
  ASSUME NEW e \in Seq(Entry), NEW u \in Entry,
         IsInjective(KeysOf(e)), u.key \notin Range(KeysOf(e))
  PROVE  IsInjective(KeysOf(Append(e, u)))
<1>1. /\ KeysOf(e) \in Seq(Names) /\ Len(KeysOf(e)) = Len(e)
      /\ \A i \in 1..Len(e) : KeysOf(e)[i] = e[i].key
  BY Zenon, KeysType
<1>2. Append(e, u) \in Seq(Entry) /\ Len(Append(e, u)) = Len(e) + 1 /\ u.key \in Names
      /\ Append(e, u)[Len(e) + 1] = u /\ \A i \in 1..Len(e) : Append(e, u)[i] = e[i]
  BY DEF Entry
<1>3. /\ KeysOf(Append(e, u)) \in Seq(Names) /\ Len(KeysOf(Append(e, u))) = Len(e) + 1
      /\ \A i \in 1..(Len(e) + 1) : KeysOf(Append(e, u))[i] = Append(e, u)[i].key
  BY Zenon, <1>2, KeysType
<1>4. KeysOf(Append(e, u)) = Append(KeysOf(e), u.key)
  <2> DEFINE k == KeysOf(e)
             l == KeysOf(Append(e, u))
  <2>1. k \in Seq(Names) /\ l \in Seq(Names) /\ Len(k) = Len(e) /\ Len(l) = Len(e) + 1
    BY Zenon, <1>1, <1>3
  <2>2. l[Len(e) + 1] = u.key /\ \A i \in 1..Len(e) : l[i] = k[i]
    BY <1>1, <1>2, <1>3
  <2> HIDE DEF k, l
  <2>3. l = Append(k, u.key)
    BY <1>2, <2>1, <2>2
  <2> QED BY Zenon, <2>3 DEF k, l
<1> QED BY Zenon, <1>1, <1>2, <1>4, AppendDistinct

\* One user added.
LEMMA AddUserKeeps ==
  ASSUME NEW v \in Seq(Entry), NEW u \in Entry, IsInjective(KeysOf(v))
  PROVE  IsInjective(KeysOf(addUser(v, u)))
<1>1. CASE u.key \in Range(KeysOf(v))
  BY Zenon, <1>1 DEF addUser
<1>2. CASE u.key \notin Range(KeysOf(v))
  BY Zenon, <1>2, AppendKeys DEF addUser
<1> QED BY Zenon, <1>1, <1>2

\* One token added.
LEMMA AddTokenKeeps ==
  ASSUME NEW v \in Seq(Entry), NEW t \in Entry, IsInjective(KeysOf(v))
  PROVE  IsInjective(KeysOf(addToken(v, t)))
<1>1. CASE t.key \in Range(KeysOf(v))
  <2> DEFINE w == addToken(v, t)
  <2>1. w \in Seq(Entry) /\ Len(w) = Len(v) /\ \A i \in 1..Len(v) : w[i].key = v[i].key
    BY Zenon, <1>1, AddTokenEffect
  <2> HIDE DEF w
  <2>2. /\ KeysOf(v) \in Seq(Names) /\ Len(KeysOf(v)) = Len(v)
        /\ \A i \in 1..Len(v) : KeysOf(v)[i] = v[i].key
    BY Zenon, KeysType
  <2>3. /\ KeysOf(w) \in Seq(Names) /\ Len(KeysOf(w)) = Len(v)
        /\ \A i \in 1..Len(v) : KeysOf(w)[i] = w[i].key
    BY Zenon, <2>1, KeysType
  <2>4. \A i \in 1..Len(v) : KeysOf(w)[i] = KeysOf(v)[i]
    BY Zenon, <2>1, <2>2, <2>3
  <2>5. KeysOf(w) = KeysOf(v)
    BY <2>2, <2>3, <2>4
  <2> QED BY Zenon, <2>5 DEF w
<1>2. CASE t.key \notin Range(KeysOf(v))
  BY Zenon, <1>2, AppendKeys DEF addToken
<1> QED BY Zenon, <1>1, <1>2

\* All users of a request added (BasicAuth.Merge).
LEMMA AddUsersKeep ==
  ASSUME NEW a \in Seq(Entry), NEW b \in Seq(Entry), IsInjective(KeysOf(a))
  PROVE  Loop(addUser, a, b) \in Seq(Entry) /\ IsInjective(KeysOf(Loop(addUser, a, b)))
<1>0. Len(b) \in Nat /\ Len(b) \in 0..Len(b) /\ 0 \in 0..Len(b)
  OBVIOUS
<1>1. PICK h : AddUserRun(h, a, b)
  BY Zenon, AddUserSteps
<1>2. /\ h \in [0..Len(b) -> Seq(Entry)] /\ h[0] = a /\ Loop(addUser, a, b) = h[Len(b)]
      /\ \A k \in 1..Len(b) : h[k] = addUser(h[k - 1], b[k])
  BY Zenon, <1>1 DEF AddUserRun
<1> DEFINE Good == {k \in 0..Len(b) : IsInjective(KeysOf(h[k]))}
<1>3. 0 \in Good
  BY Zenon, <1>0, <1>2
<1>4. ASSUME NEW k \in 1..Len(b), k - 1 \in Good PROVE k \in Good
  <2>0. k - 1 \in 0..Len(b) /\ k \in 0..Len(b) /\ b[k] \in Entry
    BY <1>0
  <2>1. h[k - 1] \in Seq(Entry) /\ IsInjective(KeysOf(h[k - 1]))
    BY Zenon, <1>2, <1>4, <2>0
  <2>2. IsInjective(KeysOf(addUser(h[k - 1], b[k])))
    BY Zenon, <2>0, <2>1, AddUserKeeps
  <2> QED BY Zenon, <1>2, <2>0, <2>2
<1> HIDE DEF Good
<1>5. \A k \in 0..Len(b) : k \in Good
  BY Zenon, <1>0, <1>3, <1>4, UpTo
<1> QED BY Zenon, <1>0, <1>2, <1>5 DEF Good

\* All tokens of a request added (TokenAuth.Merge).
LEMMA AddTokensKeep ==
  ASSUME NEW a \in Seq(Entry), NEW b \in Seq(Entry), IsInjective(KeysOf(a))
  PROVE  Loop(addToken, a, b) \in Seq(Entry) /\ IsInjective(KeysOf(Loop(addToken, a, b)))
<1>0. Len(b) \in Nat /\ Len(b) \in 0..Len(b) /\ 0 \in 0..Len(b)
  OBVIOUS
<1>1. PICK h : AddTokenRun(h, a, b)
  BY Zenon, AddTokenSteps
<1>2. /\ h \in [0..Len(b) -> Seq(Entry)] /\ h[0] = a /\ Loop(addToken, a, b) = h[Len(b)]
      /\ \A k \in 1..Len(b) : h[k] = addToken(h[k - 1], b[k])
  BY Zenon, <1>1 DEF AddTokenRun
<1> DEFINE Good == {k \in 0..Len(b) : IsInjective(KeysOf(h[k]))}
<1>3. 0 \in Good
  BY Zenon, <1>0, <1>2
<1>4. ASSUME NEW k \in 1..Len(b), k - 1 \in Good PROVE k \in Good
  <2>0. k - 1 \in 0..Len(b) /\ k \in 0..Len(b) /\ b[k] \in Entry
    BY <1>0
  <2>1. h[k - 1] \in Seq(Entry) /\ IsInjective(KeysOf(h[k - 1]))
    BY Zenon, <1>2, <1>4, <2>0
  <2>2. IsInjective(KeysOf(addToken(h[k - 1], b[k])))
    BY Zenon, <2>0, <2>1, AddTokenKeeps
  <2> QED BY Zenon, <1>2, <2>0, <2>2
<1> HIDE DEF Good
<1>5. \A k \in 0..Len(b) : k \in Good
  BY Zenon, <1>0, <1>3, <1>4, UpTo
<1> QED BY Zenon, <1>0, <1>2, <1>5 DEF Good

-----------------------------------------------------------------------------
(* The merge keeps what is well merged.                                    *)

\* A field overwritten by a request is of the type of both.
LEMMA OverwriteType ==
  ASSUME NEW S, NEW x \in Opt(S), NEW r \in Opt(S)
  PROVE  /\ overwrite(x, r) \in Opt(S)
         /\ x \in S => overwrite(x, r) \in S
         /\ x # Nil => overwrite(x, r) # Nil
         /\ r # Nil => overwrite(x, r) # Nil
  BY DEF overwrite, Opt

\* The part BasicAuth.Merge and TokenAuth.Merge have in common.
LEMMA MergeAuthKeeps ==
  ASSUME NEW auth \in Auth, NEW req \in AuthPutRequest,
         IsInjective(auth.paths), IsInjective(KeysOf(auth.entries)),
         mergeAuth(auth, req) # Panic
  PROVE  /\ mergeAuth(auth, req) \in Auth
         /\ mergeAuth(auth, req).paths
              = addPaths(cut(auth.paths, removeAt(auth.paths, req.pathsToRemove)),
                         req.pathsToAdd)
         /\ mergeAuth(auth, req).entries
              = cut(auth.entries, removeAt(KeysOf(auth.entries), req.toRemove))
         /\ IsInjective(mergeAuth(auth, req).paths)
         /\ IsInjective(KeysOf(mergeAuth(auth, req).entries))
         /\ cut(auth.paths, removeAt(auth.paths, req.pathsToRemove)) # Panic
         /\ cut(auth.entries, removeAt(KeysOf(auth.entries), req.toRemove)) # Panic
<1> DEFINE pp == removeAt(auth.paths, req.pathsToRemove)
           pe == removeAt(KeysOf(auth.entries), req.toRemove)
           paths == cut(auth.paths, pp)
           kept == cut(auth.entries, pe)
           en == overwrite(auth.enabled, req.enabled)
           hd == overwrite(auth.header, req.header)
           ps == addPaths(paths, req.pathsToAdd)
           m == [enabled |-> en, header |-> hd, paths |-> ps, entries |-> kept]
<1>1. auth.paths \in Seq(Paths) /\ auth.entries \in Seq(Entry)
      /\ auth.enabled \in BOOLEAN /\ auth.header \in Opt(Vals)
  BY DEF Auth
<1>2. /\ req.pathsToRemove \in Seq(Paths) /\ req.pathsToAdd \in Seq(Paths)
      /\ req.toRemove \in Seq(Names)
      /\ req.enabled \in Opt(BOOLEAN) /\ req.header \in Opt(Vals)
  BY DEF AuthPutRequest
<1>3. pp \in Seq(Nat \ {0})
  BY Zenon, <1>1, <1>2, RemoveAtPositions
<1>4. pe \in Seq(Nat \ {0})
  <2>1. KeysOf(auth.entries) \in Seq(Names)
    BY Zenon, <1>1, KeysType
  <2> QED BY Zenon, <1>2, <2>1, RemoveAtPositions
<1>5. paths # Panic /\ kept # Panic /\ mergeAuth(auth, req) = m
  BY Zenon DEF mergeAuth
<1> HIDE DEF pp, pe
<1>6. paths \in Seq(Paths) /\ IsInjective(paths)
  BY Zenon, <1>1, <1>3, <1>5, CutDrawn, DrawnDistinct
<1>7. kept \in Seq(Entry) /\ IsInjective(KeysOf(kept))
  BY Zenon, <1>1, <1>4, <1>5, CutDrawn, DrawnKeys
<1> HIDE DEF paths, kept
<1>8. ps \in Seq(Paths) /\ IsInjective(ps)
  BY Zenon, <1>2, <1>6, AddPathsEffect
<1>9. en \in BOOLEAN
  BY Zenon, <1>1, <1>2 DEF overwrite, Opt
<1>10. hd \in Opt(Vals)
  BY Zenon, <1>1, <1>2, OverwriteType
<1> HIDE DEF ps, en, hd
<1>11. m \in Auth /\ m.paths = ps /\ m.entries = kept
  BY <1>7, <1>8, <1>9, <1>10 DEF Auth
<1> HIDE DEF m
<1> QED BY Zenon, <1>5, <1>7, <1>8, <1>11 DEF ps, paths, kept, pp, pe

\* BasicAuth.Merge gives back a well merged part, or panics.
LEMMA MergeBasicAuthKeeps ==
  ASSUME NEW auth \in Auth, NEW req \in Opt(AuthPutRequest),
         IsInjective(auth.paths), IsInjective(KeysOf(auth.entries)),
         mergeBasicAuth(auth, req) # Panic
  PROVE  /\ mergeBasicAuth(auth, req) \in Auth
         /\ IsInjective(mergeBasicAuth(auth, req).paths)
         /\ IsInjective(KeysOf(mergeBasicAuth(auth, req).entries))
         /\ req # Nil =>
              /\ mergeAuth(auth, req) # Panic
              /\ mergeBasicAuth(auth, req).paths = mergeAuth(auth, req).paths
              /\ mergeBasicAuth(auth, req).entries
                   = Loop(addUser, mergeAuth(auth, req).entries, req.toAdd)
<1>1. CASE req = Nil
  BY Zenon, <1>1 DEF mergeBasicAuth
<1>2. CASE req # Nil
  <2> DEFINE m == mergeAuth(auth, req)
             es == Loop(addUser, m.entries, req.toAdd)
             r == [m EXCEPT !.entries = es]
  <2>1. m # Panic /\ mergeBasicAuth(auth, req) = r
    BY Zenon, <1>2 DEF mergeBasicAuth
  <2>2. req \in AuthPutRequest
    BY Zenon, <1>2 DEF Opt
  <2>3. m \in Auth /\ IsInjective(m.paths) /\ IsInjective(KeysOf(m.entries))
    BY Zenon, <2>1, <2>2, MergeAuthKeeps
  <2> HIDE DEF m
  <2>4. m.entries \in Seq(Entry) /\ req.toAdd \in Seq(Entry)
    BY <2>2, <2>3 DEF Auth, AuthPutRequest
  <2>5. es \in Seq(Entry) /\ IsInjective(KeysOf(es))
    BY Zenon, <2>3, <2>4, AddUsersKeep
  <2> HIDE DEF es
  <2>6. r \in Auth /\ r.paths = m.paths /\ r.entries = es
    BY Zenon, <2>3, <2>5 DEF Auth
  <2> HIDE DEF r
  <2> QED BY Zenon, <2>1, <2>3, <2>5, <2>6 DEF es, m
<1> QED BY Zenon, <1>1, <1>2

\* TokenAuth.Merge gives back a well merged part, or panics.
LEMMA MergeTokenAuthKeeps ==
  ASSUME NEW auth \in Auth, NEW req \in Opt(AuthPutRequest),
         IsInjective(auth.paths), IsInjective(KeysOf(auth.entries)),
         mergeTokenAuth(auth, req) # Panic
  PROVE  /\ mergeTokenAuth(auth, req) \in Auth
         /\ IsInjective(mergeTokenAuth(auth, req).paths)
         /\ IsInjective(KeysOf(mergeTokenAuth(auth, req).entries))
         /\ req # Nil =>
              /\ mergeAuth(auth, req) # Panic
              /\ mergeTokenAuth(auth, req).paths = mergeAuth(auth, req).paths
              /\ mergeTokenAuth(auth, req).entries
                   = Loop(addToken, mergeAuth(auth, req).entries, req.toAdd)
<1>1. CASE req = Nil
  BY Zenon, <1>1 DEF mergeTokenAuth
<1>2. CASE req # Nil
  <2> DEFINE m == mergeAuth(auth, req)
             es == Loop(addToken, m.entries, req.toAdd)
             r == [m EXCEPT !.entries = es]
  <2>1. m # Panic /\ mergeTokenAuth(auth, req) = r
    BY Zenon, <1>2 DEF mergeTokenAuth
  <2>2. req \in AuthPutRequest
    BY Zenon, <1>2 DEF Opt
  <2>3. m \in Auth /\ IsInjective(m.paths) /\ IsInjective(KeysOf(m.entries))
    BY Zenon, <2>1, <2>2, MergeAuthKeeps
  <2> HIDE DEF m
  <2>4. m.entries \in Seq(Entry) /\ req.toAdd \in Seq(Entry)
    BY <2>2, <2>3 DEF Auth, AuthPutRequest
  <2>5. es \in Seq(Entry) /\ IsInjective(KeysOf(es))
    BY Zenon, <2>3, <2>4, AddTokensKeep
  <2> HIDE DEF es
  <2>6. r \in Auth /\ r.paths = m.paths /\ r.entries = es
    BY Zenon, <2>3, <2>5 DEF Auth
  <2> HIDE DEF r
  <2> QED BY Zenon, <2>1, <2>3, <2>5, <2>6 DEF es, m
<1> QED BY Zenon, <1>1, <1>2

\* CaptchaV2.Merge sets the redirect URL whenever it sets enabled.
LEMMA MergeCaptchaKeeps ==
  ASSUME NEW captcha \in CaptchaV2, NEW req \in Opt(CaptchaV2),
         mergeCaptcha(captcha, req) # Panic
  PROVE  /\ mergeCaptcha(captcha, req) \in CaptchaV2
         /\ req # Nil => /\ mergeCaptcha(captcha, req).enabled # Nil
                         /\ mergeCaptcha(captcha, req).url # Nil
<1>1. CASE req = Nil
  BY Zenon, <1>1 DEF mergeCaptcha
<1>2. CASE req # Nil
  <2> DEFINE U == Vals \cup {Default}
             en == overwrite(captcha.enabled, req.enabled)
             url == overwrite(overwrite(Default, captcha.url), req.url)
             keys == overwrite(captcha.keys, req.keys)
             m == [enabled |-> en, url |-> url, keys |-> keys]
  <2>1. mergeCaptcha(captcha, req) = m /\ ~ (req.enabled = Nil /\ captcha.enabled = Nil)
    BY Zenon, <1>2 DEF mergeCaptcha
  <2>2. req \in CaptchaV2
    BY Zenon, <1>2 DEF Opt
  <2>3. /\ captcha.enabled \in Opt(BOOLEAN) /\ req.enabled \in Opt(BOOLEAN)
        /\ captcha.url \in Opt(U) /\ req.url \in Opt(U)
        /\ captcha.keys \in Opt(Vals) /\ req.keys \in Opt(Vals)
    BY Zenon, <2>2 DEF CaptchaV2
  <2>4. en \in Opt(BOOLEAN) /\ en # Nil
    BY Zenon, <2>1, <2>3, OverwriteType
  <2>5. url \in Opt(U) /\ url # Nil
    BY Zenon, <2>3, RequestsAssumption DEF overwrite, Opt
  <2>6. keys \in Opt(Vals)
    BY Zenon, <2>3, OverwriteType
  <2> HIDE DEF en, url, keys
  <2>7. m \in CaptchaV2 /\ m.enabled = en /\ m.url = url
    BY <2>4, <2>5, <2>6 DEF CaptchaV2
  <2> HIDE DEF m
  <2> QED BY Zenon, <2>1, <2>4, <2>5, <2>7
<1> QED BY Zenon, <1>1, <1>2

\* AntiBot.Merge sets the options whenever it sets enabled.
LEMMA MergeAntiBotKeeps ==
  ASSUME NEW antiBot \in AntiBot, Complete(antiBot),
         NEW req \in Opt([enabled : Opt(BOOLEAN), options : Opt(Vals),
                          captcha : Opt(CaptchaV2)]),
         mergeAntiBot(antiBot, req) # Panic
  PROVE  mergeAntiBot(antiBot, req) \in AntiBot /\ Complete(mergeAntiBot(antiBot, req))
<1>1. CASE req = Nil
  BY Zenon, <1>1 DEF mergeAntiBot
<1>2. CASE req # Nil
  <2> DEFINE U == Vals \cup {Default}
             captcha == mergeCaptcha(antiBot.captcha, req.captcha)
             en == overwrite(antiBot.enabled, req.enabled)
             op == overwrite(overwrite(Default, antiBot.options), req.options)
             m == [enabled |-> en, options |-> op, captcha |-> captcha]
  <2>1. /\ mergeAntiBot(antiBot, req) = m /\ captcha # Panic
        /\ ~ (req.enabled = Nil /\ antiBot.enabled = Nil)
    BY Zenon, <1>2 DEF mergeAntiBot
  <2>2. req \in [enabled : Opt(BOOLEAN), options : Opt(Vals), captcha : Opt(CaptchaV2)]
    BY Zenon, <1>2 DEF Opt
  <2>3. /\ req.enabled \in Opt(BOOLEAN) /\ req.options \in Opt(U)
        /\ req.captcha \in Opt(CaptchaV2)
    BY <2>2 DEF Opt
  <2>4. /\ antiBot.enabled \in Opt(BOOLEAN) /\ antiBot.options \in Opt(U)
        /\ antiBot.captcha \in CaptchaV2
    BY Zenon DEF AntiBot
  <2>5. /\ captcha \in CaptchaV2
        /\ req.captcha # Nil => captcha.enabled # Nil /\ captcha.url # Nil
    BY Zenon, <2>1, <2>3, <2>4, MergeCaptchaKeeps
  <2>6. req.captcha = Nil => captcha = antiBot.captcha
    BY Zenon DEF mergeCaptcha
  <2>7. en \in Opt(BOOLEAN) /\ en # Nil
    BY Zenon, <2>1, <2>3, <2>4, OverwriteType
  <2>8. op \in Opt(U) /\ op # Nil
    BY Zenon, <2>3, <2>4, RequestsAssumption DEF overwrite, Opt
  <2> HIDE DEF captcha, en, op
  <2>9. m \in AntiBot /\ m.enabled = en /\ m.options = op /\ m.captcha = captcha
    BY <2>5, <2>7, <2>8 DEF AntiBot
  <2> HIDE DEF m
  <2>10. (captcha.enabled = Nil) <=> (captcha.url = Nil)
    BY Zenon, <2>5, <2>6 DEF Complete
  <2> QED BY Zenon, <2>1, <2>7, <2>8, <2>9, <2>10 DEF Complete
<1> QED BY Zenon, <1>1, <1>2

\* ProtectionDesiredState.Merge, for every state and every request.
LEMMA MergeKeeps ==
  ASSUME NEW s, WellMerged(s), NEW req \in PutProtectionRequest, Merge(s, req) # Panic
  PROVE  /\ WellMerged(Merge(s, req))
         /\ Merge(s, req).allow = mergeIPs(s.allow, req.allowToRemove, req.allowToAdd)
         /\ Merge(s, req).block = mergeIPs(s.block, req.blockToRemove, req.blockToAdd)
         /\ Merge(s, req).tokenAuth = mergeTokenAuth(s.tokenAuth, req.tokenAuth)
         /\ mergeTokenAuth(s.tokenAuth, req.tokenAuth) # Panic
<1> DEFINE waf == IF req.waf = Nil THEN s.waf ELSE IF s.waf = Nil THEN Panic ELSE req.waf
           hops == overwrite(s.hops, req.hops)
           allow == mergeIPs(s.allow, req.allowToRemove, req.allowToAdd)
           block == mergeIPs(s.block, req.blockToRemove, req.blockToAdd)
           basicAuth == mergeBasicAuth(s.basicAuth, req.basicAuth)
           tokenAuth == mergeTokenAuth(s.tokenAuth, req.tokenAuth)
           antiBot == mergeAntiBot(s.antiBot, req.antiBot)
           m == [waf |-> waf, hops |-> hops, allow |-> allow, block |-> block,
                 basicAuth |-> basicAuth, tokenAuth |-> tokenAuth, antiBot |-> antiBot]
<1>1. /\ s.waf \in Opt(Vals) /\ s.hops \in Opt(Vals)
      /\ s.allow \in Seq(CIDRs) /\ s.block \in Seq(CIDRs)
      /\ s.basicAuth \in Auth /\ s.tokenAuth \in Auth /\ s.antiBot \in AntiBot
  BY Zenon DEF WellMerged, ProtectionDesiredState
<1>2. /\ req.waf \in Opt(Vals) /\ req.hops \in Opt(Vals)
      /\ req.allowToRemove \in Seq(CIDRs) /\ req.allowToAdd \in Seq(CIDRs)
      /\ req.blockToRemove \in Seq(CIDRs) /\ req.blockToAdd \in Seq(CIDRs)
      /\ req.basicAuth \in Opt(AuthPutRequest) /\ req.tokenAuth \in Opt(AuthPutRequest)
      /\ req.antiBot \in Opt([enabled : Opt(BOOLEAN), options : Opt(Vals),
                              captcha : Opt(CaptchaV2)])
  BY Zenon DEF PutProtectionRequest
<1>3. /\ Merge(s, req) = m /\ waf # Panic
      /\ basicAuth # Panic /\ tokenAuth # Panic /\ antiBot # Panic
  BY Zenon DEF Merge
<1>4. waf \in Opt(Vals)
  BY Zenon, <1>1, <1>2, <1>3
<1>5. hops \in Opt(Vals)
  BY Zenon, <1>1, <1>2, OverwriteType
<1>6. allow \in Seq(CIDRs) /\ IsInjective(allow)
  BY Zenon, <1>1, <1>2, MergeIPsEffect DEF WellMerged
<1>7. block \in Seq(CIDRs) /\ IsInjective(block)
  BY Zenon, <1>1, <1>2, MergeIPsEffect DEF WellMerged
<1>8. /\ basicAuth \in Auth
      /\ IsInjective(basicAuth.paths) /\ IsInjective(KeysOf(basicAuth.entries))
  BY Zenon, <1>1, <1>2, <1>3, MergeBasicAuthKeeps DEF WellMerged
<1>9. /\ tokenAuth \in Auth
      /\ IsInjective(tokenAuth.paths) /\ IsInjective(KeysOf(tokenAuth.entries))
  BY Zenon, <1>1, <1>2, <1>3, MergeTokenAuthKeeps DEF WellMerged
<1>10. antiBot \in AntiBot /\ Complete(antiBot)
  BY Zenon, <1>1, <1>2, <1>3, MergeAntiBotKeeps DEF WellMerged
<1> HIDE DEF waf, hops, allow, block, basicAuth, tokenAuth, antiBot
<1>11. /\ m \in ProtectionDesiredState
       /\ m.allow = allow /\ m.block = block
       /\ m.basicAuth = basicAuth /\ m.tokenAuth = tokenAuth /\ m.antiBot = antiBot
  BY <1>4, <1>5, <1>6, <1>7, <1>8, <1>9, <1>10 DEF ProtectionDesiredState
<1> HIDE DEF m
<1>12. WellMerged(m)
  BY Zenon, <1>6, <1>7, <1>8, <1>9, <1>10, <1>11 DEF WellMerged
<1> QED BY Zenon, <1>3, <1>11, <1>12 DEF allow, block, tokenAuth

-----------------------------------------------------------------------------
(* PUT requests and upserts.                                               *)

\* A protection begins without settings.
LEMMA InitPutInv == PutInit => PutInv
<1> SUFFICES ASSUME PutInit PROVE PutInv
  OBVIOUS
<1>1. /\ state.waf = Nil /\ state.hops = Nil /\ state.allow = <<>> /\ state.block = <<>>
      /\ state.basicAuth = NoAuth /\ state.tokenAuth = NoAuth /\ state.antiBot = NoAntiBot
      /\ state = [waf |-> Nil, hops |-> Nil, allow |-> <<>>, block |-> <<>>,
                  basicAuth |-> NoAuth, tokenAuth |-> NoAuth, antiBot |-> NoAntiBot]
  BY DEF PutInit
<1>2. NoAuth \in Auth /\ NoAuth.paths = <<>> /\ NoAuth.entries = <<>>
  BY DEF NoAuth, Auth, Opt
<1>3. NoCaptcha \in CaptchaV2 /\ NoCaptcha.enabled = Nil /\ NoCaptcha.url = Nil
  BY DEF NoCaptcha, CaptchaV2, Opt
<1>4. /\ NoAntiBot \in AntiBot /\ NoAntiBot.enabled = Nil /\ NoAntiBot.options = Nil
      /\ NoAntiBot.captcha = NoCaptcha
  BY <1>3 DEF NoAntiBot, AntiBot, Opt
<1>5. state \in ProtectionDesiredState
  BY <1>1, <1>2, <1>4 DEF ProtectionDesiredState, Opt
<1>6. IsInjective(<<>>) /\ KeysOf(<<>>) = <<>>
  BY DEF IsInjective, KeysOf
<1>7. Complete(NoAntiBot)
  BY Zenon, <1>3, <1>4 DEF Complete
<1>8. WellMerged(state)
  BY Zenon, <1>1, <1>2, <1>5, <1>6, <1>7 DEF WellMerged
<1>9. pending = [c \in Handlers |-> Nil] /\ puts \in 0..MaxPuts
  BY RequestsAssumption DEF PutInit
<1> QED BY Zenon, <1>8, <1>9 DEF PutInv

\* A handler that selects the row holds a copy of it.
LEMMA ReadStep ==
  ASSUME PutInv, NEW c \in Handlers, NEW rec, puts < MaxPuts, puts' = puts + 1,
         pending' = [pending EXCEPT ![c] = rec], UNCHANGED state,
         rec.op \in {"put", "upsert"}, rec.op = "put" => rec.req \in Requests,
         rec.read = state
  PROVE  PutInv'
<1>1. /\ pending' = [d \in Handlers |-> pending'[d]] /\ pending'[c] = rec
      /\ \A d \in Handlers : d # c => pending'[d] = pending[d]
  BY Zenon DEF PutInv
<1>2. puts' \in 0..MaxPuts
  BY RequestsAssumption DEF PutInv
<1>3. WellMerged(state')
  BY Zenon DEF PutInv
<1>4. WellMerged(rec.read)
  BY Zenon DEF PutInv
<1>5. ASSUME NEW d \in Handlers, pending'[d] # Nil
      PROVE  /\ pending'[d].op \in {"put", "upsert"}
             /\ pending'[d].op = "put" => pending'[d].req \in Requests
             /\ WellMerged(pending'[d].read)
  <2>1. CASE d = c
    BY Zenon, <1>1, <1>4, <2>1
  <2>2. CASE d # c
    BY Zenon, <1>1, <1>5, <2>2 DEF PutInv
  <2> QED BY Zenon, <2>1, <2>2
<1> QED BY Zenon, <1>1, <1>2, <1>3, <1>5 DEF PutInv, WellMerged, Complete

\* A handler that writes the row is done.
LEMMA WriteStep ==
  ASSUME PutInv, NEW c \in Handlers, WellMerged(state'),
         pending' = [pending EXCEPT ![c] = Nil], UNCHANGED puts
  PROVE  PutInv'
<1>1. /\ pending' = [d \in Handlers |-> pending'[d]] /\ pending'[c] = Nil
      /\ \A d \in Handlers : d # c => pending'[d] = pending[d]
  BY Zenon DEF PutInv
<1>2. puts' \in 0..MaxPuts
  BY Zenon DEF PutInv
<1>3. ASSUME NEW d \in Handlers, pending'[d] # Nil
      PROVE  /\ pending'[d].op \in {"put", "upsert"}
             /\ pending'[d].op = "put" => pending'[d].req \in Requests
             /\ WellMerged(pending'[d].read)
  BY Zenon, <1>1, <1>3 DEF PutInv
<1> QED BY Zenon, <1>1, <1>2, <1>3 DEF PutInv, WellMerged, Complete

\* The state an accepted request leaves.
LEMMA AcceptedMerge ==
  ASSUME PutInv, NEW c \in Handlers, Accepted(c)
  PROVE  /\ WellMerged(pending[c].read) /\ pending[c].req \in PutProtectionRequest
         /\ Merge(pending[c].read, pending[c].req) # Panic
         /\ Merged(c) = Merge(pending[c].read, pending[c].req) /\ WellMerged(Merged(c))
<1>1. WellMerged(pending[c].read) /\ pending[c].req \in PutProtectionRequest
  BY Zenon, RequestsAssumption DEF PutInv, Accepted
<1>2. Merge(pending[c].read, pending[c].req) # Panic
  BY Zenon DEF Accepted, Merged
<1> QED BY Zenon, <1>1, <1>2, MergeKeeps DEF Merged

\* No statement of a handler breaks the invariant.
LEMMA PutInvNext == PutInv /\ [PutNext]_putVars => PutInv'
<1> SUFFICES ASSUME PutInv, [PutNext]_putVars PROVE PutInv'
  OBVIOUS
<1>1. ASSUME NEW c \in Handlers, NEW req \in Requests, Select(c, req) PROVE PutInv'
  <2> DEFINE rec == [op |-> "put", req |-> req, read |-> state]
  <2>1. rec.op = "put" /\ rec.req = req /\ rec.read = state
    OBVIOUS
  <2>2. /\ puts < MaxPuts /\ puts' = puts + 1 /\ pending' = [pending EXCEPT ![c] = rec]
        /\ UNCHANGED state
    BY Zenon, <1>1 DEF Select
  <2> HIDE DEF rec
  <2> QED BY Zenon, <2>1, <2>2, ReadStep
<1>2. ASSUME NEW c \in Handlers, Update(c) PROVE PutInv'
  <2>1. /\ state' = (IF Accepted(c) THEN Merged(c) ELSE state) /\ UNCHANGED puts
        /\ pending' = [pending EXCEPT ![c] = Nil]
    BY Zenon, <1>2 DEF Update
  <2>2. WellMerged(IF Accepted(c) THEN Merged(c) ELSE state)
    BY Zenon, AcceptedMerge DEF PutInv
  <2>3. WellMerged(state')
    BY Zenon, <2>1, <2>2
  <2> QED BY Zenon, <2>1, <2>3, WriteStep
<1>3. ASSUME NEW c \in Handlers, First(c) PROVE PutInv'
  <2> DEFINE rec == [op |-> "upsert", req |-> Nil, read |-> state]
  <2>1. rec.op = "upsert" /\ rec.read = state /\ rec.op # "put"
    OBVIOUS
  <2>2. /\ puts < MaxPuts /\ puts' = puts + 1 /\ pending' = [pending EXCEPT ![c] = rec]
        /\ UNCHANGED state
    BY Zenon, <1>3 DEF First
  <2> HIDE DEF rec
  <2> QED BY Zenon, <2>1, <2>2, ReadStep
<1>4. ASSUME NEW c \in Handlers, Save(c) PROVE PutInv'
  <2>1. /\ state' = pending[c].read /\ pending[c] # Nil /\ UNCHANGED puts
        /\ pending' = [pending EXCEPT ![c] = Nil]
    BY Zenon, <1>4 DEF Save
  <2>2. WellMerged(pending[c].read)
    BY Zenon, <2>1 DEF PutInv
  <2>3. WellMerged(state')
    BY Zenon, <2>1, <2>2
  <2> QED BY Zenon, <2>1, <2>3, WriteStep
<1>5. CASE UNCHANGED putVars
  BY Zenon, <1>5 DEF PutInv, putVars, WellMerged, Complete
<1> QED BY Zenon, <1>1, <1>2, <1>3, <1>4, <1>5 DEF PutNext

\* What holds of the row holds of every copy of it a handler may write back.
THEOREM PutInvariant == PutSpec => []PutInv
<1> QED BY InitPutInv, PutInvNext, PTL DEF PutSpec

\* The column desired_state, and every copy of it that UpdateProtection and
\* UpsertProtection hold, is a desired state, whatever requests are merged.
THEOREM PutTypeCorrect == PutSpec => []PutTypeOK
<1>1. PutInv => PutTypeOK
  BY Zenon DEF PutInv, PutTypeOK, WellMerged
<1> QED BY <1>1, PutInvariant, PTL

\* No list of the stored state ever holds an element twice, for lists of any
\* length and any number of requests at a time (addIPs, BasicAuth.Merge and
\* TokenAuth.Merge).
THEOREM NoDuplicates == PutSpec => []EntriesUnique
<1>1. PutInv => EntriesUnique
  BY Zenon DEF PutInv, WellMerged, EntriesUnique
<1> QED BY <1>1, PutInvariant, PTL

\* The anti-bot settings are complete or absent, whatever requests are merged
\* or lost (AntiBot.Merge and CaptchaV2.Merge).
THEOREM AntiBotAlwaysComplete == PutSpec => []AntiBotComplete
<1>1. PutInv => AntiBotComplete
  BY Zenon DEF PutInv, WellMerged, AntiBotComplete
<1> QED BY <1>1, PutInvariant, PTL

\* Only an Update of handler c writes the request of handler c.
LEMMA WrittenByUpdate ==
  ASSUME PutInv, [PutNext]_putVars, NEW c \in Handlers, Writes(c)
  PROVE  state' = Merged(c)
<1>1. pending[c] # Nil /\ pending[c].op = "put" /\ Accepted(c) /\ pending'[c] = Nil
  BY Zenon DEF Writes, Accepted
<1>2. pending = [d \in Handlers |-> pending[d]]
  BY Zenon DEF PutInv
<1>3. ASSUME NEW d \in Handlers, NEW x, d # c, pending' = [pending EXCEPT ![d] = x]
      PROVE  FALSE
  BY Zenon, <1>1, <1>2, <1>3
<1>4. ASSUME NEW d \in Handlers, NEW req \in Requests, Select(d, req) PROVE FALSE
  BY Zenon, <1>1, <1>3, <1>4 DEF Select
<1>5. ASSUME NEW d \in Handlers, First(d) PROVE FALSE
  BY Zenon, <1>1, <1>3, <1>5 DEF First
<1>6. ASSUME NEW d \in Handlers, Save(d) PROVE FALSE
  <2>1. "put" # "upsert"
    OBVIOUS
  <2> QED BY Zenon, <1>1, <1>3, <1>6, <2>1 DEF Save
<1>7. ASSUME NEW d \in Handlers, Update(d) PROVE state' = Merged(c)
  BY Zenon, <1>1, <1>3, <1>7 DEF Update
<1>8. ~ UNCHANGED putVars
  BY Zenon, <1>1 DEF putVars
<1> QED BY Zenon, <1>4, <1>5, <1>6, <1>7, <1>8 DEF PutNext

\* The address rules after an accepted request are those it was merged with,
\* less the ones to remove, and the ones to add, for lists of any length
\* (IPRules.Merge).
THEOREM RulesMerged == PutSpec => RulesMergedAsAsked
<1> DEFINE A == \A c \in Handlers : Writes(c) =>
                  LET r == pending[c].req
                      read == pending[c].read
                  IN  /\ SetMerged(read.allow, r.allowToRemove, r.allowToAdd, state'.allow)
                      /\ SetMerged(read.block, r.blockToRemove, r.blockToAdd, state'.block)
<1>1. ASSUME PutInv, [PutNext]_putVars PROVE A
  <2> SUFFICES ASSUME NEW c \in Handlers, Writes(c)
               PROVE  LET r == pending[c].req
                          read == pending[c].read
                      IN  /\ SetMerged(read.allow, r.allowToRemove, r.allowToAdd, state'.allow)
                          /\ SetMerged(read.block, r.blockToRemove, r.blockToAdd, state'.block)
    BY Zenon
  <2> DEFINE r == pending[c].req
             read == pending[c].read
  <2>1. WellMerged(read) /\ r \in PutProtectionRequest /\ Merge(read, r) # Panic
        /\ state' = Merge(read, r)
    BY Zenon, <1>1, AcceptedMerge, WrittenByUpdate DEF Writes
  <2>2. /\ r.allowToRemove \in Seq(CIDRs) /\ r.allowToAdd \in Seq(CIDRs)
        /\ r.blockToRemove \in Seq(CIDRs) /\ r.blockToAdd \in Seq(CIDRs)
    BY Zenon, <2>1 DEF PutProtectionRequest
  <2>3. read.allow \in Seq(CIDRs) /\ read.block \in Seq(CIDRs)
    BY Zenon, <2>1 DEF WellMerged, ProtectionDesiredState
  <2>4. /\ state'.allow = mergeIPs(read.allow, r.allowToRemove, r.allowToAdd)
        /\ state'.block = mergeIPs(read.block, r.blockToRemove, r.blockToAdd)
    BY Zenon, <2>1, MergeKeeps
  <2> HIDE DEF r, read
  <2>5. SetMerged(read.allow, r.allowToRemove, r.allowToAdd, state'.allow)
    BY Zenon, <2>2, <2>3, <2>4, MergeIPsEffect
  <2>6. SetMerged(read.block, r.blockToRemove, r.blockToAdd, state'.block)
    BY Zenon, <2>2, <2>3, <2>4, MergeIPsEffect
  <2> QED BY Zenon, <2>5, <2>6 DEF r, read
<1>2. PutInv /\ [PutNext]_putVars => [A]_putVars
  BY Zenon, <1>1
<1> HIDE DEF A
<1>3. PutSpec => [][A]_putVars
  BY <1>2, PutInvariant, PTL DEF PutSpec
<1> QED BY <1>3 DEF RulesMergedAsAsked, A

-----------------------------------------------------------------------------
(* Requests that remove at most one element of a list.                     *)

\* c is what is left of a without the elements whose key is in rm.
LeftOf(c, a, keys, rm) ==
  /\ \A i \in 1..Len(c) : \E j \in 1..Len(a) : keys[j] \notin Range(rm) /\ c[i] = a[j]
  /\ \A j \in 1..Len(a) : keys[j] \notin Range(rm) => \E i \in 1..Len(c) : c[i] = a[j]

\* cut takes out exactly the elements to remove, if there is at most one
\* position to cut at: no cut moves an element that a later one is about.
LEMMA CutAsAsked ==
  ASSUME NEW S, NEW a \in Seq(S), NEW T, NEW keys \in Seq(T), Len(keys) = Len(a),
         NEW rm \in Seq(T), Len(removeAt(keys, rm)) <= 1,
         cut(a, removeAt(keys, rm)) # Panic
  PROVE  LeftOf(cut(a, removeAt(keys, rm)), a, keys, rm)
<1> DEFINE p == removeAt(keys, rm)
           c == cut(a, p)
<1>1. /\ p \in Seq(1..Len(keys)) /\ p \in Seq(Nat \ {0})
      /\ Range(p) = Marked(keys, rm)
  BY Zenon, RemoveAtPositions
<1>2. PICK h : CutRun(h, S, a, p)
  BY Zenon, <1>1, CutSteps
<1>3. /\ h[0] = a /\ c = h[Len(p)] /\ \A k \in 1..Len(p) : h[k] = CutAt(h[k - 1], p[k])
  BY Zenon, <1>2 DEF CutRun
<1> HIDE DEF p
<1>4. Len(p) \in {0, 1}
  <2>1. Len(p) \in Nat /\ Len(p) <= 1
    BY <1>1 DEF p
  <2>2. \A n \in Nat : n <= 1 => n \in {0, 1}
    OBVIOUS
  <2> QED BY Zenon, <2>1, <2>2
<1>5. CASE Len(p) = 0
  <2>1. c = a /\ Range(p) = {}
    BY <1>1, <1>3, <1>5 DEF Range
  <2> HIDE DEF c
  <2>2. \A j \in 1..Len(a) : keys[j] \notin Range(rm)
    BY Zenon, <1>1, <2>1 DEF Marked
  <2> QED BY Zenon, <2>1, <2>2 DEF LeftOf, c, p
<1>6. CASE Len(p) = 1
  <2> DEFINE q == p[1]
  <2>1. Range(p) = {q} /\ 1 \in 1..Len(p) /\ 1 - 1 = 0
    BY <1>1, <1>6 DEF Range
  <2>2. c = CutAt(a, q)
    BY <1>3, <1>6, <2>1
  <2>3. c = RemoveAt(a, q)
    BY Zenon, <2>2 DEF CutAt, p
  <2>4. q \in 1..Len(a) /\ \A j \in 1..Len(a) : keys[j] \in Range(rm) <=> j = q
    BY <1>1, <2>1 DEF Marked
  <2> HIDE DEF q
  <2>5. /\ RemoveAt(a, q) \in Seq(S) /\ Len(RemoveAt(a, q)) = Len(a) - 1
        /\ \A j \in 1..(Len(a) - 1) : RemoveAt(a, q)[j] = IF j < q THEN a[j] ELSE a[j + 1]
    BY Zenon, <2>4, RemoveAtEffect
  <2>6. /\ Len(c) = Len(a) - 1 /\ Len(a) \in Nat
        /\ \A j \in 1..(Len(a) - 1) : c[j] = IF j < q THEN a[j] ELSE a[j + 1]
    BY <2>3, <2>5
  <2> HIDE DEF c
  <2>7. ASSUME NEW i \in 1..Len(c)
        PROVE  \E j \in 1..Len(a) : keys[j] \notin Range(rm) /\ c[i] = a[j]
    <3> DEFINE j == IF i < q THEN i ELSE i + 1
    <3>1. j \in 1..Len(a) /\ j # q /\ c[i] = a[j]
      BY <2>4, <2>6
    <3> HIDE DEF j
    <3> QED BY Zenon, <2>4, <3>1
  <2>8. ASSUME NEW j \in 1..Len(a), keys[j] \notin Range(rm)
        PROVE  \E i \in 1..Len(c) : c[i] = a[j]
    <3> DEFINE i == IF j < q THEN j ELSE j - 1
    <3>0. j # q
      BY Zenon, <2>4, <2>8
    <3>1. i \in 1..Len(c) /\ c[i] = a[j]
      BY <2>4, <2>6, <3>0
    <3> HIDE DEF i
    <3> QED BY Zenon, <3>1
  <2> QED BY Zenon, <2>7, <2>8 DEF LeftOf, c, p
<1> QED BY <1>4, <1>5, <1>6

\* So the paths are those that were there, less the ones to remove ...
LEMMA CutPaths ==
  ASSUME NEW S, NEW a \in Seq(S), NEW rm \in Seq(S), Len(removeAt(a, rm)) <= 1,
         cut(a, removeAt(a, rm)) # Panic
  PROVE  Range(cut(a, removeAt(a, rm))) = Range(a) \ Range(rm)
<1> DEFINE c == cut(a, removeAt(a, rm))
<1>1. LeftOf(c, a, a, rm)
  BY Zenon, CutAsAsked
<1>2. c \in Seq(S)
  <2>1. removeAt(a, rm) \in Seq(Nat \ {0})
    BY Zenon, RemoveAtPositions
  <2> QED BY Zenon, <2>1, CutDrawn
<1> HIDE DEF c
<1>3. DOMAIN c = 1..Len(c) /\ DOMAIN a = 1..Len(a)
  BY <1>2
<1>5. ASSUME NEW x \in Range(c) PROVE x \in Range(a) \ Range(rm)
  <2>1. PICK i \in 1..Len(c) : x = c[i]
    BY Zenon, <1>3, <1>5 DEF Range
  <2>2. PICK j \in 1..Len(a) : a[j] \notin Range(rm) /\ c[i] = a[j]
    BY Zenon, <1>1 DEF LeftOf
  <2>3. a[j] \in Range(a)
    BY Zenon, <1>3 DEF Range
  <2> QED BY Zenon, <2>1, <2>2, <2>3
<1>6. ASSUME NEW x \in Range(a) \ Range(rm) PROVE x \in Range(c)
  <2>1. PICK j \in 1..Len(a) : x = a[j]
    BY Zenon, <1>3, <1>6 DEF Range
  <2>2. PICK i \in 1..Len(c) : c[i] = a[j]
    BY Zenon, <1>1, <1>6, <2>1 DEF LeftOf
  <2> QED BY Zenon, <1>3, <2>1, <2>2 DEF Range
<1>7. Range(c) = Range(a) \ Range(rm)
  BY Zenon, <1>5, <1>6
<1> QED BY Zenon, <1>7 DEF c

\* ... and the entries too.
LEMMA CutLookup ==
  ASSUME NEW a \in Seq(Entry), NEW rm \in Seq(Names), Len(removeAt(KeysOf(a), rm)) <= 1,
         cut(a, removeAt(KeysOf(a), rm)) # Panic, NEW k
  PROVE  Lookup(cut(a, removeAt(KeysOf(a), rm)), k)
           = IF k \in Range(rm) THEN {} ELSE Lookup(a, k)
<1> DEFINE c == cut(a, removeAt(KeysOf(a), rm))
<1>0. /\ KeysOf(a) \in Seq(Names) /\ Len(KeysOf(a)) = Len(a)
      /\ \A i \in 1..Len(a) : KeysOf(a)[i] = a[i].key
  BY Zenon, KeysType
<1>1. LeftOf(c, a, KeysOf(a), rm)
  BY Zenon, <1>0, CutAsAsked
<1>2. c \in Seq(Entry)
  <2>1. removeAt(KeysOf(a), rm) \in Seq(Nat \ {0})
    BY Zenon, <1>0, RemoveAtPositions
  <2> QED BY Zenon, <2>1, CutDrawn
<1> HIDE DEF c
<1>3. DOMAIN c = 1..Len(c) /\ DOMAIN a = 1..Len(a)
  BY <1>2
<1>4. /\ \A i \in DOMAIN c : \E j \in DOMAIN a : a[j].key \notin Range(rm) /\ c[i] = a[j]
      /\ \A j \in DOMAIN a : a[j].key \notin Range(rm) => \E i \in DOMAIN c : c[i] = a[j]
  BY Zenon, <1>0, <1>1, <1>3 DEF LeftOf
<1>5. CASE k \in Range(rm)
  <2>1. \A i \in DOMAIN c : c[i].key # k
    BY Zenon, <1>4, <1>5
  <2>2. Lookup(c, k) = {}
    BY Zenon, <2>1 DEF Lookup
  <2> QED BY Zenon, <1>5, <2>2 DEF c
<1>6. CASE k \notin Range(rm)
  <2>1. ASSUME NEW x \in Lookup(c, k) PROVE x \in Lookup(a, k)
    <3>1. PICK i \in DOMAIN c : c[i].key = k /\ x = c[i].val
      BY Zenon, <2>1 DEF Lookup
    <3>2. PICK j \in DOMAIN a : c[i] = a[j]
      BY Zenon, <1>4
    <3> QED BY Zenon, <3>1, <3>2 DEF Lookup
  <2>2. ASSUME NEW x \in Lookup(a, k) PROVE x \in Lookup(c, k)
    <3>1. PICK j \in DOMAIN a : a[j].key = k /\ x = a[j].val
      BY Zenon, <2>2 DEF Lookup
    <3>2. PICK i \in DOMAIN c : c[i] = a[j]
      BY Zenon, <1>4, <1>6, <3>1
    <3> QED BY Zenon, <3>1, <3>2 DEF Lookup
  <2>3. Lookup(c, k) = Lookup(a, k)
    BY Zenon, <2>1, <2>2
  <2> QED BY Zenon, <1>6, <2>3 DEF c
<1> QED BY Zenon, <1>5, <1>6

\* The entry at position i has the key k and the val x.
EntryAt(e, i, k, x) == i \in 1..Len(e) /\ e[i].key = k /\ x = e[i].val

\* Lookup by positions.
LEMMA LookupOf ==
  ASSUME NEW e \in Seq(Entry), NEW k, NEW x
  PROVE  x \in Lookup(e, k) <=> \E i : EntryAt(e, i, k, x)
<1>1. DOMAIN e = 1..Len(e)
  OBVIOUS
<1> QED BY Zenon, <1>1 DEF Lookup, EntryAt

\* What addToken does to the fields of the token with key k.
LEMMA AddTokenLookup ==
  ASSUME NEW v \in Seq(Entry), NEW t \in Entry, NEW k
  PROVE  Lookup(addToken(v, t), k)
           = IF t.key = k /\ (Lookup(v, k) = {} \/ t.val # Nil) THEN {t.val} ELSE Lookup(v, k)
<1> DEFINE w == addToken(v, t)
<1>0. /\ KeysOf(v) \in Seq(Names) /\ Len(KeysOf(v)) = Len(v)
      /\ \A i \in 1..Len(v) : KeysOf(v)[i] = v[i].key
  BY Zenon, KeysType
<1>1. t.key \in Range(KeysOf(v)) <=> \E i \in 1..Len(v) : v[i].key = t.key
  <2>1. DOMAIN KeysOf(v) = 1..Len(v)
    BY <1>0
  <2> QED BY Zenon, <1>0, <2>1 DEF Range
<1>2. \A x : x \in Lookup(v, k) <=> \E i : EntryAt(v, i, k, x)
  BY Zenon, LookupOf
<1>3. w \in Seq(Entry)
  BY Zenon, AddTokenType
<1> HIDE DEF w
<1>4. \A x : x \in Lookup(w, k) <=> \E i : EntryAt(w, i, k, x)
  BY Zenon, <1>3, LookupOf
<1>5. CASE t.key \in Range(KeysOf(v))
  <2>1. Len(w) = Len(v) /\ \A i \in 1..Len(v) :
          /\ w[i].key = v[i].key
          /\ w[i].val = IF v[i].key = t.key /\ t.val # Nil THEN t.val ELSE v[i].val
    BY Zenon, <1>5, AddTokenEffect DEF w
  <2>2. CASE t.key = k /\ t.val # Nil
    <3>1. \A i \in 1..Len(w) : w[i].key = k => w[i].val = t.val
      BY Zenon, <2>1, <2>2
    <3>2. \E i \in 1..Len(w) : w[i].key = k
      BY Zenon, <1>1, <1>5, <2>1, <2>2
    <3>3. Lookup(w, k) = {t.val}
      BY Zenon, <1>4, <3>1, <3>2 DEF EntryAt
    <3> QED BY Zenon, <2>2, <3>3 DEF w
  <2>3. CASE ~ (t.key = k /\ t.val # Nil)
    <3>1. \A i \in 1..Len(v) : v[i].key = k => w[i].val = v[i].val
      BY Zenon, <2>1, <2>3
    <3>2. Lookup(w, k) = Lookup(v, k)
      <4>1. ASSUME NEW x \in Lookup(w, k) PROVE x \in Lookup(v, k)
        <5>1. PICK i : EntryAt(w, i, k, x)
          BY Zenon, <1>4, <4>1
        <5>2. EntryAt(v, i, k, x)
          BY Zenon, <2>1, <3>1, <5>1 DEF EntryAt
        <5> QED BY Zenon, <1>2, <5>2
      <4>2. ASSUME NEW x \in Lookup(v, k) PROVE x \in Lookup(w, k)
        <5>1. PICK i : EntryAt(v, i, k, x)
          BY Zenon, <1>2, <4>2
        <5>2. EntryAt(w, i, k, x)
          BY Zenon, <2>1, <3>1, <5>1 DEF EntryAt
        <5> QED BY Zenon, <1>4, <5>2
      <4> QED BY Zenon, <4>1, <4>2
    <3>3. t.key = k => Lookup(v, k) # {}
      BY Zenon, <1>1, <1>2, <1>5 DEF EntryAt
    <3> QED BY Zenon, <2>3, <3>2, <3>3 DEF w
  <2> QED BY Zenon, <2>2, <2>3
<1>6. CASE t.key \notin Range(KeysOf(v))
  <2>1. w = Append(v, t)
    BY Zenon, <1>6 DEF addToken, w
  <2>2. /\ \A i \in 1..Len(w) : (i \in 1..Len(v) /\ w[i] = v[i]) \/ w[i] = t
        /\ \A i \in 1..Len(v) : i \in 1..Len(w) /\ w[i] = v[i]
        /\ \E i \in 1..Len(w) : w[i] = t
    <3>1. /\ Len(w) = Len(v) + 1 /\ Len(v) \in Nat /\ w[Len(v) + 1] = t
          /\ \A i \in 1..Len(v) : w[i] = v[i]
      BY <2>1
    <3>2. Len(v) + 1 \in 1..Len(w) /\ \A i \in 1..Len(w) : i \in 1..Len(v) \/ i = Len(v) + 1
      BY <3>1
    <3>3. \A i \in 1..Len(v) : i \in 1..Len(w)
      BY <3>1
    <3> QED BY Zenon, <3>1, <3>2, <3>3
  <2>3. CASE t.key = k
    <3>1. Lookup(v, k) = {}
      BY Zenon, <1>1, <1>2, <1>6, <2>3 DEF EntryAt
    <3>2. \A i \in 1..Len(w) : w[i].key = k => w[i].val = t.val
      BY Zenon, <1>1, <1>6, <2>2, <2>3
    <3>3. \E i \in 1..Len(w) : w[i].key = k
      BY Zenon, <2>2, <2>3
    <3>4. Lookup(w, k) = {t.val}
      BY Zenon, <1>4, <3>2, <3>3 DEF EntryAt
    <3> QED BY Zenon, <2>3, <3>1, <3>4 DEF w
  <2>4. CASE t.key # k
    <3>1. ASSUME NEW x \in Lookup(w, k) PROVE x \in Lookup(v, k)
      <4>1. PICK i : EntryAt(w, i, k, x)
        BY Zenon, <1>4, <3>1
      <4>2. EntryAt(v, i, k, x)
        BY Zenon, <2>2, <2>4, <4>1 DEF EntryAt
      <4> QED BY Zenon, <1>2, <4>2
    <3>2. ASSUME NEW x \in Lookup(v, k) PROVE x \in Lookup(w, k)
      <4>1. PICK i : EntryAt(v, i, k, x)
        BY Zenon, <1>2, <3>2
      <4>2. EntryAt(w, i, k, x)
        BY Zenon, <2>2, <4>1 DEF EntryAt
      <4> QED BY Zenon, <1>4, <4>2
    <3>3. Lookup(w, k) = Lookup(v, k)
      BY Zenon, <3>1, <3>2
    <3> QED BY Zenon, <2>4, <3>3 DEF w
  <2> QED BY Zenon, <2>3, <2>4
<1> QED BY Zenon, <1>5, <1>6

\* The entries for k among the first n of a request that have a val.
Given(b, k, n) == {i \in 1..n : b[i].key = k /\ b[i].val # Nil}

\* l is the val of k after the first n tokens of b are added to old.
LookupAfter(l, old, b, k, n) ==
  /\ Given(b, k, n) # {} =>
       \E i \in Given(b, k, n) : (\A j \in Given(b, k, n) : j <= i) /\ l = {b[i].val}
  /\ Given(b, k, n) = {} =>
       l = IF old = {} /\ (\E i \in 1..n : b[i].key = k) THEN {Nil} ELSE old

\* One more token of the request.
LEMMA LookupAfterStep ==
  ASSUME NEW b \in Seq(Entry), NEW k, NEW n \in 1..Len(b), NEW old, NEW l, NEW m,
         LookupAfter(l, old, b, k, n - 1),
         m = IF b[n].key = k /\ (l = {} \/ b[n].val # Nil) THEN {b[n].val} ELSE l
  PROVE  LookupAfter(m, old, b, k, n)
<1> DEFINE before == Given(b, k, n - 1)
           now == Given(b, k, n)
<1>0. n \in 1..n /\ (1..n) = (1..(n - 1)) \cup {n} /\ \A i \in 1..n : i <= n
  OBVIOUS
<1>1. CASE b[n].key = k /\ b[n].val # Nil
  <2>1. n \in now /\ \A j \in now : j <= n
    BY Zenon, <1>0, <1>1 DEF Given
  <2> QED BY Zenon, <1>1, <2>1 DEF LookupAfter
<1>2. CASE ~ (b[n].key = k /\ b[n].val # Nil)
  <2>1. now = before
    BY Zenon, <1>0, <1>2 DEF Given
  <2>2. CASE before # {}
    <3>1. PICK i \in before : (\A j \in before : j <= i) /\ l = {b[i].val}
      BY Zenon, <2>2 DEF LookupAfter
    <3>2. m = l
      BY Zenon, <1>2, <3>1
    <3> QED BY Zenon, <2>1, <2>2, <3>1, <3>2 DEF LookupAfter
  <2>3. CASE before = {}
    <3>1. l = IF old = {} /\ (\E i \in 1..(n - 1) : b[i].key = k) THEN {Nil} ELSE old
      BY Zenon, <2>3 DEF LookupAfter
    <3>2. CASE b[n].key = k
      <4>1. b[n].val = Nil /\ (\E i \in 1..n : b[i].key = k)
        BY Zenon, <1>0, <1>2, <3>2
      <4>2. m = IF l = {} THEN {Nil} ELSE l
        BY Zenon, <3>2, <4>1
      <4>3. m = IF old = {} THEN {Nil} ELSE old
        BY Zenon, <3>1, <4>2
      <4> QED BY Zenon, <2>1, <2>3, <4>1, <4>3 DEF LookupAfter
    <3>3. CASE b[n].key # k
      <4>1. (\E i \in 1..n : b[i].key = k) <=> \E i \in 1..(n - 1) : b[i].key = k
        BY Zenon, <1>0, <3>3
      <4>2. m = l
        BY Zenon, <3>3
      <4> QED BY Zenon, <2>1, <2>3, <3>1, <4>1, <4>2 DEF LookupAfter
    <3> QED BY Zenon, <3>2, <3>3
  <2> QED BY Zenon, <2>2, <2>3
<1> QED BY Zenon, <1>1, <1>2

\* The fields of a token after all tokens of a request were added.
LEMMA AddTokensLookup ==
  ASSUME NEW a \in Seq(Entry), NEW b \in Seq(Entry), NEW k
  PROVE  LookupAfter(Lookup(Loop(addToken, a, b), k), Lookup(a, k), b, k, Len(b))
<1>0. Len(b) \in Nat /\ Len(b) \in 0..Len(b) /\ 0 \in 0..Len(b) /\ 1..0 = {}
  OBVIOUS
<1>1. PICK h : AddTokenRun(h, a, b)
  BY Zenon, AddTokenSteps
<1>2. /\ h \in [0..Len(b) -> Seq(Entry)] /\ h[0] = a /\ Loop(addToken, a, b) = h[Len(b)]
      /\ \A n \in 1..Len(b) : h[n] = addToken(h[n - 1], b[n])
  BY Zenon, <1>1 DEF AddTokenRun
<1> DEFINE Good == {n \in 0..Len(b) : LookupAfter(Lookup(h[n], k), Lookup(a, k), b, k, n)}
<1>3. 0 \in Good
  BY Zenon, <1>0, <1>2 DEF LookupAfter, Given
<1>4. ASSUME NEW n \in 1..Len(b), n - 1 \in Good PROVE n \in Good
  <2>0. n - 1 \in 0..Len(b) /\ n \in 0..Len(b) /\ b[n] \in Entry
    BY <1>0
  <2> DEFINE l == Lookup(h[n - 1], k)
  <2>1. h[n - 1] \in Seq(Entry) /\ LookupAfter(l, Lookup(a, k), b, k, n - 1)
    BY Zenon, <1>2, <1>4, <2>0
  <2>2. Lookup(h[n], k) = IF b[n].key = k /\ (l = {} \/ b[n].val # Nil) THEN {b[n].val} ELSE l
    <3>1. h[n] = addToken(h[n - 1], b[n])
      BY Zenon, <1>2
    <3>2. Lookup(addToken(h[n - 1], b[n]), k)
            = IF b[n].key = k /\ (l = {} \/ b[n].val # Nil) THEN {b[n].val} ELSE l
      BY Zenon, <2>0, <2>1, AddTokenLookup
    <3> QED BY Zenon, <3>1, <3>2
  <2> HIDE DEF l
  <2>3. LookupAfter(Lookup(h[n], k), Lookup(a, k), b, k, n)
    BY Zenon, <2>1, <2>2, LookupAfterStep
  <2> QED BY Zenon, <2>0, <2>3
<1> HIDE DEF Good
<1>5. \A n \in 0..Len(b) : n \in Good
  BY Zenon, <1>0, <1>3, <1>4, UpTo
<1> QED BY Zenon, <1>0, <1>2, <1>5 DEF Good

\* What the loop leaves is what the request asked for.
LEMMA LookupAsAsked ==
  ASSUME NEW a \in Seq(Entry), NEW c \in Seq(Entry), NEW rm, NEW b \in Seq(Entry), NEW k,
         Lookup(c, k) = IF k \in Range(rm) THEN {} ELSE Lookup(a, k)
  PROVE  Lookup(Loop(addToken, c, b), k) = LookupMerged(a, rm, b, k)
<1> DEFINE l == Lookup(Loop(addToken, c, b), k)
           old == IF k \in Range(rm) THEN {} ELSE Lookup(a, k)
           given == {i \in DOMAIN b : b[i].key = k /\ b[i].val # Nil}
           last == CHOOSE i \in given : \A j \in given : j <= i
<1>1. LookupAfter(l, old, b, k, Len(b))
  BY Zenon, AddTokensLookup
<1> HIDE DEF l, old
<1>2. DOMAIN b = 1..Len(b) /\ given = Given(b, k, Len(b)) /\ given \subseteq Nat
  BY DEF Given
<1>3. /\ KeysOf(b) \in Seq(Names) /\ Len(KeysOf(b)) = Len(b)
      /\ \A i \in 1..Len(b) : KeysOf(b)[i] = b[i].key
  BY Zenon, KeysType
<1>4. k \in Range(KeysOf(b)) <=> \E i \in 1..Len(b) : b[i].key = k
  <2>1. DOMAIN KeysOf(b) = 1..Len(b)
    BY <1>3
  <2> QED BY Zenon, <1>3, <2>1 DEF Range
<1> HIDE DEF given
<1>5. CASE given # {}
  <2>1. PICK i \in given : (\A j \in given : j <= i) /\ l = {b[i].val}
    BY Zenon, <1>1, <1>2, <1>5 DEF LookupAfter
  <2>2. last \in given /\ \A j \in given : j <= last
    BY Zenon, <2>1
  <2>3. last \in Nat /\ i \in Nat /\ last <= i /\ i <= last
    BY Zenon, <1>2, <2>1, <2>2
  <2> HIDE DEF last
  <2>4. last = i
    BY <2>3
  <2>5. LookupMerged(a, rm, b, k) = {b[last].val}
    BY Zenon, <1>5 DEF LookupMerged, given, last
  <2> QED BY Zenon, <2>1, <2>4, <2>5 DEF l
<1>6. CASE given = {}
  <2>1. l = IF old = {} /\ k \in Range(KeysOf(b)) THEN {Nil} ELSE old
    BY Zenon, <1>1, <1>2, <1>4, <1>6 DEF LookupAfter
  <2>2. LookupMerged(a, rm, b, k) = IF old = {} /\ k \in Range(KeysOf(b)) THEN {Nil} ELSE old
    BY Zenon, <1>6 DEF LookupMerged, given, old
  <2> QED BY Zenon, <2>1, <2>2 DEF l
<1> QED BY Zenon, <1>5, <1>6

\* A request that removes at most one path and one token leaves exactly the
\* paths and tokens it asks for, every token with the fields last given for
\* it, for lists of any length (TokenAuth.Merge).
THEOREM TokensMerged == PutSpec => TokensMergedAsAsked
<1> DEFINE Asked(r, before, after) ==
             /\ Len(removeAt(before.paths, r.pathsToRemove)) <= 1 =>
                  SetMerged(before.paths, r.pathsToRemove, r.pathsToAdd, after.paths)
             /\ Len(removeAt(KeysOf(before.entries), r.toRemove)) <= 1 =>
                  \A k \in Names :
                    Lookup(after.entries, k)
                      = LookupMerged(before.entries, r.toRemove, r.toAdd, k)
           A == \A c \in Handlers : Writes(c) /\ pending[c].req.tokenAuth # Nil =>
                  Asked(pending[c].req.tokenAuth, pending[c].read.tokenAuth, state'.tokenAuth)
<1>1. ASSUME NEW before \in Auth, NEW r \in Opt(AuthPutRequest), r # Nil,
             IsInjective(before.paths), IsInjective(KeysOf(before.entries)),
             mergeTokenAuth(before, r) # Panic
      PROVE  Asked(r, before, mergeTokenAuth(before, r))
  <2> DEFINE after == mergeTokenAuth(before, r)
             paths == cut(before.paths, removeAt(before.paths, r.pathsToRemove))
             kept == cut(before.entries, removeAt(KeysOf(before.entries), r.toRemove))
             m == mergeAuth(before, r)
  <2>1. r \in AuthPutRequest
    BY Zenon, <1>1 DEF Opt
  <2>2. /\ m # Panic /\ after.paths = m.paths
        /\ after.entries = Loop(addToken, m.entries, r.toAdd)
    BY Zenon, <1>1, MergeTokenAuthKeeps
  <2>3. /\ m.paths = addPaths(paths, r.pathsToAdd) /\ m.entries = kept
        /\ paths # Panic /\ kept # Panic /\ m \in Auth
    BY Zenon, <1>1, <2>1, <2>2, MergeAuthKeeps
  <2>4. before.paths \in Seq(Paths) /\ before.entries \in Seq(Entry) /\ kept \in Seq(Entry)
    BY Zenon, <1>1, <2>3 DEF Auth
  <2>5. /\ r.pathsToRemove \in Seq(Paths) /\ r.pathsToAdd \in Seq(Paths)
        /\ r.toRemove \in Seq(Names) /\ r.toAdd \in Seq(Entry)
    BY Zenon, <2>1 DEF AuthPutRequest
  <2>6. paths \in Seq(Paths)
    <3>1. removeAt(before.paths, r.pathsToRemove) \in Seq(Nat \ {0})
      BY Zenon, <2>4, <2>5, RemoveAtPositions
    <3> QED BY Zenon, <2>3, <2>4, <3>1, CutDrawn
  <2>7. ASSUME Len(removeAt(before.paths, r.pathsToRemove)) <= 1
        PROVE  SetMerged(before.paths, r.pathsToRemove, r.pathsToAdd, after.paths)
    <3>1. Range(paths) = Range(before.paths) \ Range(r.pathsToRemove)
      BY <2>3, <2>4, <2>5, <2>7, CutPaths
    <3>2. Range(addPaths(paths, r.pathsToAdd)) = Range(paths) \cup Range(r.pathsToAdd)
      BY <2>5, <2>6, AddPathsEffect
    <3> QED BY Zenon, <2>2, <2>3, <3>1, <3>2 DEF SetMerged
  <2>8. ASSUME Len(removeAt(KeysOf(before.entries), r.toRemove)) <= 1, NEW k \in Names
        PROVE  Lookup(after.entries, k) = LookupMerged(before.entries, r.toRemove, r.toAdd, k)
    <3>1. Lookup(kept, k) = IF k \in Range(r.toRemove) THEN {} ELSE Lookup(before.entries, k)
      BY Zenon, <2>3, <2>4, <2>5, <2>8, CutLookup
    <3> HIDE DEF after, kept, m
    <3>2. Lookup(Loop(addToken, kept, r.toAdd), k)
            = LookupMerged(before.entries, r.toRemove, r.toAdd, k)
      BY <2>4, <2>5, <3>1, LookupAsAsked
    <3> QED BY Zenon, <2>2, <2>3, <3>2
  <2> QED BY Zenon, <2>7, <2>8
<1> HIDE DEF Asked
<1>2. ASSUME PutInv, [PutNext]_putVars PROVE A
  <2> SUFFICES ASSUME NEW c \in Handlers, Writes(c), pending[c].req.tokenAuth # Nil
               PROVE  Asked(pending[c].req.tokenAuth, pending[c].read.tokenAuth,
                            state'.tokenAuth)
    BY Zenon
  <2> DEFINE req == pending[c].req
             read == pending[c].read
  <2>1. WellMerged(read) /\ req \in PutProtectionRequest /\ Merge(read, req) # Panic
        /\ state' = Merge(read, req)
    BY Zenon, <1>2, AcceptedMerge, WrittenByUpdate DEF Writes
  <2>2. req.tokenAuth \in Opt(AuthPutRequest) /\ read.tokenAuth \in Auth
        /\ IsInjective(read.tokenAuth.paths) /\ IsInjective(KeysOf(read.tokenAuth.entries))
    BY Zenon, <2>1 DEF PutProtectionRequest, WellMerged, ProtectionDesiredState
  <2>3. /\ state'.tokenAuth = mergeTokenAuth(read.tokenAuth, req.tokenAuth)
        /\ mergeTokenAuth(read.tokenAuth, req.tokenAuth) # Panic
    BY Zenon, <2>1, MergeKeeps
  <2> QED BY Zenon, <1>1, <2>2, <2>3
<1>3. PutInv /\ [PutNext]_putVars => [A]_putVars
  BY Zenon, <1>2
<1> HIDE DEF A
<1>4. PutSpec => [][A]_putVars
  BY <1>3, PutInvariant, PTL DEF PutSpec
<1> QED BY <1>4 DEF TokensMergedAsAsked, A, Asked
=============================================================================
