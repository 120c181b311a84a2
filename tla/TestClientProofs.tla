---------------------------- MODULE TestClientProofs ----------------------------
(***************************************************************************)
(* Proofs about TestClient for any number of contexts: the contexts that   *)
(* remain, how often they are torn down, and the session the client keeps. *)
(***************************************************************************)
EXTENDS TestClient, Induction

Made == 1..made

Contexts == [pushes : Nat, torn : Nat, sess : SUBSET Ctxs]
States   == [cv : Seq(Ctxs), ctx : [Ctxs -> Contexts], refused : BOOLEAN]
Calls    == [ctx : Ctxs, at : {"view", "answered", "answered again", "redirected"},
             follow : BOOLEAN]

Typed ==
    /\ made \in 0..MaxCtx
    /\ cv \in Seq(Ctxs) /\ ctx \in [Ctxs -> Contexts]
    /\ preserve_context \in BOOLEAN
    /\ calls \in Seq(Calls)
    /\ \A s \in {_new_contexts, _context_stack, own, txn} : s \in Seq(Ctxs)
    /\ cookie \subseteq Ctxs

Viewing    == ~Idle /\ Call.at = "view"
Viewed     == IF Viewing THEN {Call.ctx} ELSE {}
Distinct(s) == \A i, j \in DOMAIN s : s[i] = s[j] => i = j

\* A context that is not created yet is nowhere.
Known(S) == S \subseteq Made
Fresh ==
    /\ \A c \in Ctxs \ Made : ctx[c].pushes = 0 /\ ctx[c].torn = 0
    /\ Known(Elems(_new_contexts)) /\ Known(Elems(_context_stack)) /\ Known(streams)
    /\ Known(Elems(own)) /\ Known(Elems(txn)) /\ Known(Viewed)

\* A context is active until it is torn down.
Alive == \A c \in Made : ctx[c].torn = 0 => c \in Elems(cv)

\* The pops that are still to come for a context, one or two times each.
Times(n, c, S) == IF c \in S THEN n ELSE 0
Due(c) ==
    Times(2, c, Viewed) + Times(1, c, Elems(_new_contexts)) + Times(1, c, Elems(_context_stack))
    + Times(1, c, streams) + Times(2, c, Elems(own)) + Times(1, c, Elems(txn))
Budget == \A c \in Made : ctx[c].torn + Due(c) <= 2

Lists ==
    /\ Distinct(_new_contexts) /\ Distinct(_context_stack) /\ Distinct(own)
    /\ _new_contexts = <<>> \/ _context_stack = <<>>
    /\ Viewing => _context_stack = <<>>

\* The context of the view is the current one, with the session of the cookie.
ViewOK ==
    Viewing => /\ cv # <<>> /\ Last(cv) = Call.ctx /\ ctx[Call.ctx].pushes = 1
               /\ ctx[Call.ctx].sess = cookie
               /\ preserve_context => Call.ctx \in marked

\* What the test will see, or sees, is the context of the last request.
Kept ==
    ~Idle /\ ~Viewing /\ preserve_context /\ streams = {} =>
        IF _new_contexts # <<>>
        THEN ctx[Last(_new_contexts)].sess = cookie /\ ctx[Last(_new_contexts)].pushes = 0
        ELSE cv # <<>> /\ ctx[Last(cv)].sess = cookie

Transaction == \A c \in Elems(txn) : ctx[c].torn >= 1 /\ (~overlapped => ctx[c].sess = cookie)

\* Contexts used in the order of a stack: what is active, and how often it is pushed.
Orderly ==
    /\ IF streams = {}
       THEN /\ cv = own \o _context_stack \o (IF Viewing THEN <<Call.ctx>> ELSE <<>>)
            /\ \A c \in Elems(_context_stack) : ctx[c].pushes <= 1
       ELSE \E c \in streams :
               /\ streams = {c} /\ cv = Append(own, c) /\ c \notin Elems(own)
               /\ _context_stack = <<>> \/ _context_stack = <<c>>
               /\ ctx[c].pushes = 1 + Len(_context_stack)
               /\ ~Idle => Call.at = "answered"
    /\ \A c \in Elems(own) : ctx[c].pushes <= 1
    /\ \A c \in Elems(_new_contexts) \ streams : ctx[c].pushes = 0
    /\ \A c \in Elems(txn) : ctx[c].pushes = 0

IInv ==
    /\ Typed /\ Fresh /\ Alive /\ Budget /\ Lists /\ ViewOK /\ Kept /\ Transaction
    /\ ~overlapped => written \subseteq cookie
    /\ ~tangled /\ ~mixed => Orderly

-----------------------------------------------------------------------------
(* Lists. *)

LEMMA ElemsFacts ==
    ASSUME NEW S, NEW s \in Seq(S)
    PROVE  /\ Elems(s) \subseteq S /\ Elems(<<>>) = {}
           /\ \A c \in S : Append(s, c) \in Seq(S) /\ Elems(Append(s, c)) = Elems(s) \cup {c}
           /\ \A c \in S : Append(s, c) # <<>> /\ Last(Append(s, c)) = c
           /\ \A c \in S : <<c>> \in Seq(S) /\ Elems(<<c>>) = {c} /\ <<c>> # <<>>
<1>1. ASSUME NEW c \in S
      PROVE  /\ Append(s, c) \in Seq(S) /\ Len(Append(s, c)) = Len(s) + 1 /\ Len(s) \in Nat
             /\ DOMAIN s = 1..Len(s) /\ DOMAIN Append(s, c) = 1..(Len(s) + 1)
             /\ \A i \in 1..Len(s) : Append(s, c)[i] = s[i]
             /\ Append(s, c)[Len(s) + 1] = c
  OBVIOUS
<1>2. ASSUME NEW c \in S PROVE Elems(Append(s, c)) = Elems(s) \cup {c}
  <2>1. \A i \in 1..(Len(s) + 1) : i \in 1..Len(s) \/ i = Len(s) + 1
    BY <1>1
  <2>2. \A i \in 1..Len(s) : i \in 1..(Len(s) + 1)
    BY <1>1
  <2>3. Len(s) + 1 \in 1..(Len(s) + 1)
    BY <1>1
  <2> QED
    BY <1>1, <2>1, <2>2, <2>3 DEF Elems
<1>3. ASSUME NEW c \in S PROVE Append(s, c) # <<>> /\ Last(Append(s, c)) = c
  <2>1. Len(Append(s, c)) # 0 /\ Len(<<>>) = 0
    BY <1>1
  <2> QED
    BY <1>1, <2>1 DEF Last
<1>4. ASSUME NEW c \in S PROVE <<c>> \in Seq(S) /\ Elems(<<c>>) = {c} /\ <<c>> # <<>>
  <2>1. <<c>> \in Seq(S) /\ DOMAIN <<c>> = {1} /\ <<c>>[1] = c
    OBVIOUS
  <2>2. <<c>> # <<>>
    OBVIOUS
  <2> QED
    BY <2>1, <2>2 DEF Elems
<1>5. Elems(s) \subseteq S /\ Elems(<<>>) = {}
  BY DEF Elems
<1> QED
  BY <1>1, <1>2, <1>3, <1>4, <1>5

LEMMA FrontFacts ==
    ASSUME NEW S, NEW s \in Seq(S), s # <<>>
    PROVE  /\ Front(s) \in Seq(S) /\ Last(s) \in S /\ Last(s) \in Elems(s)
           /\ Elems(s) = Elems(Front(s)) \cup {Last(s)}
           /\ Len(s) \in Nat \ {0} /\ Len(Front(s)) = Len(s) - 1
<1>0. Len(s) \in Nat \ {0} /\ DOMAIN s = 1..Len(s)
  OBVIOUS
<1>1. /\ Len(s) \in Nat \ {0} /\ DOMAIN s = 1..Len(s)
      /\ Front(s) \in Seq(S) /\ Len(Front(s)) = Len(s) - 1
      /\ DOMAIN Front(s) = 1..(Len(s) - 1)
      /\ \A i \in 1..(Len(s) - 1) : Front(s)[i] = s[i]
  <2>1. PICK k \in Nat : Len(s) = k + 1
    <3>1. Len(s) - 1 \in Nat /\ Len(s) = (Len(s) - 1) + 1
      BY <1>0
    <3> QED
      BY <3>1
  <2>2. PICK u : u = SubSeq(s, 1, k)
    OBVIOUS
  <2>3. u \in Seq(S) /\ Len(u) = k /\ \A i \in 1..k : u[i] = s[i]
    BY <2>1, <2>2
  <2>4. Front(s) = u /\ Len(s) - 1 = k
    BY <2>1, <2>2 DEF Front
  <2>5. DOMAIN u = 1..k
    BY <2>3
  <2> QED
    BY <1>0, <2>3, <2>4, <2>5
<1>2. \A i \in 1..Len(s) : i \in 1..(Len(s) - 1) \/ i = Len(s)
  <2>1. \A n \in Nat : \A i \in 1..n : i \in 1..(n - 1) \/ i = n
    OBVIOUS
  <2> QED
    BY <1>0, <2>1
<1>3. \A i \in 1..(Len(s) - 1) : i \in 1..Len(s)
  BY <1>1
<1>4. Len(s) \in 1..Len(s)
  BY <1>1
<1>5. Last(s) \in S /\ Last(s) \in Elems(s)
  BY <1>1, <1>4 DEF Last, Elems
<1>6. Elems(s) = Elems(Front(s)) \cup {Last(s)}
  BY <1>1, <1>2, <1>3, <1>4 DEF Last, Elems
<1> QED
  BY <1>1, <1>5, <1>6

LEMMA FrontAppend ==
    ASSUME NEW S, NEW s \in Seq(S), NEW c \in S
    PROVE  Front(Append(s, c)) = s
<1>1. /\ Front(Append(s, c)) \in Seq(S) /\ Len(Front(Append(s, c))) = Len(s)
      /\ \A i \in 1..Len(s) : Front(Append(s, c))[i] = s[i]
  BY DEF Front
<1> QED
  BY <1>1

LEMMA ConcatFacts ==
    ASSUME NEW S, NEW s \in Seq(S), NEW u \in Seq(S)
    PROVE  /\ s \o u \in Seq(S) /\ Elems(s \o u) = Elems(s) \cup Elems(u)
           /\ Len(s \o u) = Len(s) + Len(u)
           /\ s \o <<>> = s /\ <<>> \o s = s
           /\ \A c \in S : s \o <<c>> = Append(s, c)
           /\ SubSeq(s \o u, 1, Len(s)) = s
<1>1. /\ s \o u \in Seq(S) /\ Len(s \o u) = Len(s) + Len(u)
      /\ Len(s) \in Nat /\ Len(u) \in Nat
      /\ DOMAIN s = 1..Len(s) /\ DOMAIN u = 1..Len(u) /\ DOMAIN (s \o u) = 1..(Len(s) + Len(u))
      /\ \A i \in 1..Len(s) : (s \o u)[i] = s[i]
      /\ \A i \in 1..Len(u) : (s \o u)[Len(s) + i] = u[i]
  OBVIOUS
<1>2. Elems(s \o u) \subseteq Elems(s) \cup Elems(u)
  <2>1. ASSUME NEW i \in 1..(Len(s) + Len(u))
        PROVE  i \in 1..Len(s) \/ (i - Len(s) \in 1..Len(u) /\ Len(s) + (i - Len(s)) = i)
    BY <1>1
  <2>2. ASSUME NEW i \in 1..(Len(s) + Len(u)) PROVE (s \o u)[i] \in Elems(s) \cup Elems(u)
    <3>1. CASE i \in 1..Len(s)
      BY <3>1, <1>1 DEF Elems
    <3>2. CASE i - Len(s) \in 1..Len(u) /\ Len(s) + (i - Len(s)) = i
      <4>1. PICK j \in 1..Len(u) : Len(s) + j = i
        BY <3>2
      <4>2. (s \o u)[i] = u[j]
        BY <4>1, <1>1
      <4> QED
        BY <4>2, <1>1 DEF Elems
    <3> QED
      BY <2>1, <2>2, <3>1, <3>2
  <2> QED
    BY <2>2, <1>1 DEF Elems
<1>3. Elems(s) \cup Elems(u) \subseteq Elems(s \o u)
  <2>1. ASSUME NEW i \in 1..Len(s) PROVE s[i] \in Elems(s \o u)
    <3>1. i \in 1..(Len(s) + Len(u))
      BY <1>1
    <3> QED
      BY <3>1, <1>1 DEF Elems
  <2>2. ASSUME NEW i \in 1..Len(u) PROVE u[i] \in Elems(s \o u)
    <3>1. Len(s) + i \in 1..(Len(s) + Len(u))
      BY <1>1
    <3> QED
      BY <3>1, <1>1 DEF Elems
  <2> QED
    BY <2>1, <2>2, <1>1 DEF Elems
<1>4. s \o <<>> = s /\ <<>> \o s = s /\ \A c \in S : s \o <<c>> = Append(s, c)
  OBVIOUS
<1>5. SubSeq(s \o u, 1, Len(s)) = s
  <2>1. /\ SubSeq(s \o u, 1, Len(s)) \in Seq(S) /\ Len(SubSeq(s \o u, 1, Len(s))) = Len(s)
        /\ \A i \in 1..Len(s) : SubSeq(s \o u, 1, Len(s))[i] = s[i]
    BY <1>1
  <2> QED
    BY <2>1
<1> QED
  BY <1>1, <1>2, <1>3, <1>4, <1>5

AppendedLast(s, u, c) == Append(s \o u, c) = s \o Append(u, c)

LEMMA AppendConcat ==
    ASSUME NEW S, NEW s \in Seq(S), NEW u \in Seq(S), NEW c \in S
    PROVE  AppendedLast(s, u, c)
<1>1. PICK m, n : m = Len(s) /\ n = Len(u)
  OBVIOUS
<1>2. m \in Nat /\ n \in Nat
  BY <1>1
<1>3. PICK v, w : v = s \o u /\ w = Append(u, c)
  OBVIOUS
<1>4. /\ v \in Seq(S) /\ Len(v) = m + n
      /\ \A i \in 1..m : v[i] = s[i]
      /\ \A i \in 1..n : v[m + i] = u[i]
  BY <1>1, <1>3
<1>5. /\ w \in Seq(S) /\ Len(w) = n + 1 /\ \A i \in 1..n : w[i] = u[i]
      /\ w[n + 1] = c
  BY <1>1, <1>3
<1>6. /\ Append(v, c) \in Seq(S) /\ Len(Append(v, c)) = m + n + 1
      /\ \A i \in 1..(m + n) : Append(v, c)[i] = v[i]
      /\ Append(v, c)[m + n + 1] = c
  BY <1>2, <1>4
<1>7. /\ s \o w \in Seq(S) /\ Len(s \o w) = m + (n + 1)
      /\ \A i \in 1..m : (s \o w)[i] = s[i]
      /\ \A i \in 1..(n + 1) : (s \o w)[m + i] = w[i]
  BY <1>1, <1>2, <1>5
<1>8. ASSUME NEW i \in 1..(m + n + 1) PROVE Append(v, c)[i] = (s \o w)[i]
  <2>1. CASE i \in 1..m
    <3>1. i \in 1..(m + n)
      BY <1>2, <2>1
    <3> QED
      BY <2>1, <3>1, <1>4, <1>6, <1>7
  <2>2. CASE i > m /\ i <= m + n
    <3>1. PICK k \in 1..n : i = m + k
      <4>1. i - m \in 1..n /\ i = m + (i - m)
        BY <1>2, <2>2
      <4> QED
        BY <4>1
    <3>2. i \in 1..(m + n) /\ k \in 1..(n + 1)
      BY <1>2, <2>2, <3>1
    <3> QED
      BY <3>1, <3>2, <1>4, <1>5, <1>6, <1>7
  <2>3. CASE i = m + n + 1
    <3>1. n + 1 \in 1..(n + 1) /\ m + (n + 1) = i
      BY <1>2, <2>3
    <3> QED
      BY <2>3, <3>1, <1>5, <1>6, <1>7
  <2>4. i \in 1..m \/ (i > m /\ i <= m + n) \/ i = m + n + 1
    BY <1>2
  <2> QED
    BY <2>1, <2>2, <2>3, <2>4
<1>9. PICK x, y : x = Append(v, c) /\ y = s \o w
  OBVIOUS
<1>10. m + (n + 1) = m + n + 1
  BY <1>2
<1>11. /\ x \in Seq(S) /\ y \in Seq(S) /\ Len(x) = m + n + 1 /\ Len(y) = m + n + 1
       /\ \A i \in 1..(m + n + 1) : x[i] = y[i]
  BY <1>6, <1>7, <1>8, <1>9, <1>10
<1>12. x = y
  BY <1>11
<1> QED
  BY <1>3, <1>9, <1>12 DEF AppendedLast

LEMMA PrefixFacts ==
    ASSUME NEW S, NEW w \in Seq(S), NEW m \in 1..Len(w)
    PROVE  /\ SubSeq(w, 1, m) \in Seq(S) /\ SubSeq(w, 1, m) # <<>>
           /\ Last(SubSeq(w, 1, m)) = w[m] /\ Front(SubSeq(w, 1, m)) = SubSeq(w, 1, m - 1)
           /\ SubSeq(w, 1, m) = Append(SubSeq(w, 1, m - 1), w[m])
<1>1. /\ SubSeq(w, 1, m) \in Seq(S) /\ Len(SubSeq(w, 1, m)) = m
      /\ \A i \in 1..m : SubSeq(w, 1, m)[i] = w[i]
  OBVIOUS
<1>2. /\ SubSeq(w, 1, m - 1) \in Seq(S) /\ Len(SubSeq(w, 1, m - 1)) = m - 1
      /\ \A i \in 1..(m - 1) : SubSeq(w, 1, m - 1)[i] = w[i]
  OBVIOUS
<1>3. Last(SubSeq(w, 1, m)) = w[m] /\ SubSeq(w, 1, m) # <<>>
  BY <1>1 DEF Last
<1>4. Front(SubSeq(w, 1, m)) = SubSeq(w, 1, m - 1)
  <2>1. /\ Front(SubSeq(w, 1, m)) \in Seq(S) /\ Len(Front(SubSeq(w, 1, m))) = m - 1
        /\ \A i \in 1..(m - 1) : Front(SubSeq(w, 1, m))[i] = w[i]
    BY <1>1 DEF Front
  <2> QED
    BY <1>2, <2>1
<1>5. SubSeq(w, 1, m) = Append(SubSeq(w, 1, m - 1), w[m])
  <2>1. w[m] \in S
    OBVIOUS
  <2>2. PICK v : v = SubSeq(w, 1, m - 1)
    OBVIOUS
  <2>3. /\ Append(v, w[m]) \in Seq(S) /\ Len(Append(v, w[m])) = m
        /\ \A i \in 1..(m - 1) : Append(v, w[m])[i] = w[i]
        /\ Append(v, w[m])[m] = w[m]
    BY <1>2, <2>1, <2>2
  <2>4. \A i \in 1..m : Append(v, w[m])[i] = w[i]
    BY <2>3
  <2> QED
    BY <1>1, <2>2, <2>3, <2>4
<1> QED
  BY <1>1, <1>3, <1>4, <1>5

-----------------------------------------------------------------------------
(* Push and pop. *)

Pushed(s, c, t) ==
    /\ t \in States /\ t.refused = s.refused
    /\ \A d \in Ctxs : d # c => t.ctx[d] = s.ctx[d]
    /\ t.ctx[c].pushes = s.ctx[c].pushes + 1
    /\ t.ctx[c].torn = s.ctx[c].torn /\ t.ctx[c].sess = s.ctx[c].sess
    /\ t.cv = IF s.ctx[c].pushes = 0 THEN Append(s.cv, c) ELSE s.cv

LEMMA PushFacts ==
    ASSUME NEW s \in States, NEW c \in Ctxs
    PROVE  Pushed(s, c, push(s, c))
<1>0. SUFFICES ASSUME NEW t, t = push(s, c) PROVE Pushed(s, c, t)
  OBVIOUS
<1>1. s.cv \in Seq(Ctxs) /\ s.ctx \in [Ctxs -> Contexts] /\ s.refused \in BOOLEAN
  BY DEF States
<1>2. s.ctx[c] \in Contexts
  BY <1>1
<1>3. PICK r : r = [s.ctx[c] EXCEPT !.pushes = @ + 1]
  OBVIOUS
<1>4. r \in Contexts /\ r.pushes = s.ctx[c].pushes + 1 /\ r.torn = s.ctx[c].torn
      /\ r.sess = s.ctx[c].sess
  BY <1>2, <1>3 DEF Contexts
<1>5. PICK v, f : /\ v = IF s.ctx[c].pushes = 0 THEN Append(s.cv, c) ELSE s.cv
                  /\ f = [s.ctx EXCEPT ![c] = r]
  OBVIOUS
<1>6. v \in Seq(Ctxs) /\ f \in [Ctxs -> Contexts] /\ f[c] = r
      /\ \A d \in Ctxs : d # c => f[d] = s.ctx[d]
  BY <1>1, <1>4, <1>5
<1>7. t = [s EXCEPT !.ctx = f, !.cv = v]
  BY <1>0, <1>3, <1>5 DEF push
<1>8. t \in States /\ t.ctx = f /\ t.cv = v /\ t.refused = s.refused
  BY <1>6, <1>7 DEF States
<1> QED
  BY <1>4, <1>5, <1>6, <1>8 DEF Pushed

Refuses(s, c) == s.cv = <<>> \/ Last(s.cv) # c

\* A pop is refused, or takes off one of several pushes, or is the last one.
Popped(s, c, t) ==
    /\ t \in States
    /\ \A d \in Ctxs : d # c => t.ctx[d] = s.ctx[d]
    /\ t.ctx[c].sess = s.ctx[c].sess
    /\ \/ Refuses(s, c) /\ t.cv = s.cv /\ t.ctx = s.ctx /\ t.refused
       \/ /\ ~Refuses(s, c) /\ s.ctx[c].pushes > 1
          /\ t.cv = s.cv /\ t.refused = s.refused
          /\ t.ctx[c].pushes = s.ctx[c].pushes - 1 /\ t.ctx[c].torn = s.ctx[c].torn
       \/ /\ ~Refuses(s, c) /\ ~(s.ctx[c].pushes > 1)
          /\ t.cv = Front(s.cv) /\ t.refused = s.refused
          /\ t.ctx[c].pushes = 0 /\ t.ctx[c].torn = s.ctx[c].torn + 1

LEMMA PopFacts ==
    ASSUME NEW s \in States, NEW c \in Ctxs
    PROVE  Popped(s, c, pop(s, c))
<1>0. SUFFICES ASSUME NEW t, t = pop(s, c) PROVE Popped(s, c, t)
  OBVIOUS
<1>1. s.cv \in Seq(Ctxs) /\ s.ctx \in [Ctxs -> Contexts] /\ s.refused \in BOOLEAN
  BY DEF States
<1>2. s.ctx[c] \in Contexts
  BY <1>1
<1>3. CASE Refuses(s, c)
  <2>1. t = [s EXCEPT !.refused = TRUE]
    BY <1>0, <1>3 DEF pop, Refuses
  <2>2. t \in States /\ t.cv = s.cv /\ t.ctx = s.ctx /\ t.refused
    BY <2>1 DEF States
  <2> QED
    BY <1>3, <2>2 DEF Popped
<1>4. CASE ~Refuses(s, c) /\ s.ctx[c].pushes > 1
  <2>1. PICK r : r = [s.ctx[c] EXCEPT !.pushes = @ - 1]
    OBVIOUS
  <2>2. r \in Contexts /\ r.pushes = s.ctx[c].pushes - 1 /\ r.torn = s.ctx[c].torn
        /\ r.sess = s.ctx[c].sess
    BY <1>2, <1>4, <2>1 DEF Contexts
  <2>3. PICK f : f = [s.ctx EXCEPT ![c] = r]
    OBVIOUS
  <2>4. f \in [Ctxs -> Contexts] /\ f[c] = r /\ \A d \in Ctxs : d # c => f[d] = s.ctx[d]
    BY <1>1, <2>2, <2>3
  <2>5. t = [s EXCEPT !.ctx = f]
    BY <1>0, <1>4, <2>1, <2>3 DEF pop, Refuses
  <2>6. t \in States /\ t.ctx = f /\ t.cv = s.cv /\ t.refused = s.refused
    BY <2>4, <2>5 DEF States
  <2> QED
    BY <1>4, <2>2, <2>4, <2>6 DEF Popped
<1>5. CASE ~Refuses(s, c) /\ ~(s.ctx[c].pushes > 1)
  <2>1. PICK r : r = [s.ctx[c] EXCEPT !.pushes = 0, !.torn = @ + 1]
    OBVIOUS
  <2>2. r \in Contexts /\ r.pushes = 0 /\ r.torn = s.ctx[c].torn + 1
        /\ r.sess = s.ctx[c].sess
    <3>1. s.ctx[c].torn \in Nat
      BY <1>2 DEF Contexts
    <3>2. s.ctx[c].torn + 1 \in Nat
      BY <3>1
    <3> QED
      BY <1>2, <2>1, <3>2 DEF Contexts
  <2>3. PICK f, v : f = [s.ctx EXCEPT ![c] = r] /\ v = Front(s.cv)
    OBVIOUS
  <2>4. f \in [Ctxs -> Contexts] /\ f[c] = r /\ \A d \in Ctxs : d # c => f[d] = s.ctx[d]
    BY <1>1, <2>2, <2>3
  <2>5. v \in Seq(Ctxs)
    BY <1>1, <1>5, <2>3, FrontFacts DEF Refuses
  <2>6. t = [s EXCEPT !.ctx = f, !.cv = v]
    BY <1>0, <1>5, <2>1, <2>3 DEF pop, Refuses
  <2>7. t \in States /\ t.ctx = f /\ t.cv = v /\ t.refused = s.refused
    BY <2>4, <2>5, <2>6 DEF States
  <2> QED
    BY <1>5, <2>2, <2>3, <2>4, <2>7 DEF Popped
<1> QED
  BY <1>3, <1>4, <1>5

\* What pushes and pops never do: lose the session of a context, forget a
\* teardown, or take a context off without one.
Keeps(s, t) ==
    /\ t \in States
    /\ \A c \in Ctxs :
          /\ t.ctx[c].sess = s.ctx[c].sess
          /\ s.ctx[c].torn <= t.ctx[c].torn
          /\ c \in Elems(s.cv) => c \in Elems(t.cv) \/ s.ctx[c].torn < t.ctx[c].torn

LEMMA StateTypes ==
    ASSUME NEW s \in States
    PROVE  /\ s.cv \in Seq(Ctxs) /\ s.ctx \in [Ctxs -> Contexts]
           /\ \A c \in Ctxs : s.ctx[c].pushes \in Nat /\ s.ctx[c].torn \in Nat
<1>1. s.cv \in Seq(Ctxs) /\ s.ctx \in [Ctxs -> Contexts]
  BY DEF States
<1>2. \A c \in Ctxs : s.ctx[c] \in Contexts
  BY <1>1
<1> QED
  BY <1>1, <1>2 DEF Contexts

LEMMA KeepsItself == ASSUME NEW s \in States PROVE Keeps(s, s)
BY StateTypes DEF Keeps

LEMMA KeepsAll ==
    ASSUME NEW s \in States, NEW t \in States, NEW u, Keeps(s, t), Keeps(t, u)
    PROVE  Keeps(s, u)
<1>1. u \in States
  BY DEF Keeps
<1>2. ASSUME NEW c \in Ctxs
      PROVE  /\ u.ctx[c].sess = s.ctx[c].sess /\ s.ctx[c].torn <= u.ctx[c].torn
             /\ c \in Elems(s.cv) => c \in Elems(u.cv) \/ s.ctx[c].torn < u.ctx[c].torn
  <2>1. s.ctx[c].torn \in Nat /\ t.ctx[c].torn \in Nat /\ u.ctx[c].torn \in Nat
    BY <1>1, StateTypes
  <2> QED
    BY <2>1 DEF Keeps
<1> QED
  BY <1>1, <1>2 DEF Keeps

LEMMA PushKeeps ==
    ASSUME NEW s \in States, NEW c \in Ctxs PROVE Keeps(s, push(s, c))
<1>1. PICK t : t = push(s, c)
  OBVIOUS
<1>2. /\ t \in States /\ \A d \in Ctxs : d # c => t.ctx[d] = s.ctx[d]
      /\ t.ctx[c].torn = s.ctx[c].torn /\ t.ctx[c].sess = s.ctx[c].sess
      /\ t.cv = IF s.ctx[c].pushes = 0 THEN Append(s.cv, c) ELSE s.cv
  BY <1>1, PushFacts DEF Pushed
<1>3. \A d : d \in Elems(s.cv) => d \in Elems(t.cv)
  BY <1>2, StateTypes, ElemsFacts
<1>4. \A d \in Ctxs : s.ctx[d].torn \in Nat /\ t.ctx[d].torn = s.ctx[d].torn
  BY <1>2, StateTypes
<1>5. \A d \in Ctxs : s.ctx[d].torn <= t.ctx[d].torn /\ t.ctx[d].sess = s.ctx[d].sess
  BY <1>2, <1>4
<1> QED
  BY <1>1, <1>2, <1>3, <1>5 DEF Keeps

LEMMA PopKeeps ==
    ASSUME NEW s \in States, NEW c \in Ctxs PROVE Keeps(s, pop(s, c))
<1>1. PICK t : t = pop(s, c)
  OBVIOUS
<1>4. Popped(s, c, t)
  BY <1>1, PopFacts
<1>2. t \in States /\ \A d \in Ctxs : t.ctx[d].sess = s.ctx[d].sess
  BY <1>4 DEF Popped
<1>3. ASSUME NEW d \in Ctxs
      PROVE  /\ s.ctx[d].torn <= t.ctx[d].torn
             /\ d \in Elems(s.cv) => d \in Elems(t.cv) \/ s.ctx[d].torn < t.ctx[d].torn
  <2>1. s.ctx[d].torn \in Nat
    BY StateTypes
  <2>2. CASE Refuses(s, c)
    BY <1>4, <2>1, <2>2 DEF Popped
  <2>3. CASE ~Refuses(s, c) /\ s.ctx[c].pushes > 1
    <3>1. t.cv = s.cv /\ t.ctx[d].torn = s.ctx[d].torn
      BY <1>4, <2>3 DEF Popped
    <3> QED
      BY <2>1, <3>1
  <2>4. CASE ~Refuses(s, c) /\ ~(s.ctx[c].pushes > 1)
    <3>1. t.cv = Front(s.cv) /\ t.ctx[c].torn = s.ctx[c].torn + 1
          /\ (d # c => t.ctx[d] = s.ctx[d])
      BY <1>4, <2>4 DEF Popped
    <3>2. Elems(s.cv) = Elems(t.cv) \cup {c}
      BY <2>4, <3>1, StateTypes, FrontFacts DEF Refuses
    <3> QED
      BY <2>1, <3>1, <3>2
  <2> QED
    BY <2>2, <2>3, <2>4
<1> QED
  BY <1>1, <1>2, <1>3 DEF Keeps

-----------------------------------------------------------------------------
(* Leaving and entering a list of contexts, one after the other. *)

Leaving(h, s, cs) ==
    /\ h \in [0..Len(cs) -> States] /\ h[0] = s
    /\ \A i \in 1..Len(cs) : h[i] = pop(h[i - 1], cs[Len(cs) + 1 - i])

LEMMA LeaveSteps ==
    ASSUME NEW s \in States, NEW cs \in Seq(Ctxs)
    PROVE  \E h : Leaving(h, s, cs) /\ LeaveAll(s, cs) = h[Len(cs)]
<1>0. PICK n : n = Len(cs)
  OBVIOUS
<1>1. n \in Nat /\ \A i \in 1..n : n + 1 - i \in 1..n /\ cs[n + 1 - i] \in Ctxs
  <2>1. n \in Nat /\ \A i \in 1..n : cs[i] \in Ctxs
    BY <1>0
  <2>2. \A i \in 1..n : n + 1 - i \in 1..n
    BY <2>1
  <2> QED
    BY <2>1, <2>2
<1> DEFINE G == [i \in 1..n |-> [t \in States |-> pop(t, cs[n + 1 - i])]]
<1>2. G \in [1..n -> [States -> States]]
  <2>1. \A i \in 1..n : \A t \in States : pop(t, cs[n + 1 - i]) \in States
    BY <1>1, PopFacts DEF Popped
  <2> QED
    BY <2>1
<1>3. PICK h \in [0..n -> States] : Iterate(h, n, s, G)
  <2> HIDE DEF G
  <2> QED
    BY <1>1, <1>2, Iterates
<1>4. h[0] = s /\ \A i \in 1..n : h[i] = pop(h[i - 1], cs[n + 1 - i])
  <2>1. \A i \in 1..n : i - 1 \in 0..n /\ h[i - 1] \in States
    BY <1>1
  <2> QED
    BY <1>3, <2>1 DEF Iterate
<1> HIDE DEF G
<1> DEFINE R(f) == [i \in 0..n |-> IF i = 0 THEN s ELSE pop(f[i - 1], cs[n + 1 - i])]
           g == CHOOSE f : f = R(f)
<1>5. h = R(h)
  <2>1. \A i \in 0..n : i = 0 \/ i \in 1..n
    BY <1>1
  <2>2. \A i \in 0..n : h[i] = IF i = 0 THEN s ELSE pop(h[i - 1], cs[n + 1 - i])
    BY <1>4, <2>1
  <2> QED
    BY <2>2
<1>6. g = R(g)
  <2> HIDE DEF R
  <2> QED
    BY <1>5
<1>7. LeaveAll(s, cs) = g[n]
  BY <1>0 DEF LeaveAll
<1> HIDE DEF g
<1>8. /\ g[0] = s /\ \A i \in 1..n : g[i] = pop(g[i - 1], cs[n + 1 - i])
      /\ g = [i \in 0..n |-> g[i]]
  <2>1. 0 \in 0..n /\ \A i \in 1..n : i \in 0..n /\ i # 0
    BY <1>1
  <2>2. \A i \in 0..n : g[i] = IF i = 0 THEN s ELSE pop(g[i - 1], cs[n + 1 - i])
    BY <1>6
  <2>3. DOMAIN g = 0..n /\ g = [i \in DOMAIN g |-> g[i]]
    BY <1>6
  <2> QED
    BY <2>1, <2>2, <2>3
<1>9. \A i \in 0..n : g[i] \in States
  <2> DEFINE T == {i \in 0..n : g[i] \in States}
  <2>1. 0 \in T
    BY <1>1, <1>8
  <2>2. ASSUME NEW i \in 1..n, i - 1 \in T PROVE i \in T
    <3>0. i \in 0..n
      BY <1>1
    <3>1. g[i] = pop(g[i - 1], cs[n + 1 - i]) /\ g[i - 1] \in States
      BY <1>8, <2>2
    <3> QED
      BY <3>0, <3>1, <1>1, PopFacts DEF Popped
  <2>3. \A i \in 0..n : i \in T
    <3> HIDE DEF T
    <3> QED
      BY <1>1, <2>1, <2>2, UpTo
  <2> QED
    BY <2>3
<1> QED
  <2>1. g \in [0..n -> States]
    BY <1>8, <1>9
  <2> QED
    BY <2>1, <1>0, <1>7, <1>8 DEF Leaving

Entering(h, s, cs) ==
    /\ h \in [0..Len(cs) -> States] /\ h[0] = s
    /\ \A i \in 1..Len(cs) : h[i] = push(h[i - 1], cs[i])

LEMMA EnterSteps ==
    ASSUME NEW s \in States, NEW cs \in Seq(Ctxs)
    PROVE  \E h : Entering(h, s, cs) /\ EnterAll(s, cs) = h[Len(cs)]
<1>0. PICK n : n = Len(cs)
  OBVIOUS
<1>1. n \in Nat /\ \A i \in 1..n : cs[i] \in Ctxs
  BY <1>0
<1> DEFINE G == [i \in 1..n |-> [t \in States |-> push(t, cs[i])]]
<1>2. G \in [1..n -> [States -> States]]
  <2>1. \A i \in 1..n : \A t \in States : push(t, cs[i]) \in States
    BY <1>1, PushFacts DEF Pushed
  <2> QED
    BY <2>1
<1>3. PICK h \in [0..n -> States] : Iterate(h, n, s, G)
  <2> HIDE DEF G
  <2> QED
    BY <1>1, <1>2, Iterates
<1>4. h[0] = s /\ \A i \in 1..n : h[i] = push(h[i - 1], cs[i])
  <2>1. \A i \in 1..n : i - 1 \in 0..n /\ h[i - 1] \in States
    BY <1>1
  <2> QED
    BY <1>3, <2>1 DEF Iterate
<1> HIDE DEF G
<1> DEFINE R(f) == [i \in 0..n |-> IF i = 0 THEN s ELSE push(f[i - 1], cs[i])]
           g == CHOOSE f : f = R(f)
<1>5. h = R(h)
  <2>1. \A i \in 0..n : i = 0 \/ i \in 1..n
    BY <1>1
  <2>2. \A i \in 0..n : h[i] = IF i = 0 THEN s ELSE push(h[i - 1], cs[i])
    BY <1>4, <2>1
  <2> QED
    BY <2>2
<1>6. g = R(g)
  <2> HIDE DEF R
  <2> QED
    BY <1>5
<1>7. EnterAll(s, cs) = g[n]
  BY <1>0 DEF EnterAll
<1> HIDE DEF g
<1>8. /\ g[0] = s /\ \A i \in 1..n : g[i] = push(g[i - 1], cs[i])
      /\ g = [i \in 0..n |-> g[i]]
  <2>1. 0 \in 0..n /\ \A i \in 1..n : i \in 0..n /\ i # 0
    BY <1>1
  <2>2. \A i \in 0..n : g[i] = IF i = 0 THEN s ELSE push(g[i - 1], cs[i])
    BY <1>6
  <2>3. DOMAIN g = 0..n /\ g = [i \in DOMAIN g |-> g[i]]
    BY <1>6
  <2> QED
    BY <2>1, <2>2, <2>3
<1>9. \A i \in 0..n : g[i] \in States
  <2> DEFINE T == {i \in 0..n : g[i] \in States}
  <2>1. 0 \in T
    BY <1>1, <1>8
  <2>2. ASSUME NEW i \in 1..n, i - 1 \in T PROVE i \in T
    <3>0. i \in 0..n
      BY <1>1
    <3>1. g[i] = push(g[i - 1], cs[i]) /\ g[i - 1] \in States
      BY <1>8, <2>2
    <3> QED
      BY <3>0, <3>1, <1>1, PushFacts DEF Pushed
  <2>3. \A i \in 0..n : i \in T
    <3> HIDE DEF T
    <3> QED
      BY <1>1, <2>1, <2>2, UpTo
  <2> QED
    BY <2>3
<1> QED
  <2>1. g \in [0..n -> States]
    BY <1>8, <1>9
  <2> QED
    BY <2>1, <1>0, <1>7, <1>8 DEF Entering

LEMMA ElemAt ==
    ASSUME NEW S, NEW s \in Seq(S)
    PROVE  /\ Len(s) \in Nat /\ DOMAIN s = 1..Len(s)
           /\ \A k \in 1..Len(s) : s[k] \in S /\ s[k] \in Elems(s)
           /\ \A c \in Elems(s) : \E k \in 1..Len(s) : c = s[k]
<1>1. Len(s) \in Nat /\ DOMAIN s = 1..Len(s) /\ \A k \in 1..Len(s) : s[k] \in S
  OBVIOUS
<1> QED
  BY <1>1 DEF Elems

LEMMA DistinctAppend ==
    ASSUME NEW S, NEW s \in Seq(S), NEW c \in S, Distinct(s), c \notin Elems(s)
    PROVE  Distinct(Append(s, c))
<1>1. PICK n, u : n = Len(s) /\ u = Append(s, c)
  OBVIOUS
<1>2. n \in Nat /\ DOMAIN s = 1..n /\ \A i \in 1..n : s[i] # c
  BY <1>1, ElemAt
<1>3. DOMAIN u = 1..(n + 1) /\ u[n + 1] = c /\ \A i \in 1..n : u[i] = s[i]
  BY <1>1
<1>4. \A i \in 1..(n + 1) : i \in 1..n \/ i = n + 1
  BY <1>2
<1>5. \A i, j \in 1..n : s[i] = s[j] => i = j
  BY <1>2 DEF Distinct
<1>6. \A i, j \in 1..(n + 1) : u[i] = u[j] => i = j
  BY <1>2, <1>3, <1>4, <1>5
<1> QED
  BY <1>1, <1>3, <1>6 DEF Distinct

\* What is left is torn down once more at most, and nothing else changes.
LEMMA LeftKeeps ==
    ASSUME NEW s \in States, NEW cs \in Seq(Ctxs), NEW t, t = LeaveAll(s, cs)
    PROVE  /\ Keeps(s, t)
           /\ \A c \in Ctxs \ Elems(cs) : t.ctx[c] = s.ctx[c]
           /\ Distinct(cs) => \A c \in Elems(cs) : t.ctx[c].torn <= s.ctx[c].torn + 1
<1>1. PICK n : n = Len(cs)
  OBVIOUS
<1>2. PICK h \in [0..n -> States] :
         /\ h[0] = s /\ \A i \in 1..n : h[i] = pop(h[i - 1], cs[n + 1 - i])
         /\ t = h[n]
  <2>1. PICK h : Leaving(h, s, cs) /\ LeaveAll(s, cs) = h[Len(cs)]
    BY LeaveSteps
  <2> QED
    BY <1>1, <2>1 DEF Leaving
<1>3. /\ n \in Nat /\ DOMAIN cs = 1..n
      /\ \A k \in 1..n : cs[k] \in Ctxs /\ cs[k] \in Elems(cs)
      /\ \A c \in Elems(cs) : \E k \in 1..n : c = cs[k]
  BY <1>1, ElemAt
<1> DEFINE P(i) ==
      /\ Keeps(s, h[i])
      /\ \A c \in Ctxs \ Elems(cs) : h[i].ctx[c] = s.ctx[c]
      /\ Distinct(cs) => \A k \in 1..n :
            /\ h[i].ctx[cs[k]].torn <= s.ctx[cs[k]].torn + 1
            /\ k <= n - i => h[i].ctx[cs[k]] = s.ctx[cs[k]]
      T == {i \in 0..n : P(i)}
<1>4. 0 \in T
  <2>1. \A k \in 1..n : s.ctx[cs[k]].torn \in Nat
    BY <1>3, StateTypes
  <2>2. \A k \in 1..n : s.ctx[cs[k]].torn <= s.ctx[cs[k]].torn + 1
    BY <2>1
  <2>3. P(0)
    BY <1>2, <2>2, KeepsItself
  <2> QED
    BY <2>3, <1>3
<1>5. ASSUME NEW i \in 1..n, P(i - 1) PROVE P(i)
  <2> HIDE DEF P
  <2>1. PICK m : m = n + 1 - i
    OBVIOUS
  <2>2. m \in 1..n /\ i - 1 \in 0..n /\ n - (i - 1) = m /\ n - i = m - 1
    BY <2>1, <1>3
  <2>3. PICK c, u : c = cs[m] /\ u = h[i - 1]
    OBVIOUS
  <2>4. c \in Ctxs /\ c \in Elems(cs) /\ u \in States /\ h[i] = pop(u, c)
    BY <1>2, <1>3, <2>1, <2>2, <2>3
  <2>5. Keeps(s, u) /\ Keeps(u, h[i])
    BY <1>5, <2>3, <2>4, PopKeeps DEF P
  <2>6. Keeps(s, h[i])
    BY <2>4, <2>5, KeepsAll
  <2>7. \A d \in Ctxs : d # c => h[i].ctx[d] = u.ctx[d]
    BY <2>4, PopFacts DEF Popped
  <2>8. \A d \in Ctxs \ Elems(cs) : h[i].ctx[d] = s.ctx[d]
    BY <1>5, <2>3, <2>4, <2>7 DEF P
  <2>9. u.ctx[c].torn \in Nat /\ h[i].ctx[c].torn <= u.ctx[c].torn + 1
    <3>1. u.ctx[c].torn \in Nat
      BY <2>4, StateTypes
    <3>2. h[i].ctx[c].torn = u.ctx[c].torn \/ h[i].ctx[c].torn = u.ctx[c].torn + 1
      <4>1. PICK v : v = h[i]
        OBVIOUS
      <4>2. v = pop(u, c)
        BY <2>4, <4>1
      <4>3. Popped(u, c, v)
        BY <2>4, <4>2, PopFacts
      <4> QED
        BY <2>4, <4>1, <4>3 DEF Popped
    <3> QED
      BY <3>1, <3>2
  <2>10. ASSUME Distinct(cs), NEW k \in 1..n
         PROVE  /\ h[i].ctx[cs[k]].torn <= s.ctx[cs[k]].torn + 1
                /\ k <= n - i => h[i].ctx[cs[k]] = s.ctx[cs[k]]
    <3>1. /\ u.ctx[cs[k]].torn <= s.ctx[cs[k]].torn + 1
          /\ k <= m => u.ctx[cs[k]] = s.ctx[cs[k]]
      BY <1>5, <2>2, <2>3, <2>10 DEF P
    <3>2. CASE k = m
      <4>1. u.ctx[c] = s.ctx[c] /\ c = cs[k] /\ ~(k <= n - i)
        BY <2>2, <2>3, <3>1, <3>2
      <4> QED
        BY <4>1, <2>9
    <3>3. CASE k # m
      <4>1. cs[k] # c /\ cs[k] \in Ctxs
        BY <2>2, <2>3, <2>10, <3>3, <1>3 DEF Distinct
      <4>2. k <= n - i => k <= m
        BY <2>2, <1>3
      <4> QED
        BY <3>1, <4>1, <4>2, <2>7
    <3> QED
      BY <3>2, <3>3
  <2> QED
    BY <2>6, <2>8, <2>10 DEF P
<1>6. ASSUME NEW i \in 1..n, i - 1 \in T PROVE i \in T
  <2>1. P(i - 1)
    BY <1>6
  <2>2. i \in 0..n
    BY <1>3
  <2>3. P(i)
    <3> HIDE DEF P
    <3> QED
      BY <2>1, <1>5
  <2> QED
    BY <2>2, <2>3
<1>7. \A i \in 0..n : i \in T
  <2> HIDE DEF T
  <2> QED
    BY <1>3, <1>4, <1>6, UpTo
<1>8. P(n)
  BY <1>3, <1>7
<1> QED
  BY <1>2, <1>3, <1>8

\* Contexts that are the last ones active, in their order, are all left.
LEMMA LeftOrderly ==
    ASSUME NEW s \in States, NEW base \in Seq(Ctxs), NEW cs \in Seq(Ctxs),
           NEW t, t = LeaveAll(s, cs),
           s.cv = base \o cs, ~s.refused, \A c \in Elems(cs) : s.ctx[c].pushes <= 1
    PROVE  t.cv = base /\ ~t.refused
<1>1. PICK n, b, w : n = Len(cs) /\ b = Len(base) /\ w = s.cv
  OBVIOUS
<1>2. PICK h \in [0..n -> States] :
         /\ h[0] = s /\ \A i \in 1..n : h[i] = pop(h[i - 1], cs[n + 1 - i])
         /\ t = h[n]
  <2>1. PICK h : Leaving(h, s, cs) /\ LeaveAll(s, cs) = h[Len(cs)]
    BY LeaveSteps
  <2> QED
    BY <1>1, <2>1 DEF Leaving
<1>3. /\ n \in Nat /\ b \in Nat /\ w \in Seq(Ctxs) /\ Len(w) = b + n
      /\ \A k \in 1..n : w[b + k] = cs[k] /\ cs[k] \in Ctxs /\ cs[k] \in Elems(cs)
      /\ SubSeq(w, 1, b) = base
  <2>1. w = base \o cs
    BY <1>1
  <2>2. n \in Nat /\ b \in Nat /\ \A k \in 1..n : cs[k] \in Ctxs /\ cs[k] \in Elems(cs)
    BY <1>1, ElemAt
  <2>3. \A k \in 1..n : w[b + k] = cs[k]
    BY <1>1, <2>1
  <2>4. w \in Seq(Ctxs) /\ Len(w) = b + n /\ SubSeq(w, 1, b) = base
    BY <1>1, <2>1, ConcatFacts
  <2> QED
    BY <2>2, <2>3, <2>4
<1> DEFINE P(i) ==
      /\ h[i].cv = SubSeq(w, 1, b + n - i) /\ ~h[i].refused
      /\ \A c \in Elems(cs) : h[i].ctx[c].pushes <= 1
      T == {i \in 0..n : P(i)}
<1>4. 0 \in T
  <2>1. SubSeq(w, 1, b + n) = w /\ b + n - 0 = b + n
    BY <1>3
  <2> QED
    BY <1>1, <1>2, <1>3, <2>1
<1>5. ASSUME NEW i \in 1..n, P(i - 1) PROVE P(i)
  <2> HIDE DEF P
  <2>1. PICK k, m : k = n + 1 - i /\ m = b + k
    OBVIOUS
  <2>2. k \in 1..n /\ m \in 1..Len(w) /\ b + n - (i - 1) = m /\ b + n - i = m - 1
        /\ i - 1 \in 0..n
    BY <2>1, <1>3
  <2>3. PICK c, u : c = cs[k] /\ u = h[i - 1]
    OBVIOUS
  <2>4. c \in Ctxs /\ c \in Elems(cs) /\ w[m] = c /\ u \in States /\ h[i] = pop(u, c)
    BY <1>2, <1>3, <2>1, <2>2, <2>3
  <2>5. u.cv = SubSeq(w, 1, m) /\ ~u.refused /\ \A d \in Elems(cs) : u.ctx[d].pushes <= 1
    BY <1>5, <2>2, <2>3 DEF P
  <2>6. u.cv # <<>> /\ Last(u.cv) = c /\ Front(u.cv) = SubSeq(w, 1, m - 1)
    BY <1>3, <2>2, <2>4, <2>5, PrefixFacts
  <2>7. ~Refuses(u, c) /\ ~(u.ctx[c].pushes > 1)
    <3>1. u.ctx[c].pushes <= 1 /\ u.ctx[c].pushes \in Nat
      BY <2>4, <2>5, StateTypes
    <3> QED
      BY <3>1, <2>6 DEF Refuses
  <2>8. h[i].cv = SubSeq(w, 1, m - 1) /\ ~h[i].refused /\ h[i].ctx[c].pushes = 0
    <3>1. Popped(u, c, h[i])
      BY <2>4, PopFacts
    <3> QED
      BY <2>5, <2>6, <2>7, <3>1 DEF Popped
  <2>9. \A d \in Elems(cs) : h[i].ctx[d].pushes <= 1
    <3>1. \A d \in Elems(cs) : d \in Ctxs
      BY ElemsFacts
    <3>2. Popped(u, c, h[i])
      BY <2>4, PopFacts
    <3>3. \A d \in Elems(cs) : d # c => h[i].ctx[d] = u.ctx[d]
      BY <3>1, <3>2 DEF Popped
    <3>4. h[i].ctx[c].pushes <= 1
      BY <2>8
    <3> QED
      BY <3>3, <3>4, <2>5
  <2> QED
    BY <2>2, <2>8, <2>9 DEF P
<1>6. ASSUME NEW i \in 1..n, i - 1 \in T PROVE i \in T
  <2>1. P(i - 1)
    BY <1>6
  <2>2. i \in 0..n
    BY <1>3
  <2>3. P(i)
    <3> HIDE DEF P
    <3> QED
      BY <2>1, <1>5
  <2> QED
    BY <2>2, <2>3
<1>7. \A i \in 0..n : i \in T
  <2> HIDE DEF T
  <2> QED
    BY <1>3, <1>4, <1>6, UpTo
<1>8. P(n) /\ b + n - n = b
  BY <1>3, <1>7
<1> QED
  BY <1>2, <1>3, <1>8

LEMMA LeaveNoneOrOne ==
    ASSUME NEW s \in States, NEW c \in Ctxs
    PROVE  LeaveAll(s, <<>>) = s /\ LeaveAll(s, <<c>>) = pop(s, c)
<1>1. <<>> \in Seq(Ctxs) /\ Len(<<>>) = 0
  OBVIOUS
<1>2. <<c>> \in Seq(Ctxs) /\ Len(<<c>>) = 1 /\ <<c>>[1] = c
  OBVIOUS
<1>3. LeaveAll(s, <<>>) = s
  BY <1>1, LeaveSteps DEF Leaving
<1>4. PICK h : Leaving(h, s, <<c>>) /\ LeaveAll(s, <<c>>) = h[1]
  BY <1>2, LeaveSteps
<1>5. h[0] = s /\ 1 \in 1..1 /\ \A i \in 1..1 : h[i] = pop(h[i - 1], <<c>>[1 + 1 - i])
  BY <1>2, <1>4 DEF Leaving
<1>6. h[1] = pop(h[1 - 1], <<c>>[1 + 1 - 1]) /\ 1 - 1 = 0 /\ 1 + 1 - 1 = 1
  BY <1>5
<1> QED
  BY <1>2, <1>3, <1>4, <1>5, <1>6

\* Contexts that are entered again keep their teardowns and their sessions; those
\* that were not active become the last ones, in their order.
Entered(s, cs, t) ==
    /\ Keeps(s, t) /\ t.refused = s.refused
    /\ \A c \in Ctxs \ Elems(cs) : t.ctx[c] = s.ctx[c]
    /\ \A c \in Ctxs : t.ctx[c].torn = s.ctx[c].torn
    /\ Distinct(cs) /\ cs # <<>> /\ s.ctx[Last(cs)].pushes = 0 =>
          t.cv # <<>> /\ Last(t.cv) = Last(cs)
    /\ Distinct(cs) /\ (\A c \in Elems(cs) : s.ctx[c].pushes = 0) =>
          t.cv = s.cv \o cs /\ \A c \in Elems(cs) : t.ctx[c].pushes = 1

LEMMA EnteredKeeps ==
    ASSUME NEW s \in States, NEW cs \in Seq(Ctxs)
    PROVE  Entered(s, cs, EnterAll(s, cs))
<1>0. SUFFICES ASSUME NEW t, t = EnterAll(s, cs) PROVE Entered(s, cs, t)
  OBVIOUS
<1>1. PICK n : n = Len(cs)
  OBVIOUS
<1>2. PICK h \in [0..n -> States] :
         /\ h[0] = s /\ \A i \in 1..n : h[i] = push(h[i - 1], cs[i])
         /\ t = h[n]
  <2>1. PICK h : Entering(h, s, cs) /\ EnterAll(s, cs) = h[Len(cs)]
    BY EnterSteps
  <2> QED
    BY <1>0, <1>1, <2>1 DEF Entering
<1>3. /\ n \in Nat /\ DOMAIN cs = 1..n
      /\ \A k \in 1..n : cs[k] \in Ctxs /\ cs[k] \in Elems(cs)
      /\ \A c \in Elems(cs) : \E k \in 1..n : c = cs[k]
  BY <1>1, ElemAt
<1> DEFINE Free == \A c \in Elems(cs) : s.ctx[c].pushes = 0
           P(i) ==
      /\ Keeps(s, h[i]) /\ h[i].refused = s.refused
      /\ \A c \in Ctxs \ Elems(cs) : h[i].ctx[c] = s.ctx[c]
      /\ \A c \in Ctxs : h[i].ctx[c].torn = s.ctx[c].torn
      /\ Distinct(cs) => \A k \in 1..n : k > i => h[i].ctx[cs[k]] = s.ctx[cs[k]]
      /\ Distinct(cs) /\ Free =>
            /\ h[i].cv = s.cv \o SubSeq(cs, 1, i)
            /\ \A k \in 1..n : k <= i => h[i].ctx[cs[k]].pushes = 1
      T == {i \in 0..n : P(i)}
<1>4. 0 \in T
  <2>1. s.cv \o SubSeq(cs, 1, 0) = s.cv
    <3>1. SubSeq(cs, 1, 0) = <<>>
      OBVIOUS
    <3> QED
      BY <3>1, StateTypes, ConcatFacts
  <2>2. \A k \in 1..n : ~(k <= 0)
    BY <1>3
  <2>3. P(0)
    BY <1>2, <1>3, <2>1, <2>2, KeepsItself
  <2> QED
    BY <2>3, <1>3
<1>5. ASSUME NEW i \in 1..n, P(i - 1) PROVE P(i)
  <2> HIDE DEF P
  <2>1. i - 1 \in 0..n
    BY <1>3
  <2>2. PICK c, u : c = cs[i] /\ u = h[i - 1]
    OBVIOUS
  <2>3. c \in Ctxs /\ c \in Elems(cs) /\ u \in States /\ h[i] = push(u, c)
    BY <1>2, <1>3, <2>1, <2>2
  <2>4. Keeps(s, u) /\ Keeps(u, h[i])
    BY <1>5, <2>2, <2>3, PushKeeps DEF P
  <2>5. Keeps(s, h[i])
    BY <2>3, <2>4, KeepsAll
  <2>6. Pushed(u, c, h[i])
    BY <2>3, PushFacts
  <2>7. h[i].refused = s.refused /\ \A d \in Ctxs \ Elems(cs) : h[i].ctx[d] = s.ctx[d]
    BY <1>5, <2>2, <2>3, <2>6 DEF P, Pushed
  <2>8. \A d \in Ctxs : h[i].ctx[d].torn = s.ctx[d].torn
    BY <1>5, <2>2, <2>3, <2>6 DEF P, Pushed
  <2>9. ASSUME Distinct(cs), NEW k \in 1..n, k # i PROVE h[i].ctx[cs[k]] = u.ctx[cs[k]]
    <3>1. cs[k] # c /\ cs[k] \in Ctxs
      BY <1>3, <2>2, <2>9 DEF Distinct
    <3> QED
      BY <3>1, <2>6 DEF Pushed
  <2>10. ASSUME Distinct(cs), NEW k \in 1..n, k > i PROVE h[i].ctx[cs[k]] = s.ctx[cs[k]]
    <3>1. k > i - 1 /\ k # i
      BY <2>10, <1>3
    <3> QED
      BY <1>5, <2>2, <2>9, <2>10, <3>1 DEF P
  <2>11. Distinct(cs) => u.ctx[c] = s.ctx[c]
    <3>1. i > i - 1
      OBVIOUS
    <3> QED
      BY <1>5, <2>2, <3>1 DEF P
  <2>12. ASSUME Distinct(cs), Free
         PROVE  /\ h[i].cv = s.cv \o SubSeq(cs, 1, i)
                /\ \A k \in 1..n : k <= i => h[i].ctx[cs[k]].pushes = 1
    <3>1. u.ctx[c].pushes = 0 /\ h[i].ctx[c].pushes = 1
      BY <2>3, <2>6, <2>11, <2>12 DEF Pushed
    <3>2. u.cv = s.cv \o SubSeq(cs, 1, i - 1)
      BY <1>5, <2>2, <2>12 DEF P
    <3>3. h[i].cv = Append(u.cv, c)
      BY <2>6, <3>1 DEF Pushed
    <3>4. PICK v : v = SubSeq(cs, 1, i - 1)
      OBVIOUS
    <3>5. v \in Seq(Ctxs) /\ SubSeq(cs, 1, i) = Append(v, c)
      <4>1. i \in 1..Len(cs)
        BY <1>1
      <4>2. SubSeq(cs, 1, i) = Append(SubSeq(cs, 1, i - 1), cs[i])
        BY <4>1, PrefixFacts
      <4>3. SubSeq(cs, 1, i - 1) \in Seq(Ctxs)
        BY <4>1
      <4> QED
        BY <2>2, <3>4, <4>2, <4>3
    <3>6. Append(s.cv \o v, c) = s.cv \o Append(v, c)
      <4>1. PICK w : w = s.cv
        OBVIOUS
      <4>2. w \in Seq(Ctxs)
        BY <4>1, StateTypes
      <4>3. Append(w \o v, c) = w \o Append(v, c)
        <5>1. v \in Seq(Ctxs) /\ c \in Ctxs
          BY <2>3, <3>5
        <5>2. AppendedLast(w, v, c)
          BY <4>2, <5>1, AppendConcat
        <5> QED
          BY <5>2 DEF AppendedLast
      <4> QED
        BY <4>1, <4>3
    <3>7. ASSUME NEW k \in 1..n, k <= i PROVE h[i].ctx[cs[k]].pushes = 1
      <4>1. CASE k = i
        BY <4>1, <2>2, <3>1
      <4>2. CASE k # i
        <5>1. k <= i - 1
          BY <3>7, <4>2, <1>3
        <5> QED
          BY <5>1, <4>2, <1>5, <2>2, <2>9, <2>12 DEF P
      <4> QED
        BY <4>1, <4>2
    <3> QED
      BY <3>2, <3>3, <3>4, <3>5, <3>6, <3>7
  <2> QED
    BY <2>5, <2>7, <2>8, <2>10, <2>12 DEF P
<1>6. ASSUME NEW i \in 1..n, i - 1 \in T PROVE i \in T
  <2>1. P(i - 1)
    BY <1>6
  <2>2. i \in 0..n
    BY <1>3
  <2>3. P(i)
    <3> HIDE DEF P
    <3> QED
      BY <2>1, <1>5
  <2> QED
    BY <2>2, <2>3
<1>7. \A i \in 0..n : P(i)
  <2>1. \A i \in 0..n : i \in T
    <3> HIDE DEF T
    <3> QED
      BY <1>3, <1>4, <1>6, UpTo
  <2> QED
    BY <2>1
<1>8. n \in 0..n
  BY <1>3
<1> HIDE DEF P
<1>9. P(n)
  BY <1>7, <1>8
<1>10. /\ Keeps(s, t) /\ t.refused = s.refused
       /\ \A c \in Ctxs \ Elems(cs) : t.ctx[c] = s.ctx[c]
       /\ \A c \in Ctxs : t.ctx[c].torn = s.ctx[c].torn
  BY <1>2, <1>9 DEF P
<1>11. ASSUME Distinct(cs), Free
       PROVE  t.cv = s.cv \o cs /\ \A c \in Elems(cs) : t.ctx[c].pushes = 1
  <2>1. SubSeq(cs, 1, n) = cs
    BY <1>1
  <2>2. \A k \in 1..n : k <= n
    BY <1>3
  <2>3. t.cv = s.cv \o SubSeq(cs, 1, n) /\ \A k \in 1..n : t.ctx[cs[k]].pushes = 1
    BY <1>2, <1>9, <1>11, <2>2 DEF P
  <2> QED
    BY <1>3, <2>1, <2>3
<1>12. ASSUME Distinct(cs), cs # <<>>, s.ctx[Last(cs)].pushes = 0
       PROVE  t.cv # <<>> /\ Last(t.cv) = Last(cs)
  <2>1. n \in 1..n /\ n - 1 \in 0..n /\ n > n - 1
    <3>1. Len(cs) # 0
      BY <1>12
    <3> QED
      BY <1>1, <1>3, <3>1
  <2>2. PICK c, u : c = cs[n] /\ u = h[n - 1]
    OBVIOUS
  <2>3. c = Last(cs) /\ c \in Ctxs /\ u \in States /\ t = push(u, c)
    BY <1>1, <1>2, <1>3, <2>1, <2>2 DEF Last
  <2>4. P(n - 1)
    BY <1>7, <2>1
  <2>5. u.ctx[c] = s.ctx[c]
    BY <1>12, <2>1, <2>2, <2>4 DEF P
  <2>6. t.cv = Append(u.cv, c)
    <3>1. Pushed(u, c, t)
      BY <2>3, PushFacts
    <3>2. u.ctx[c].pushes = 0
      BY <1>12, <2>3, <2>5
    <3> QED
      BY <3>1, <3>2 DEF Pushed
  <2> QED
    BY <2>3, <2>6, StateTypes, ElemsFacts
<1> QED
  BY <1>10, <1>11, <1>12 DEF Entered

LEMMA EnterNone == ASSUME NEW s \in States PROVE EnterAll(s, <<>>) = s
<1>1. <<>> \in Seq(Ctxs) /\ Len(<<>>) = 0
  OBVIOUS
<1> QED
  BY <1>1, EnterSteps DEF Entering

LEMMA EnterOne ==
    ASSUME NEW s \in States, NEW c \in Ctxs PROVE EnterAll(s, <<c>>) = push(s, c)
<1>1. <<c>> \in Seq(Ctxs) /\ Len(<<c>>) = 1 /\ <<c>>[1] = c
  OBVIOUS
<1>2. PICK h : Entering(h, s, <<c>>) /\ EnterAll(s, <<c>>) = h[1]
  BY <1>1, EnterSteps
<1>3. h[0] = s /\ 1 \in 1..1 /\ \A i \in 1..1 : h[i] = push(h[i - 1], <<c>>[i])
  BY <1>1, <1>2 DEF Entering
<1>4. h[1] = push(h[1 - 1], <<c>>[1]) /\ 1 - 1 = 0
  BY <1>3
<1> QED
  BY <1>1, <1>2, <1>3, <1>4

-----------------------------------------------------------------------------
(* What the invariant says of the current state. *)

LEMMA Types ==
    ASSUME Typed, Fresh
    PROVE  /\ Now \in States /\ Now.cv = cv /\ Now.ctx = ctx /\ ~Now.refused
           /\ MaxCtx \in Nat /\ made \in Nat /\ Made \subseteq Ctxs
           /\ cv \in Seq(Ctxs) /\ ctx \in [Ctxs -> Contexts]
           /\ \A c \in Ctxs : ctx[c].pushes \in Nat /\ ctx[c].torn \in Nat
           /\ \A s \in {_new_contexts, _context_stack, own, txn} :
                 s \in Seq(Ctxs) /\ Elems(s) \subseteq Made
           /\ streams \subseteq Made /\ Viewed \subseteq Made
<1>1. MaxCtx \in Nat /\ made \in 0..MaxCtx
  BY BoundAssumption DEF Typed
<1>2. made \in Nat /\ \A c \in 1..made : c \in 1..MaxCtx
  BY <1>1
<1>3. cv \in Seq(Ctxs) /\ ctx \in [Ctxs -> Contexts]
  BY DEF Typed
<1>4. Now \in States /\ Now.cv = cv /\ Now.ctx = ctx /\ ~Now.refused
  BY <1>3 DEF Now, States
<1>5. \A c \in Ctxs : ctx[c].pushes \in Nat /\ ctx[c].torn \in Nat
  BY <1>4, StateTypes
<1>6. \A s \in {_new_contexts, _context_stack, own, txn} :
         s \in Seq(Ctxs) /\ Elems(s) \subseteq Made
  BY DEF Typed, Fresh, Known
<1>7. streams \subseteq Made /\ Viewed \subseteq Made
  BY DEF Fresh, Known
<1> QED
  BY <1>1, <1>2, <1>3, <1>4, <1>5, <1>6, <1>7 DEF Made, Ctxs

\* A context that is viewed, that is a fixture's or a transaction's is no other's.
LEMMA Apart ==
    ASSUME IInv, NEW c \in Made
    PROVE  /\ ctx[c].torn \in 0..2
           /\ c \in Viewed =>
                 /\ ctx[c].torn = 0 /\ c \notin Elems(_new_contexts)
                 /\ c \notin Elems(_context_stack) /\ c \notin streams
                 /\ c \notin Elems(own) /\ c \notin Elems(txn)
           /\ c \in Elems(own) =>
                 /\ ctx[c].torn = 0 /\ c \notin Elems(_new_contexts)
                 /\ c \notin Elems(_context_stack) /\ c \notin streams /\ c \notin Elems(txn)
           /\ c \in Elems(txn) =>
                 /\ ctx[c].torn = 1 /\ c \notin Elems(_new_contexts)
                 /\ c \notin Elems(_context_stack) /\ c \notin streams
<1>1. ctx[c].torn \in Nat
  BY Types DEF IInv
<1>2. ctx[c].torn + Due(c) <= 2
  BY DEF IInv, Budget
<1>3. c \in Elems(txn) => ctx[c].torn >= 1
  BY DEF IInv, Transaction
<1> QED
  BY <1>1, <1>2, <1>3 DEF Due, Times

\* What the state is once the stack of preserved contexts is left.
LEMMA LeftStack ==
    ASSUME IInv, NEW s, s = LeaveAll(Now, _context_stack)
    PROVE  /\ Keeps(Now, s)
           /\ \A c \in Ctxs \ Elems(_context_stack) : s.ctx[c] = ctx[c]
           /\ \A c \in Made :
                 s.ctx[c].torn <= ctx[c].torn + Times(1, c, Elems(_context_stack))
           /\ Orderly /\ ~Viewing /\ streams = {} => s.cv = own /\ ~s.refused
           /\ \A c \in streams : Orderly => s.ctx[c].pushes = 1 /\ s.cv = Append(own, c)
<1>1. Now \in States /\ _context_stack \in Seq(Ctxs) /\ own \in Seq(Ctxs)
  BY Types DEF IInv
<1>2. Now.cv = cv /\ Now.ctx = ctx /\ ~Now.refused
  BY Types DEF IInv
<1>3. Distinct(_context_stack) /\ Made \subseteq Ctxs
  BY Types DEF IInv, Lists
<1>4. /\ Keeps(Now, s)
      /\ \A c \in Ctxs \ Elems(_context_stack) : s.ctx[c] = ctx[c]
      /\ \A c \in Elems(_context_stack) : s.ctx[c].torn <= ctx[c].torn + 1
  BY <1>1, <1>2, <1>3, LeftKeeps
<1>5. ASSUME NEW c \in Made
      PROVE  s.ctx[c].torn <= ctx[c].torn + Times(1, c, Elems(_context_stack))
  <2>1. ctx[c].torn \in Nat /\ c \in Ctxs
    BY Types DEF IInv
  <2> QED
    BY <1>4, <2>1 DEF Times
<1>6. ASSUME Orderly, ~Viewing, streams = {} PROVE s.cv = own /\ ~s.refused
  <2>1. cv = own \o _context_stack /\ \A c \in Elems(_context_stack) : ctx[c].pushes <= 1
    <3>1. cv = own \o _context_stack \o <<>>
          /\ \A c \in Elems(_context_stack) : ctx[c].pushes <= 1
      BY <1>6 DEF Orderly
    <3>2. PICK w : w = own \o _context_stack
      OBVIOUS
    <3>3. w \in Seq(Ctxs) /\ w \o <<>> = w
      BY <1>1, <3>2, ConcatFacts
    <3> QED
      BY <3>1, <3>2, <3>3
  <2> QED
    BY <1>1, <1>2, <2>1, LeftOrderly
<1>7. ASSUME NEW c \in streams, Orderly PROVE s.ctx[c].pushes = 1 /\ s.cv = Append(own, c)
  <2>1. /\ cv = Append(own, c) /\ ctx[c].pushes = 1 + Len(_context_stack)
        /\ _context_stack = <<>> \/ _context_stack = <<c>>
    BY <1>7 DEF Orderly
  <2>2. c \in Ctxs
    BY Types DEF IInv
  <2>3. CASE _context_stack = <<>>
    <3>1. s = Now
      BY <1>1, <2>2, <2>3, LeaveNoneOrOne
    <3>2. Len(_context_stack) = 0
      BY <2>3
    <3> QED
      BY <3>1, <3>2, <1>2, <2>1
  <2>4. CASE _context_stack = <<c>>
    <3>1. s = pop(Now, c)
      BY <1>1, <2>2, <2>4, LeaveNoneOrOne
    <3>2. Popped(Now, c, s)
      BY <1>1, <2>2, <3>1, PopFacts
    <3>3. Len(_context_stack) = 1
      BY <2>4
    <3>4. cv # <<>> /\ Last(cv) = c /\ ctx[c].pushes = 2
      BY <1>1, <2>1, <2>2, <3>3, ElemsFacts
    <3>5. ~Refuses(Now, c) /\ Now.ctx[c].pushes > 1 /\ Now.ctx[c].pushes - 1 = 1
      BY <3>4, <1>2 DEF Refuses
    <3> QED
      BY <3>2, <3>5, <1>2, <2>1 DEF Popped
  <2> QED
    BY <2>1, <2>3, <2>4
<1> QED
  BY <1>4, <1>5, <1>6, <1>7

-----------------------------------------------------------------------------
(* Every step keeps the invariant. *)

\* The invariant holds initially.
LEMMA InitIInv == Init => IInv
<1>1. SUFFICES ASSUME Init PROVE IInv
  OBVIOUS
<1>2. <<>> \in Seq(Ctxs) /\ <<>> \in Seq(Calls) /\ Elems(<<>>) = {} /\ Len(<<>>) = 0
  BY DEF Elems
<1>3. made = 0 /\ Made = {} /\ Idle /\ ~Viewing /\ Viewed = {}
  BY <1>1 DEF Init, Made, Idle, Viewing, Viewed
<1>4. Typed
  <2>1. made \in 0..MaxCtx
    BY <1>3, BoundAssumption
  <2>2. ctx \in [Ctxs -> Contexts]
    BY <1>1 DEF Init, Contexts
  <2> QED
    BY <1>1, <1>2, <2>1, <2>2 DEF Init, Typed
<1>5. Fresh
  BY <1>1, <1>2, <1>3 DEF Init, Fresh, Known
<1>6. Alive /\ Budget
  BY <1>3 DEF Alive, Budget
<1>7. Lists
  BY <1>1, <1>3 DEF Init, Lists, Distinct
<1>8. ViewOK /\ Kept /\ Transaction
  BY <1>1, <1>2, <1>3 DEF Init, ViewOK, Kept, Transaction
<1>9. Orderly
  <2>1. <<>> \o <<>> = <<>>
    OBVIOUS
  <2> QED
    BY <1>1, <1>2, <1>3, <2>1 DEF Init, Orderly
<1> QED
  BY <1>1, <1>4, <1>5, <1>6, <1>7, <1>8, <1>9 DEF Init, IInv

\* Alive is kept by what only pushes and pops contexts.
LEMMA AliveStep ==
    ASSUME Typed, Fresh, Alive, NEW s, NEW t, Keeps(s, t), Becomes(t),
           s.cv = cv, \A c \in Made : s.ctx[c].torn = ctx[c].torn, made' \in 0..MaxCtx,
           \A c \in Made' \ Made : c \in Elems(t.cv) \/ t.ctx[c].torn # 0
    PROVE  Alive'
<1>1. cv' = t.cv /\ ctx' = t.ctx /\ t \in States
  BY DEF Becomes, Keeps
<1>2. ASSUME NEW c \in Made PROVE t.ctx[c].torn = 0 => c \in Elems(t.cv)
  <2>1. c \in Ctxs /\ ctx[c].torn \in Nat /\ t.ctx[c].torn \in Nat
    BY <1>1, Types, StateTypes
  <2>2. /\ s.ctx[c].torn = ctx[c].torn /\ s.ctx[c].torn <= t.ctx[c].torn
        /\ c \in Elems(s.cv) => c \in Elems(t.cv) \/ s.ctx[c].torn < t.ctx[c].torn
    BY <2>1 DEF Keeps
  <2>3. ctx[c].torn = 0 => c \in Elems(cv)
    BY DEF Alive
  <2> QED
    BY <2>1, <2>2, <2>3
<1>3. \A c \in Made' : t.ctx[c].torn = 0 => c \in Elems(t.cv)
  BY <1>2
<1> QED
  BY <1>1, <1>3 DEF Alive, Elems

LEMMA LeftIInv ==
    ASSUME IInv, ~Viewing, Becomes(LeaveAll(Now, _context_stack)), _context_stack' = <<>>,
           calls' = <<>>, preserve_context' \in BOOLEAN, ~tangled' => ~tangled,
           UNCHANGED <<made, _new_contexts, streams, own, cookie, txn, written, mixed,
                       overlapped>>
    PROVE  IInv'
<1>1. PICK s : s = LeaveAll(Now, _context_stack)
  OBVIOUS
<1>2. cv' = s.cv /\ ctx' = s.ctx
  BY <1>1 DEF Becomes
<1>3. /\ Keeps(Now, s)
      /\ \A c \in Ctxs \ Elems(_context_stack) : s.ctx[c] = ctx[c]
      /\ \A c \in Made : s.ctx[c].torn <= ctx[c].torn + Times(1, c, Elems(_context_stack))
      /\ Orderly /\ ~Viewing /\ streams = {} => s.cv = own /\ ~s.refused
      /\ \A c \in streams : Orderly => s.ctx[c].pushes = 1 /\ s.cv = Append(own, c)
  BY <1>1, LeftStack
<1>4. /\ Made' = Made /\ made' = made /\ Viewed = {} /\ Idle' /\ ~Viewing' /\ Viewed' = {}
      /\ Elems(_context_stack)' = {} /\ Elems(_new_contexts)' = Elems(_new_contexts)
      /\ Elems(own)' = Elems(own) /\ Elems(txn)' = Elems(txn) /\ streams' = streams
  BY DEF Made, Viewed, Viewing, Idle, Elems
<1>5. s \in States /\ s.cv \in Seq(Ctxs) /\ s.ctx \in [Ctxs -> Contexts]
  BY <1>3, StateTypes DEF Keeps
<1>6. Typed'
  <2>1. <<>> \in Seq(Ctxs) /\ <<>> \in Seq(Calls)
    OBVIOUS
  <2> QED
    BY <1>2, <1>5, <2>1 DEF IInv, Typed
<1>7. Fresh'
  <2>1. \A c \in Ctxs \ Made : s.ctx[c] = ctx[c]
    BY <1>3, Types DEF IInv
  <2> QED
    BY <1>2, <1>4, <2>1 DEF IInv, Fresh, Known
<1>8. Alive'
  BY <1>1, <1>3, <1>4, Types, AliveStep DEF IInv, Typed
<1>9. Budget'
  <2>1. ASSUME NEW c \in Made PROVE s.ctx[c].torn + Due(c)' <= 2
    <3>1. ctx[c].torn + Due(c) <= 2 /\ ctx[c].torn \in Nat /\ s.ctx[c].torn \in Nat
      BY <1>5, Types, StateTypes DEF IInv, Budget
    <3>2. s.ctx[c].torn <= ctx[c].torn + Times(1, c, Elems(_context_stack))
      BY <1>3
    <3>3. Due(c)' = Times(0, c, {}) + Times(1, c, Elems(_new_contexts))
                    + Times(1, c, streams) + Times(2, c, Elems(own)) + Times(1, c, Elems(txn))
      BY <1>4 DEF Due, Times
    <3> QED
      BY <3>1, <3>2, <3>3 DEF Due, Times
  <2> QED
    BY <1>2, <1>4, <2>1 DEF Budget
<1>10. Lists'
  BY <1>4 DEF IInv, Lists, Distinct
<1>11. ViewOK' /\ Kept'
  BY <1>4 DEF ViewOK, Kept
<1>12. Transaction'
  <2>1. ASSUME NEW c \in Elems(txn) PROVE s.ctx[c] = ctx[c]
    BY <1>3, Types, Apart DEF IInv
  <2> QED
    BY <1>2, <1>4, <2>1 DEF IInv, Transaction
<1>13. ASSUME ~tangled', ~mixed' PROVE Orderly'
  <2>1. Orderly
    BY <1>13 DEF IInv
  <2>2. \A c \in Elems(own) \cup Elems(txn) : s.ctx[c] = ctx[c]
    BY <1>3, Types, Apart DEF IInv
  <2>3. \A c \in Elems(_new_contexts) : s.ctx[c] = ctx[c]
    <3>1. Elems(_new_contexts) = {} \/ Elems(_context_stack) = {}
      BY DEF IInv, Lists, Elems
    <3> QED
      BY <1>3, <3>1, Types DEF IInv
  <2>4. /\ \A c \in Elems(own) : s.ctx[c].pushes <= 1
        /\ \A c \in Elems(_new_contexts) \ streams : s.ctx[c].pushes = 0
        /\ \A c \in Elems(txn) : s.ctx[c].pushes = 0
    BY <2>1, <2>2, <2>3 DEF Orderly
  <2>5. CASE streams = {}
    <3>1. own \in Seq(Ctxs) /\ own \o <<>> = own
      BY Types DEF IInv
    <3>2. s.cv = own \o <<>> \o <<>>
      BY <1>3, <2>1, <2>5, <3>1
    <3> QED
      BY <1>2, <1>4, <2>4, <2>5, <3>2 DEF Orderly
  <2>6. CASE streams # {}
    <3>1. PICK c \in streams : streams = {c} /\ c \notin Elems(own)
      BY <2>1, <2>6 DEF Orderly
    <3>2. s.cv = Append(own, c) /\ s.ctx[c].pushes = 1
      BY <1>3, <2>1, <3>1
    <3>3. Len(<<>>) = 0
      OBVIOUS
    <3>4. s.ctx[c].pushes = 1 + Len(<<>>)
      BY <3>2, <3>3
    <3> QED
      BY <1>2, <1>4, <2>4, <2>6, <3>1, <3>2, <3>4 DEF Orderly
  <2> QED
    BY <2>5, <2>6
<1>14. ~overlapped' => written' \subseteq cookie'
  BY DEF IInv
<1> QED
  BY <1>6, <1>7, <1>8, <1>9, <1>10, <1>11, <1>12, <1>13, <1>14 DEF IInv

LEMMA ExitIInv == ASSUME IInv, __exit__ PROVE IInv'
<1>1. ~Viewing /\ calls' = <<>>
  BY DEF __exit__, Viewing, Idle
<1> QED
  BY <1>1, LeftIInv DEF __exit__, misuse

LEMMA EnterIInv == ASSUME IInv, __enter__ PROVE IInv'
<1>1. Idle /\ ~Viewing /\ Viewed = {} /\ Idle' /\ ~Viewing' /\ Viewed' = {}
  BY DEF __enter__, Idle, Viewing, Viewed
<1>2. Typed' /\ Fresh' /\ Alive' /\ Budget'
  BY <1>1 DEF __enter__, IInv, Typed, Fresh, Known, Alive, Budget, Made, Elems, Due
<1>3. Lists' /\ ViewOK' /\ Kept' /\ Transaction'
  BY <1>1 DEF __enter__, IInv, Lists, Distinct, ViewOK, Kept, Transaction, Elems
<1>4. ~tangled' /\ ~mixed' => Orderly'
  BY <1>1 DEF __enter__, IInv, Orderly, misuse, Elems
<1> QED
  BY <1>2, <1>3, <1>4 DEF __enter__, IInv

\* A session that is loaded or written changes nothing else of its context.
Stored(s, c, data) == [s EXCEPT !.ctx[c].sess = data]

StoredAs(s, c, data, t) ==
    /\ t \in States /\ t.cv = s.cv /\ t.refused = s.refused
    /\ \A d \in Ctxs : d # c => t.ctx[d] = s.ctx[d]
    /\ \A d \in Ctxs : t.ctx[d].pushes = s.ctx[d].pushes /\ t.ctx[d].torn = s.ctx[d].torn
    /\ t.ctx[c].sess = data

LEMMA StoredFacts ==
    ASSUME NEW s \in States, NEW c \in Ctxs, NEW data \in SUBSET Ctxs
    PROVE  StoredAs(s, c, data, Stored(s, c, data))
<1>1. s.cv \in Seq(Ctxs) /\ s.ctx \in [Ctxs -> Contexts] /\ s.refused \in BOOLEAN
  BY DEF States
<1>2. PICK r : r = [s.ctx[c] EXCEPT !.sess = data]
  OBVIOUS
<1>3. s.ctx[c] \in Contexts
  BY <1>1
<1>4. r \in Contexts /\ r.pushes = s.ctx[c].pushes /\ r.torn = s.ctx[c].torn /\ r.sess = data
  BY <1>2, <1>3 DEF Contexts
<1>5. PICK f : f = [s.ctx EXCEPT ![c] = r]
  OBVIOUS
<1>6. f \in [Ctxs -> Contexts] /\ f[c] = r /\ \A d \in Ctxs : d # c => f[d] = s.ctx[d]
  BY <1>1, <1>4, <1>5
<1>7. PICK t : t = Stored(s, c, data)
  OBVIOUS
<1>8. t = [s EXCEPT !.ctx = f]
  BY <1>2, <1>5, <1>7 DEF Stored
<1>9. t \in States /\ t.ctx = f /\ t.cv = s.cv /\ t.refused = s.refused
  BY <1>1, <1>6, <1>8 DEF States
<1> QED
  BY <1>4, <1>6, <1>7, <1>9 DEF StoredAs

\* The first push of a new context: it is the current one, and the only one changed.
PushedNew(s, c, data, t) ==
    /\ t \in States /\ t.cv = Append(s.cv, c) /\ t.refused = s.refused
    /\ \A d \in Ctxs : d # c => t.ctx[d] = s.ctx[d]
    /\ t.ctx[c].pushes = 1 /\ t.ctx[c].torn = s.ctx[c].torn /\ t.ctx[c].sess = data
    /\ \A d \in Ctxs : t.ctx[d].torn = s.ctx[d].torn

LEMMA PushNew ==
    ASSUME NEW s \in States, NEW c \in Ctxs, NEW data \in SUBSET Ctxs, s.ctx[c].pushes = 0
    PROVE  PushedNew(s, c, data, push(Stored(s, c, data), c))
<1>0. PICK t : t = push(Stored(s, c, data), c)
  OBVIOUS
<1>1. PICK u : u = Stored(s, c, data)
  OBVIOUS
<1>2. StoredAs(s, c, data, u)
  BY <1>1, StoredFacts
<1>3. Pushed(u, c, t)
  BY <1>0, <1>1, <1>2, PushFacts DEF StoredAs
<1>4. PushedNew(s, c, data, t)
  BY <1>2, <1>3 DEF StoredAs, Pushed, PushedNew
<1> QED
  BY <1>0, <1>4

LEMMA StartedIInv ==
    ASSUME IInv, ~Viewing, NEW s, s = LeaveAll(Now, _context_stack), ~s.refused,
           made < MaxCtx, Becomes(push(Stored(s, made + 1, cookie), made + 1)),
           made' = made + 1, _context_stack' = <<>>,
           NEW below \in Seq(Calls), NEW call \in Calls, calls' = Append(below, call),
           call.ctx = made + 1, call.at = "view", preserve_context => made + 1 \in marked',
           ~tangled' /\ ~mixed => ~tangled /\ streams = {},
           UNCHANGED <<preserve_context, _new_contexts, streams, own, cookie, txn, written,
                       mixed, overlapped>>
    PROVE  IInv'
<1>1. PICK c, t : c = made + 1 /\ t = push(Stored(s, c, cookie), c)
  OBVIOUS
<1>2. cv' = t.cv /\ ctx' = t.ctx
  BY <1>1 DEF Becomes
<1>3. /\ Keeps(Now, s)
      /\ \A d \in Ctxs \ Elems(_context_stack) : s.ctx[d] = ctx[d]
      /\ \A d \in Made : s.ctx[d].torn <= ctx[d].torn + Times(1, d, Elems(_context_stack))
      /\ Orderly /\ ~Viewing /\ streams = {} => s.cv = own /\ ~s.refused
  BY LeftStack
<1>4. /\ made \in Nat /\ MaxCtx \in Nat /\ c \in Ctxs /\ c \notin Made
      /\ Made' = Made \cup {c} /\ made' = c /\ made' \in 0..MaxCtx
  <2>1. made \in Nat /\ MaxCtx \in Nat
    BY Types DEF IInv
  <2>2. c \in 1..MaxCtx /\ c \notin 1..made /\ 1..c = (1..made) \cup {c} /\ c \in 0..MaxCtx
    BY <1>1, <2>1
  <2> QED
    BY <1>1, <2>1, <2>2 DEF Made, Ctxs
<1>5. /\ Call' = call /\ Viewing' /\ Viewed' = {c} /\ Viewed = {} /\ calls' \in Seq(Calls)
      /\ ~Idle'
  <2>1. calls' # <<>> /\ Last(calls') = call /\ calls' \in Seq(Calls)
    BY ElemsFacts
  <2>2. Call' = call
    BY <2>1 DEF Call, Last
  <2> QED
    BY <1>1, <2>1, <2>2 DEF Idle, Viewing, Viewed
<1>6. /\ Elems(_context_stack)' = {} /\ Elems(_new_contexts)' = Elems(_new_contexts)
      /\ Elems(own)' = Elems(own) /\ Elems(txn)' = Elems(txn) /\ streams' = streams
  BY DEF Elems
<1>7. /\ c \notin Elems(_new_contexts) /\ c \notin Elems(_context_stack)
      /\ c \notin Elems(own) /\ c \notin Elems(txn) /\ c \notin streams
      /\ ctx[c].pushes = 0 /\ ctx[c].torn = 0
  BY <1>4, Types DEF IInv, Fresh
<1>8. s \in States /\ s.ctx[c] = ctx[c]
  BY <1>3, <1>4, <1>7 DEF Keeps
<1>9. /\ t \in States /\ t.cv = Append(s.cv, c)
      /\ \A d \in Ctxs : d # c => t.ctx[d] = s.ctx[d]
      /\ t.ctx[c].pushes = 1 /\ t.ctx[c].torn = 0 /\ t.ctx[c].sess = cookie
      /\ \A d \in Ctxs : t.ctx[d].torn = s.ctx[d].torn
  <2>1. cookie \in SUBSET Ctxs /\ s.ctx[c].pushes = 0 /\ s.ctx[c].torn = 0
    BY <1>7, <1>8 DEF IInv, Typed
  <2>2. PushedNew(s, c, cookie, t)
    BY <1>1, <1>4, <1>8, <2>1, PushNew
  <2> QED
    BY <2>1, <2>2 DEF PushedNew
<1>10. s.cv \in Seq(Ctxs) /\ t.cv \in Seq(Ctxs) /\ t.ctx \in [Ctxs -> Contexts]
       /\ \A d \in Ctxs : s.ctx[d].torn \in Nat
  BY <1>8, <1>9, StateTypes
<1>11. t.cv # <<>> /\ Last(t.cv) = c /\ Elems(t.cv) = Elems(s.cv) \cup {c}
  BY <1>4, <1>9, <1>10, ElemsFacts
<1>12. Typed'
  <2>1. <<>> \in Seq(Ctxs)
    OBVIOUS
  <2> QED
    BY <1>2, <1>4, <1>5, <1>10, <2>1 DEF IInv, Typed
<1>13. Fresh'
  <2>1. \A d \in Ctxs \ Made' : t.ctx[d] = ctx[d]
    BY <1>3, <1>4, <1>9, Types DEF IInv
  <2> QED
    BY <1>2, <1>4, <1>5, <1>6, <2>1 DEF IInv, Fresh, Known
<1>14. Alive'
  <2>1. ASSUME NEW d \in Made, t.ctx[d].torn = 0 PROVE d \in Elems(t.cv)
    <3>1. d \in Ctxs /\ ctx[d].torn \in Nat /\ (ctx[d].torn = 0 => d \in Elems(cv))
      BY Types DEF IInv, Alive
    <3>2. s.ctx[d].torn = 0 /\ s.ctx[d].torn \in Nat
      BY <1>9, <1>10, <2>1, <3>1
    <3>3. ctx[d].torn <= s.ctx[d].torn
          /\ (d \in Elems(cv) => d \in Elems(s.cv) \/ ctx[d].torn < s.ctx[d].torn)
      BY <1>3, <3>1, Types DEF IInv, Keeps
    <3> QED
      BY <1>11, <3>1, <3>2, <3>3
  <2>2. \A d \in Made' : t.ctx[d].torn = 0 => d \in Elems(t.cv)
    BY <1>4, <1>11, <2>1
  <2> QED
    BY <1>2, <2>2 DEF Alive, Elems
<1>15. Budget'
  <2>1. ASSUME NEW d \in Made PROVE t.ctx[d].torn + Due(d)' <= 2
    <3>1. ctx[d].torn + Due(d) <= 2 /\ ctx[d].torn \in Nat /\ t.ctx[d].torn \in Nat
      BY <1>9, <1>10, Types DEF IInv, Budget
    <3>2. t.ctx[d].torn <= ctx[d].torn + Times(1, d, Elems(_context_stack))
      BY <1>3, <1>9, Types DEF IInv
    <3>3. Due(d)' = Times(1, d, Elems(_new_contexts))
                    + Times(1, d, streams) + Times(2, d, Elems(own)) + Times(1, d, Elems(txn))
      BY <1>4, <1>5, <1>6 DEF Due, Times
    <3> QED
      BY <3>1, <3>2, <3>3 DEF Due, Times
  <2>2. t.ctx[c].torn + Due(c)' <= 2
    BY <1>5, <1>6, <1>7, <1>9 DEF Due, Times
  <2> QED
    BY <1>2, <1>4, <2>1, <2>2 DEF Budget
<1>16. Lists'
  BY <1>6 DEF IInv, Lists, Distinct
<1>17. ViewOK'
  <2>1. cv' # <<>> /\ Last(cv)' = c /\ ctx'[c].pushes = 1 /\ ctx'[c].sess = cookie
    BY <1>2, <1>9, <1>11 DEF Last
  <2> QED
    BY <1>1, <1>5, <2>1 DEF ViewOK
<1>18. Kept'
  BY <1>5 DEF Kept
<1>19. ASSUME NEW d \in Elems(txn) \cup Elems(own) PROVE t.ctx[d] = ctx[d] /\ d # c
  BY <1>3, <1>4, <1>7, <1>9, Types, Apart DEF IInv
<1>20. Transaction'
  BY <1>2, <1>6, <1>19 DEF IInv, Transaction
<1>21. ASSUME ~tangled', ~mixed' PROVE Orderly'
  <2>1. Orderly /\ streams = {}
    BY <1>21 DEF IInv
  <2>2. s.cv = own
    BY <1>3, <2>1
  <2>3. own \in Seq(Ctxs) /\ own \o <<>> = own /\ own \o <<c>> = Append(own, c)
    BY <1>4, Types DEF IInv
  <2>4. t.cv = own \o <<>> \o <<c>>
    BY <1>9, <2>2, <2>3
  <2>5. \A d \in Elems(_new_contexts) : t.ctx[d] = ctx[d]
    <3>1. Elems(_new_contexts) = {} \/ Elems(_context_stack) = {}
      BY DEF IInv, Lists, Elems
    <3> QED
      BY <1>3, <1>7, <1>9, <3>1, Types DEF IInv
  <2>6. /\ \A d \in Elems(own) : t.ctx[d].pushes <= 1
        /\ \A d \in Elems(_new_contexts) \ streams : t.ctx[d].pushes = 0
        /\ \A d \in Elems(txn) : t.ctx[d].pushes = 0
    BY <2>1, <2>5, <1>19 DEF Orderly
  <2> QED
    BY <1>1, <1>2, <1>5, <1>6, <2>1, <2>4, <2>6 DEF Orderly
<1>22. ~overlapped' => written' \subseteq cookie'
  BY DEF IInv
<1> QED
  BY <1>12, <1>13, <1>14, <1>15, <1>16, <1>17, <1>18, <1>20, <1>21, <1>22 DEF IInv

LEMMA StartIInv ==
    ASSUME IInv, ~Viewing, NEW mark, NEW follow \in BOOLEAN, NEW below \in Seq(Calls),
           Start(mark, follow, below), preserve_context => mark,
           ~tangled' => ~tangled, ~tangled' /\ ~mixed => streams = {}
    PROVE  IInv'
<1>1. PICK s : s = LeaveAll(Now, _context_stack)
  OBVIOUS
<1>2. CASE s.refused /\ Becomes(s) /\ calls' = <<>> /\ UNCHANGED <<made, marked>>
  <2>1. preserve_context' \in BOOLEAN
    BY DEF Start, IInv, Typed
  <2> QED
    BY <1>1, <1>2, <2>1, LeftIInv DEF Start
<1>3. CASE /\ ~s.refused
           /\ Becomes(push([s EXCEPT !.ctx[made + 1].sess = cookie], made + 1))
           /\ made' = made + 1
           /\ marked' = IF mark THEN marked \cup {made + 1} ELSE marked
           /\ calls' = Append(below, [ctx |-> made + 1, at |-> "view", follow |-> follow])
  <2>1. PICK call : call = [ctx |-> made + 1, at |-> "view", follow |-> follow]
    OBVIOUS
  <2>2. call.ctx = made + 1 /\ call.at = "view" /\ call \in Calls
    <3>1. made + 1 \in Ctxs
      BY Types DEF Start, IInv, Ctxs
    <3> QED
      BY <2>1, <3>1 DEF Calls
  <2>3. Becomes(push(Stored(s, made + 1, cookie), made + 1)) /\ calls' = Append(below, call)
    BY <1>3, <2>1 DEF Stored
  <2>4. preserve_context => made + 1 \in marked'
    BY <1>3
  <2> QED
    BY <1>1, <1>3, <2>2, <2>3, <2>4, StartedIInv DEF Start
<1> QED
  BY <1>1, <1>2, <1>3 DEF Start

LEMMA OpenIInv ==
    ASSUME IInv, NEW follow \in BOOLEAN, NEW again, open(follow, again) PROVE IInv'
<1>1. ~Viewing /\ <<>> \in Seq(Calls)
  BY DEF open, Viewing, Idle
<1>2. Start(preserve_context \/ again \in marked, follow, <<>>)
      /\ tangled' = (tangled \/ streams # {})
  BY DEF open
<1> QED
  BY <1>1, <1>2, StartIInv

LEMMA FollowIInv == ASSUME IInv, FollowRedirect PROVE IInv'
<1>1. ~Idle /\ Call.at = "redirected" /\ Start(preserve_context, FALSE, calls)
      /\ tangled' = tangled
  BY DEF FollowRedirect
<1>2. ~Viewing /\ calls \in Seq(Calls)
  BY <1>1 DEF Viewing, IInv, Typed
<1>3. ~tangled' /\ ~mixed => streams = {}
  <2>1. ASSUME ~tangled, ~mixed PROVE streams = {}
    <3>1. Orderly
      BY <2>1 DEF IInv
    <3>2. streams # {} => Call.at = "answered"
      BY <1>1, <3>1 DEF Orderly
    <3> QED
      BY <1>1, <3>2
  <2> QED
    BY <1>1, <2>1
<1> QED
  BY <1>1, <1>2, <1>3, StartIInv

\* The end of a request: its context is not active any more, or is a streamed response's.
LEMMA FinishState ==
    ASSUME IInv, Viewing, NEW c, c = Call.ctx, NEW u \in States, u.cv = cv,
           \A d \in Ctxs : d # c => u.ctx[d] = ctx[d],
           u.ctx[c].pushes = ctx[c].pushes, u.ctx[c].torn = ctx[c].torn,
           NEW stream \in BOOLEAN, NEW t, t = pop(IF stream THEN push(u, c) ELSE u, c)
    PROVE  /\ t \in States /\ c \in Made /\ c \in Viewed /\ ctx[c].torn = 0
           /\ \A d \in Ctxs : d # c => t.ctx[d] = ctx[d]
           /\ t.ctx[c].sess = u.ctx[c].sess
           /\ IF stream THEN t.cv = cv /\ t.ctx[c].pushes = 1 /\ t.ctx[c].torn = 0
              ELSE t.cv = Front(cv) /\ t.ctx[c].pushes = 0 /\ t.ctx[c].torn = 1
           /\ cv # <<>> /\ Last(cv) = c
<1>1. c \in Viewed /\ c \in Made /\ c \in Ctxs
  BY Types DEF Viewed, IInv
<1>2. ctx[c].torn = 0
  BY <1>1, Apart
<1>3. cv # <<>> /\ Last(cv) = c /\ ctx[c].pushes = 1
  BY DEF IInv, ViewOK
<1>4. CASE ~stream
  <2>1. Popped(u, c, t)
    BY <1>1, <1>4, PopFacts
  <2>2. ~Refuses(u, c) /\ ~(u.ctx[c].pushes > 1)
    BY <1>3 DEF Refuses
  <2> QED
    BY <1>1, <1>2, <1>3, <1>4, <2>1, <2>2 DEF Popped
<1>5. CASE stream
  <2>1. PICK v : v = push(u, c)
    OBVIOUS
  <2>2. Pushed(u, c, v)
    BY <1>1, <2>1, PushFacts
  <2>3. v \in States /\ t = pop(v, c)
    BY <1>5, <2>1, <2>2 DEF Pushed
  <2>4. Popped(v, c, t)
    BY <1>1, <2>3, PopFacts
  <2>5. v.cv = cv /\ v.ctx[c].pushes = 2
    BY <1>3, <2>2 DEF Pushed
  <2>6. ~Refuses(v, c) /\ v.ctx[c].pushes > 1 /\ v.ctx[c].pushes - 1 = 1
    BY <1>3, <2>5 DEF Refuses
  <2> QED
    BY <1>1, <1>2, <1>3, <1>5, <2>2, <2>4, <2>5, <2>6 DEF Pushed, Popped
<1> QED
  BY <1>4, <1>5

LEMMA FinishIInv ==
    ASSUME IInv, Viewing, NEW c, c = Call.ctx, NEW u \in States, u.cv = cv,
           \A d \in Ctxs : d # c => u.ctx[d] = ctx[d],
           u.ctx[c].pushes = ctx[c].pushes, u.ctx[c].torn = ctx[c].torn,
           u.ctx[c].sess = cookie', cookie' \subseteq Ctxs,
           NEW stream \in BOOLEAN, Finish(IF stream THEN push(u, c) ELSE u),
           streams' = IF stream THEN streams \cup {c} ELSE streams,
           calls' \in Seq(Calls), ~Viewing', stream /\ ~Idle' => Call'.at = "answered",
           ~overlapped' => ~overlapped /\ written' \subseteq cookie'
                           /\ (cookie' = cookie \/ txn = <<>>)
    PROVE  IInv'
<1>1. PICK t : t = pop(IF stream THEN push(u, c) ELSE u, c)
  OBVIOUS
<1>2. /\ cv' = t.cv /\ ctx' = t.ctx
      /\ _new_contexts' = IF c \in marked THEN Append(_new_contexts, c) ELSE _new_contexts
      /\ UNCHANGED <<made, marked, preserve_context, _context_stack, own, txn, tangled, mixed>>
  BY <1>1 DEF Finish, Becomes, misuse
<1>3. /\ t \in States /\ c \in Made /\ c \in Viewed /\ ctx[c].torn = 0
      /\ \A d \in Ctxs : d # c => t.ctx[d] = ctx[d]
      /\ t.ctx[c].sess = cookie'
      /\ IF stream THEN t.cv = cv /\ t.ctx[c].pushes = 1 /\ t.ctx[c].torn = 0
         ELSE t.cv = Front(cv) /\ t.ctx[c].pushes = 0 /\ t.ctx[c].torn = 1
      /\ cv # <<>> /\ Last(cv) = c
  BY <1>1, FinishState
<1>4. /\ c \notin Elems(_new_contexts) /\ c \notin Elems(_context_stack) /\ c \notin streams
      /\ c \notin Elems(own) /\ c \notin Elems(txn)
  BY <1>3, Apart
<1>5. c \in Ctxs /\ _new_contexts \in Seq(Ctxs) /\ cv \in Seq(Ctxs) /\ own \in Seq(Ctxs)
  BY <1>3, Types DEF IInv
<1>6. /\ Made' = Made /\ Viewed = {c} /\ Viewed' = {}
      /\ Elems(_context_stack)' = Elems(_context_stack) /\ Elems(own)' = Elems(own)
      /\ Elems(txn)' = Elems(txn)
  BY <1>2 DEF Made, Viewed, Elems
<1>7. /\ _new_contexts' \in Seq(Ctxs)
      /\ Elems(_new_contexts)' = IF c \in marked THEN Elems(_new_contexts) \cup {c}
                                 ELSE Elems(_new_contexts)
      /\ c \in marked => _new_contexts' # <<>> /\ Last(_new_contexts)' = c
  <2>1. CASE c \in marked
    <3>1. _new_contexts' = Append(_new_contexts, c)
      BY <1>2, <2>1
    <3>2. Elems(_new_contexts') = Elems(_new_contexts) \cup {c} /\ Last(_new_contexts') = c
          /\ _new_contexts' \in Seq(Ctxs) /\ _new_contexts' # <<>>
      BY <1>5, <3>1, ElemsFacts
    <3> QED
      BY <2>1, <3>2 DEF Elems, Last
  <2>2. CASE c \notin marked
    BY <1>2, <1>5, <2>2 DEF Elems
  <2> QED
    BY <2>1, <2>2
<1>8. t.cv \in Seq(Ctxs) /\ t.ctx \in [Ctxs -> Contexts]
  BY <1>3, StateTypes
<1>9. Typed'
  BY <1>2, <1>5, <1>7, <1>8 DEF IInv, Typed
<1>10. Fresh'
  <2>1. \A d \in Ctxs \ Made : t.ctx[d] = ctx[d]
    BY <1>3
  <2>2. Known(Elems(_new_contexts))' /\ Known(streams)'
    BY <1>3, <1>6, <1>7 DEF IInv, Fresh, Known
  <2> QED
    BY <1>2, <1>6, <2>1, <2>2 DEF IInv, Fresh, Known
<1>11. Alive'
  <2>1. ASSUME NEW d \in Made, t.ctx[d].torn = 0 PROVE d \in Elems(t.cv)
    <3>1. CASE d = c
      <4>1. stream
        BY <1>3, <2>1, <3>1
      <4> QED
        BY <1>3, <1>5, <3>1, <4>1, FrontFacts
    <3>2. CASE d # c
      <4>1. d \in Ctxs /\ ctx[d].torn = 0
        BY <1>3, <2>1, <3>2, Types DEF IInv
      <4>2. d \in Elems(cv)
        BY <4>1 DEF IInv, Alive
      <4>3. Elems(cv) = Elems(Front(cv)) \cup {c}
        BY <1>3, <1>5, FrontFacts
      <4> QED
        BY <1>3, <3>2, <4>2, <4>3
    <3> QED
      BY <3>1, <3>2
  <2> QED
    BY <1>2, <1>6, <2>1 DEF Alive, Elems
<1>12. Budget'
  <2>1. ASSUME NEW d \in Made PROVE t.ctx[d].torn + Due(d)' <= 2
    <3>1. CASE d = c
      BY <1>3, <1>4, <1>6, <1>7, <3>1 DEF Due, Times
    <3>2. CASE d # c
      <4>1. t.ctx[d] = ctx[d] /\ ctx[d].torn + Due(d) <= 2
        BY <1>3, <3>2, Types DEF IInv, Budget
      <4>2. Due(d)' = Due(d)
        BY <1>6, <1>7, <3>2 DEF Due, Times
      <4> QED
        BY <4>1, <4>2
    <3> QED
      BY <3>1, <3>2
  <2> QED
    BY <1>2, <1>6, <2>1 DEF Budget
<1>13. Lists'
  <2>1. _context_stack = <<>>
    BY DEF IInv, Lists
  <2>2. Distinct(_new_contexts)'
    <3>1. CASE c \in marked
      <4>1. Distinct(_new_contexts) /\ _new_contexts' = Append(_new_contexts, c)
        BY <1>2, <3>1 DEF IInv, Lists
      <4>2. Distinct(_new_contexts')
        BY <1>4, <1>5, <4>1, DistinctAppend
      <4> QED
        BY <4>2 DEF Distinct
    <3>2. CASE c \notin marked
      BY <1>2, <3>2 DEF IInv, Lists, Distinct
    <3> QED
      BY <3>1, <3>2
  <2> QED
    BY <1>2, <2>1, <2>2 DEF IInv, Lists, Distinct
<1>14. ViewOK'
  BY DEF ViewOK
<1>15. Kept'
  <2>1. SUFFICES ASSUME preserve_context, streams' = {}
                 PROVE  /\ _new_contexts' # <<>>
                        /\ ctx'[Last(_new_contexts)'].sess = cookie'
                        /\ ctx'[Last(_new_contexts)'].pushes = 0
    BY <1>2 DEF Kept
  <2>2. c \in marked /\ ~stream
    BY <2>1 DEF IInv, ViewOK
  <2> QED
    BY <1>2, <1>3, <1>7, <2>2
<1>16. Transaction'
  <2>1. ASSUME NEW d \in Elems(txn) PROVE t.ctx[d] = ctx[d] /\ txn # <<>>
    BY <1>3, <1>4, <2>1, Types DEF IInv, Elems
  <2> QED
    BY <1>2, <1>6, <2>1 DEF IInv, Transaction
<1>17. ASSUME ~tangled', ~mixed' PROVE Orderly'
  <2>1. Orderly
    BY <1>2, <1>17 DEF IInv
  <2>2. streams = {}
    <3>1. Call.at # "answered" /\ ~Idle
      BY DEF Viewing
    <3> QED
      BY <2>1, <3>1 DEF Orderly
  <2>3. _context_stack = <<>>
    BY DEF IInv, Lists
  <2>4. own \o <<>> = own /\ own \o <<c>> = Append(own, c) /\ Front(Append(own, c)) = own
    BY <1>5, FrontAppend
  <2>5. cv = Append(own, c)
    BY <2>1, <2>2, <2>3, <2>4 DEF Orderly
  <2>6. \A d \in Elems(own) \cup Elems(txn) \cup Elems(_new_contexts) : t.ctx[d] = ctx[d]
    BY <1>3, <1>4, Types DEF IInv
  <2>7. /\ \A d \in Elems(own) : t.ctx[d].pushes <= 1
        /\ \A d \in Elems(_new_contexts) : t.ctx[d].pushes = 0
        /\ \A d \in Elems(txn) : t.ctx[d].pushes = 0
    BY <2>1, <2>2, <2>6 DEF Orderly
  <2>8. \A d \in Elems(_new_contexts)' : d \notin streams' => t.ctx[d].pushes = 0
    BY <1>3, <1>7, <2>7
  <2>9. CASE stream
    <3>1. streams' = {c} /\ t.cv = Append(own, c)
      BY <1>3, <2>2, <2>5, <2>9
    <3>2. Len(_context_stack) = 0 /\ t.ctx[c].pushes = 1
      BY <1>3, <2>3, <2>9
    <3>3. t.ctx[c].pushes = 1 + Len(_context_stack)
      BY <3>2
    <3> QED
      BY <1>2, <1>4, <1>6, <2>3, <2>7, <2>8, <2>9, <3>1, <3>3 DEF Orderly
  <2>10. CASE ~stream
    <3>1. streams' = {} /\ t.cv = own /\ Elems(<<>>) = {}
      BY <1>3, <2>2, <2>4, <2>5, <2>10 DEF Elems
    <3>2. t.cv = own \o _context_stack \o <<>>
      BY <2>3, <2>4, <3>1
    <3> QED
      BY <1>2, <1>6, <2>3, <2>7, <2>8, <3>1, <3>2 DEF Orderly
  <2> QED
    BY <2>9, <2>10
<1>18. ~overlapped' => written' \subseteq cookie'
  OBVIOUS
<1> QED
  BY <1>9, <1>10, <1>11, <1>12, <1>13, <1>14, <1>15, <1>16, <1>17, <1>18 DEF IInv

LastReplaced(s, r, t) == t = [s EXCEPT ![Len(s)] = r]

LEMMA ReplaceLast ==
    ASSUME NEW S, NEW s \in Seq(S), s # <<>>, NEW r \in S, NEW t, LastReplaced(s, r, t)
    PROVE  t \in Seq(S) /\ t # <<>> /\ Last(t) = r
<1>1. PICK n : n = Len(s)
  OBVIOUS
<1>2. n \in Nat \ {0} /\ s \in [1..n -> S]
  BY <1>1
<1>3. n \in 1..n
  BY <1>2
<1>4. t \in [1..n -> S] /\ t[n] = r
  BY <1>1, <1>2, <1>3 DEF LastReplaced
<1>5. t \in Seq(S) /\ Len(t) = n
  BY <1>2, <1>4
<1>6. t # <<>>
  BY <1>2, <1>5
<1> QED
  BY <1>4, <1>5, <1>6 DEF Last

LEMMA AtFacts ==
    ASSUME Typed, ~Idle, NEW a \in {"view", "answered", "answered again", "redirected"}
    PROVE  At(a) \in Seq(Calls) /\ At(a) # <<>> /\ Last(At(a)).at = a
<1>1. calls \in Seq(Calls) /\ calls # <<>>
  BY DEF Typed, Idle
<1>2. calls[Len(calls)] \in Calls
  BY <1>1, FrontFacts DEF Last
<1>3. PICK r : r = [calls[Len(calls)] EXCEPT !.at = a]
  OBVIOUS
<1>4. r \in Calls /\ r.at = a
  BY <1>2, <1>3 DEF Calls
<1>5. PICK t : t = At(a)
  OBVIOUS
<1>6. LastReplaced(calls, r, t)
  BY <1>3, <1>5 DEF At, LastReplaced
<1>7. t \in Seq(Calls) /\ t # <<>> /\ Last(t) = r
  BY <1>1, <1>4, <1>6, ReplaceLast
<1> QED
  BY <1>4, <1>5, <1>7

LEMMA RespondIInv ==
    ASSUME IInv, NEW write \in BOOLEAN, NEW stream \in BOOLEAN, Respond(write, stream),
           NEW a \in {"answered", "answered again", "redirected"}, calls' = At(a),
           stream => a = "answered"
    PROVE  IInv'
<1>1. PICK c, data : c = Call.ctx /\ data = ctx[c].sess \cup {c}
  OBVIOUS
<1>2. PICK u : u = IF write THEN [Now EXCEPT !.ctx[c].sess = data] ELSE Now
  OBVIOUS
<1>3. /\ ~Idle /\ Call.at = "view"
      /\ Finish(IF stream THEN push(u, c) ELSE u)
      /\ streams' = IF stream THEN streams \cup {c} ELSE streams
      /\ cookie' = IF write THEN data ELSE cookie
      /\ written' = IF write THEN written \cup {c} ELSE written
      /\ overlapped' = (overlapped \/ (write /\ txn # <<>>))
  BY <1>1, <1>2 DEF Respond
<1>4. Viewing /\ Typed /\ Fresh
  BY <1>3 DEF Viewing, IInv
<1>5. c \in Viewed /\ c \in Ctxs /\ ctx[c].sess = cookie /\ cookie \subseteq Ctxs
  BY <1>1, <1>4, Types DEF Viewed, IInv, ViewOK, Typed
<1>6. data \in SUBSET Ctxs /\ Now \in States /\ Now.cv = cv /\ Now.ctx = ctx
  BY <1>1, <1>4, <1>5, Types
<1>7. /\ u \in States /\ u.cv = cv /\ \A d \in Ctxs : d # c => u.ctx[d] = ctx[d]
      /\ u.ctx[c].pushes = ctx[c].pushes /\ u.ctx[c].torn = ctx[c].torn
      /\ u.ctx[c].sess = cookie'
  <2>1. CASE write
    <3>1. u = Stored(Now, c, data) /\ cookie' = data
      BY <1>2, <1>3, <2>1 DEF Stored
    <3>2. StoredAs(Now, c, data, u)
      BY <1>5, <1>6, <3>1, StoredFacts
    <3> QED
      BY <1>5, <1>6, <3>1, <3>2 DEF StoredAs
  <2>2. CASE ~write
    BY <1>2, <1>3, <1>5, <1>6, <2>2
  <2> QED
    BY <2>1, <2>2
<1>8. cookie' \subseteq Ctxs
  BY <1>3, <1>5, <1>6
<1>9. /\ calls' \in Seq(Calls) /\ ~Viewing' /\ (stream /\ ~Idle' => Call'.at = "answered")
  <2>1. calls' \in Seq(Calls) /\ Last(calls').at = a
    BY <1>3, <1>4, AtFacts
  <2>2. Call'.at = a
    BY <2>1 DEF Call, Last
  <2> QED
    BY <2>1, <2>2 DEF Viewing
<1>10. ~overlapped' => ~overlapped /\ written' \subseteq cookie'
                       /\ (cookie' = cookie \/ txn = <<>>)
  BY <1>1, <1>3, <1>5 DEF IInv
<1> QED
  BY <1>1, <1>3, <1>4, <1>7, <1>8, <1>9, <1>10, FinishIInv

LEMMA AnswerIInv ==
    ASSUME IInv, NEW write \in BOOLEAN, NEW stream \in BOOLEAN, Answer(write, stream)
    PROVE  IInv'
BY RespondIInv DEF Answer

LEMMA RedirectIInv ==
    ASSUME IInv, NEW write \in BOOLEAN, Redirect(write) PROVE IInv'
<1>1. PICK a \in {"answered", "answered again", "redirected"} : calls' = At(a)
  BY DEF Redirect
<1> QED
  BY <1>1, RespondIInv DEF Redirect

LEMMA RaiseIInv == ASSUME IInv, Raise PROVE IInv'
<1>1. /\ Viewing /\ Typed /\ Fresh /\ Finish(Now) /\ calls' = <<>>
      /\ UNCHANGED <<streams, cookie, written, overlapped>>
  BY DEF Raise, Viewing, IInv
<1>2. PICK c, stream : c = Call.ctx /\ stream = FALSE
  OBVIOUS
<1>3. Now \in States /\ Now.cv = cv /\ Now.ctx = ctx
  BY <1>1, Types
<1>4. ctx[c].sess = cookie' /\ cookie' \subseteq Ctxs
  BY <1>1, <1>2 DEF IInv, ViewOK, Typed
<1>5. calls' \in Seq(Calls) /\ Idle' /\ ~Viewing'
  BY <1>1 DEF Idle, Viewing
<1>6. ~overlapped' => ~overlapped /\ written' \subseteq cookie' /\ cookie' = cookie
  BY <1>1 DEF IInv
<1>7. /\ stream \in BOOLEAN /\ Finish(IF stream THEN push(Now, c) ELSE Now)
      /\ streams' = IF stream THEN streams \cup {c} ELSE streams
  BY <1>1, <1>2
<1> QED
  BY <1>1, <1>2, <1>3, <1>4, <1>5, <1>6, <1>7, FinishIInv

LEMMA ReturnCalls ==
    ASSUME IInv, Return
    PROVE  /\ calls' \in Seq(Calls) /\ ~Viewing' /\ ~Viewing /\ ~Idle
           /\ Call.at = "answered" /\ ~Idle' => Call'.at = "answered"
<1>1. /\ ~Idle /\ Call.at \in {"answered", "answered again"}
      /\ calls' = IF Len(calls) = 1 THEN <<>>
                  ELSE <<[calls[1] EXCEPT !.at = IF Call.at = "answered" THEN "answered"
                                                 ELSE "redirected"]>>
  BY DEF Return, Reenter
<1>2. calls \in Seq(Calls) /\ calls # <<>>
  BY <1>1 DEF IInv, Typed, Idle
<1>3. PICK s : s = calls
  OBVIOUS
<1>4. s[1] \in Calls
  <2>1. s \in Seq(Calls) /\ Len(s) \in Nat \ {0}
    BY <1>2, <1>3, FrontFacts
  <2>2. 1 \in 1..Len(s)
    BY <2>1
  <2> QED
    BY <2>1, <2>2
<1>5. PICK a, r : a = (IF Call.at = "answered" THEN "answered" ELSE "redirected")
                  /\ r = [s[1] EXCEPT !.at = a]
  OBVIOUS
<1>6. r \in Calls /\ r.at = a
  BY <1>4, <1>5 DEF Calls
<1>7. CASE calls' = <<>>
  <2>1. <<>> \in Seq(Calls) /\ Idle'
    BY <1>7 DEF Idle
  <2> QED
    BY <1>1, <1>7, <2>1 DEF Viewing
<1>8. CASE calls' = <<r>>
  <2>1. <<r>> \in Seq(Calls) /\ Len(<<r>>) = 1 /\ <<r>>[1] = r
    BY <1>6
  <2>2. Call' = r
    BY <1>8, <2>1 DEF Call, Last
  <2>3. r.at # "view" /\ (Call.at = "answered" => r.at = "answered") /\ Call.at # "view"
    <3>1. a # "view" /\ (Call.at = "answered" => a = "answered")
      BY <1>5
    <3>2. Call.at # "view"
      BY <1>1
    <3> QED
      BY <1>6, <3>1, <3>2
  <2> QED
    BY <1>1, <1>8, <2>1, <2>2, <2>3 DEF Viewing
<1> QED
  BY <1>1, <1>3, <1>5, <1>7, <1>8

LEMMA ReturnIInv == ASSUME IInv, Return PROVE IInv'
<1>1. PICK t : t = EnterAll(Now, _new_contexts)
  OBVIOUS
<1>2. /\ cv' = t.cv /\ ctx' = t.ctx
      /\ _context_stack' = _context_stack \o _new_contexts /\ _new_contexts' = <<>>
      /\ mixed' = (mixed \/ \E c \in Elems(_new_contexts) : streams \ {c} # {})
      /\ UNCHANGED <<made, marked, preserve_context, streams, own, cookie, txn, written,
                     tangled, overlapped>>
  BY <1>1 DEF Return, Reenter, Becomes
<1>3. /\ calls' \in Seq(Calls) /\ ~Viewing' /\ ~Viewing /\ ~Idle
      /\ (Call.at = "answered" /\ ~Idle' => Call'.at = "answered")
  BY ReturnCalls
<1>4. /\ Now \in States /\ Now.cv = cv /\ Now.ctx = ctx
      /\ _new_contexts \in Seq(Ctxs) /\ _context_stack \in Seq(Ctxs) /\ own \in Seq(Ctxs)
      /\ cv \in Seq(Ctxs) /\ Elems(_new_contexts) \subseteq Ctxs
  BY Types DEF IInv
<1>5. Distinct(_new_contexts)
  BY DEF IInv, Lists
<1>6. /\ Keeps(Now, t)
      /\ \A c \in Ctxs \ Elems(_new_contexts) : t.ctx[c] = ctx[c]
      /\ \A c \in Ctxs : t.ctx[c].torn = ctx[c].torn
      /\ _new_contexts # <<>> /\ ctx[Last(_new_contexts)].pushes = 0 =>
            t.cv # <<>> /\ Last(t.cv) = Last(_new_contexts)
      /\ (\A c \in Elems(_new_contexts) : ctx[c].pushes = 0) =>
            t.cv = cv \o _new_contexts /\ \A c \in Elems(_new_contexts) : t.ctx[c].pushes = 1
  <2>1. Entered(Now, _new_contexts, t)
    BY <1>1, <1>4, EnteredKeeps
  <2> QED
    BY <1>4, <1>5, <2>1 DEF Entered
<1>7. t \in States /\ t.cv \in Seq(Ctxs) /\ t.ctx \in [Ctxs -> Contexts]
  BY <1>6, StateTypes DEF Keeps
<1>8. \A c \in Ctxs : t.ctx[c].sess = ctx[c].sess
  BY <1>4, <1>6 DEF Keeps
<1>9. /\ Made' = Made /\ Viewed' = {} /\ Viewed = {} /\ streams' = streams
      /\ Elems(own)' = Elems(own) /\ Elems(txn)' = Elems(txn)
      /\ Elems(_new_contexts)' = {}
  BY <1>2, <1>3 DEF Made, Viewed, Elems
<1>10. /\ Elems(_context_stack)' = Elems(_context_stack) \cup Elems(_new_contexts)
       /\ _context_stack' \in Seq(Ctxs)
  <2>1. /\ Elems(_context_stack') = Elems(_context_stack) \cup Elems(_new_contexts)
        /\ _context_stack' \in Seq(Ctxs)
    BY <1>2, <1>4, ConcatFacts
  <2> QED
    BY <2>1 DEF Elems
<1>11. /\ _new_contexts = <<>> => t = Now /\ _context_stack' = _context_stack
       /\ _context_stack = <<>> => _context_stack' = _new_contexts
       /\ _new_contexts = <<>> \/ _context_stack = <<>>
  BY <1>1, <1>2, <1>4, EnterNone, ConcatFacts DEF IInv, Lists
<1>12. Typed'
  <2>1. <<>> \in Seq(Ctxs)
    OBVIOUS
  <2> QED
    BY <1>2, <1>3, <1>7, <1>10, <2>1 DEF IInv, Typed
<1>13. Fresh'
  <2>1. \A c \in Ctxs \ Made : t.ctx[c] = ctx[c]
    BY <1>6, Types DEF IInv
  <2> QED
    BY <1>2, <1>9, <1>10, <2>1 DEF IInv, Fresh, Known
<1>14. Alive'
  <2>1. Becomes(t) /\ made' \in 0..MaxCtx /\ Made' \ Made = {}
    BY <1>2, <1>9 DEF Becomes, IInv, Typed
  <2> QED
    BY <1>4, <1>6, <2>1, AliveStep DEF IInv
<1>15. Budget'
  <2>1. ASSUME NEW c \in Made PROVE t.ctx[c].torn + Due(c)' <= 2
    <3>1. t.ctx[c].torn = ctx[c].torn /\ ctx[c].torn + Due(c) <= 2
      BY <1>6, Types DEF IInv, Budget
    <3>2. Elems(_new_contexts) = {} \/ Elems(_context_stack) = {}
      BY <1>11 DEF Elems
    <3>3. Due(c)' = Due(c)
      BY <1>9, <1>10, <3>2 DEF Due, Times
    <3> QED
      BY <3>1, <3>3
  <2> QED
    BY <1>2, <1>9, <2>1 DEF Budget
<1>16. Lists'
  <2>1. Distinct(_context_stack')
    BY <1>5, <1>11 DEF IInv, Lists
  <2> QED
    BY <1>2, <1>3, <2>1 DEF IInv, Lists, Distinct
<1>17. ViewOK'
  BY <1>3 DEF ViewOK
<1>18. Kept'
  <2>1. SUFFICES ASSUME preserve_context, streams = {}
                 PROVE  t.cv # <<>> /\ t.ctx[Last(t.cv)].sess = cookie
    BY <1>2 DEF Kept, Last
  <2>2. IF _new_contexts # <<>>
        THEN ctx[Last(_new_contexts)].sess = cookie /\ ctx[Last(_new_contexts)].pushes = 0
        ELSE cv # <<>> /\ ctx[Last(cv)].sess = cookie
    BY <1>3, <2>1 DEF IInv, Kept
  <2>3. CASE _new_contexts # <<>>
    <3>1. Last(_new_contexts) \in Ctxs
      BY <1>4, <2>3, FrontFacts
    <3> QED
      BY <1>6, <1>8, <2>2, <2>3, <3>1
  <2>4. CASE _new_contexts = <<>>
    BY <1>4, <1>11, <2>2, <2>4
  <2> QED
    BY <2>3, <2>4
<1>19. \A c \in Elems(own) \cup Elems(txn) : t.ctx[c] = ctx[c]
  BY <1>6, Types, Apart DEF IInv
<1>20. Transaction'
  BY <1>2, <1>9, <1>19 DEF IInv, Transaction
<1>21. ASSUME ~tangled', ~mixed' PROVE Orderly'
  <2>1. Orderly /\ \A c \in Elems(_new_contexts) : streams \ {c} = {}
    BY <1>2, <1>21 DEF IInv
  <2>2. /\ \A c \in Elems(own) : t.ctx[c].pushes <= 1
        /\ \A c \in Elems(txn) : t.ctx[c].pushes = 0
    BY <1>19, <2>1 DEF Orderly
  <2>3. ASSUME NEW w \in Seq(Ctxs) PROVE w \o <<>> = w
    BY ConcatFacts
  <2>4. CASE streams = {}
    <3>1. cv = own \o _context_stack
      <4>1. PICK w : w = own \o _context_stack
        OBVIOUS
      <4>2. w \in Seq(Ctxs)
        BY <1>4, <4>1, ConcatFacts
      <4> QED
        BY <1>3, <2>1, <2>3, <2>4, <4>1, <4>2 DEF Orderly
    <3>2. \A c \in Elems(_new_contexts) : ctx[c].pushes = 0
      BY <2>1, <2>4 DEF Orderly
    <3>3. t.cv = cv \o _new_contexts /\ \A c \in Elems(_new_contexts) : t.ctx[c].pushes = 1
      BY <1>6, <3>2
    <3>4. t.cv = own \o _context_stack'
      <4>1. CASE _new_contexts = <<>>
        BY <1>4, <1>11, <3>1, <4>1
      <4>2. CASE _context_stack = <<>>
        BY <1>4, <1>11, <2>3, <3>1, <3>3, <4>2
      <4> QED
        BY <1>11, <4>1, <4>2
    <3>5. t.cv = own \o _context_stack' \o <<>>
      BY <1>7, <2>3, <3>4
    <3>6. \A c \in Elems(_context_stack)' : t.ctx[c].pushes <= 1
      <4>1. \A c \in Elems(_context_stack) : ctx[c].pushes <= 1
        BY <2>1, <2>4 DEF Orderly
      <4>2. \A c \in Elems(_new_contexts) : t.ctx[c].pushes <= 1
        BY <3>3
      <4>3. Elems(_new_contexts) = {} \/ Elems(_context_stack) = {}
        BY <1>11 DEF Elems
      <4>4. \A c \in Elems(_context_stack) : c \in Ctxs
        BY <1>4, ElemsFacts
      <4> QED
        BY <1>6, <1>10, <4>1, <4>2, <4>3, <4>4
    <3> QED
      BY <1>2, <1>3, <1>9, <2>2, <2>4, <3>5, <3>6 DEF Orderly
  <2>5. CASE streams # {}
    <3>1. PICK c \in streams :
             /\ streams = {c} /\ cv = Append(own, c) /\ c \notin Elems(own)
             /\ _context_stack = <<>> \/ _context_stack = <<c>>
             /\ ctx[c].pushes = 1 + Len(_context_stack)
             /\ ~Idle => Call.at = "answered"
      BY <2>1, <2>5 DEF Orderly
    <3>2. c \in Ctxs /\ (~Idle' => Call'.at = "answered")
      BY <1>3, <3>1, Types DEF IInv
    <3>3. CASE _new_contexts = <<>>
      <4>1. t.cv = cv /\ t.ctx = ctx /\ _context_stack' = _context_stack
        BY <1>4, <1>11, <3>3
      <4> QED
        BY <1>2, <1>3, <1>9, <2>2, <2>5, <3>1, <3>2, <4>1 DEF Orderly
    <3>4. CASE _new_contexts # <<>>
      <4>1. _context_stack = <<>> /\ _context_stack' = _new_contexts
        BY <1>11, <3>4
      <4>2. \A d \in Elems(_new_contexts) : d = c
        BY <2>1, <3>1
      <4>3. _new_contexts = <<c>>
        <5>1. PICK n, w : w = _new_contexts /\ n = Len(w)
          OBVIOUS
        <5>2. n \in Nat \ {0} /\ DOMAIN w = 1..n /\ w \in Seq(Ctxs)
          BY <1>4, <3>4, <5>1, FrontFacts, ElemAt
        <5>3. \A k \in 1..n : w[k] = c
          BY <4>2, <5>1, <5>2 DEF Elems
        <5>4. \A i, j \in 1..n : i = j
          BY <1>5, <5>1, <5>2, <5>3 DEF Distinct
        <5>5. n = 1
          <6>1. 1 \in 1..n /\ n \in 1..n
            BY <5>2
          <6> QED
            BY <5>4, <6>1
        <5>6. w = <<c>>
          BY <5>1, <5>2, <5>3, <5>5
        <5> QED
          BY <5>1, <5>6
      <4>4. t = push(Now, c)
        BY <1>1, <1>4, <3>2, <4>3, EnterOne
      <4>5. ctx[c].pushes = 1 /\ Len(<<c>>) = 1
        <5>1. Len(_context_stack) = 0
          BY <4>1
        <5> QED
          BY <3>1, <5>1
      <4>6. Pushed(Now, c, t)
        BY <1>4, <3>2, <4>4, PushFacts
      <4>7. t.cv = cv /\ t.ctx[c].pushes = 1 + Len(<<c>>)
        BY <1>4, <4>5, <4>6 DEF Pushed
      <4> QED
        BY <1>2, <1>3, <1>9, <2>2, <2>5, <3>1, <3>2, <4>1, <4>3, <4>7 DEF Orderly
    <3> QED
      BY <3>3, <3>4
  <2> QED
    BY <2>4, <2>5
<1>22. ~overlapped' => written' \subseteq cookie'
  BY <1>2 DEF IInv
<1> QED
  BY <1>12, <1>13, <1>14, <1>15, <1>16, <1>17, <1>18, <1>20, <1>21, <1>22 DEF IInv

\* Steps between requests.
LEMMA IdleFacts ==
    ASSUME Idle, UNCHANGED calls
    PROVE  ~Viewing /\ ~Viewing' /\ Viewed = {} /\ Viewed' = {} /\ Idle' /\ ViewOK' /\ Kept'
BY DEF Idle, Viewing, Viewed, ViewOK, Kept

LEMMA CloseIInv == ASSUME IInv, NEW c \in streams, CloseResponse(c) PROVE IInv'
<1>1. PICK t : t = pop(Now, c)
  OBVIOUS
<1>2. /\ Idle /\ streams' = streams \ {c} /\ cv' = t.cv /\ ctx' = t.ctx
      /\ UNCHANGED <<made, preserve_context, _new_contexts, _context_stack, calls, own, cookie,
                     txn, written, tangled, mixed, overlapped>>
  BY <1>1 DEF CloseResponse, Becomes, client, misuse
<1>3. /\ ~Viewing /\ ~Viewing' /\ Viewed = {} /\ Viewed' = {} /\ Idle' /\ ViewOK' /\ Kept'
  BY <1>2, IdleFacts
<1>4. /\ Now \in States /\ Now.cv = cv /\ Now.ctx = ctx /\ ~Now.refused
      /\ c \in Made /\ c \in Ctxs /\ own \in Seq(Ctxs)
  BY Types DEF IInv
<1>5. Popped(Now, c, t) /\ Keeps(Now, t) /\ t \in States
  BY <1>1, <1>4, PopFacts, PopKeeps DEF Popped
<1>6. /\ t.cv \in Seq(Ctxs) /\ t.ctx \in [Ctxs -> Contexts]
      /\ \A d \in Ctxs : d # c => t.ctx[d] = ctx[d]
      /\ \A d \in Ctxs : t.ctx[d].torn \in Nat /\ ctx[d].torn \in Nat
  BY <1>4, <1>5, StateTypes DEF Popped
<1>7. t.ctx[c].torn <= ctx[c].torn + 1
  <2>1. t.ctx[c].torn = ctx[c].torn \/ t.ctx[c].torn = ctx[c].torn + 1
    BY <1>4, <1>5 DEF Popped
  <2> QED
    BY <1>4, <1>6, <2>1
<1>8. /\ Made' = Made
      /\ Elems(_context_stack)' = Elems(_context_stack) /\ Elems(own)' = Elems(own)
      /\ Elems(txn)' = Elems(txn) /\ Elems(_new_contexts)' = Elems(_new_contexts)
  BY <1>2 DEF Made, Elems
<1>9. c \notin Elems(own) /\ c \notin Elems(txn)
  BY <1>4, Apart
<1>10. Typed' /\ Fresh' /\ Alive'
  <2>1. Typed'
    BY <1>2, <1>6 DEF IInv, Typed
  <2>2. Fresh'
    <3>1. \A d \in Ctxs \ Made : t.ctx[d] = ctx[d]
      BY <1>4, <1>6
    <3> QED
      BY <1>2, <1>3, <1>8, <3>1 DEF IInv, Fresh, Known
  <2>3. Alive'
    BY <1>2, <1>4, <1>5, <1>8, AliveStep DEF IInv, Becomes, Typed
  <2> QED
    BY <2>1, <2>2, <2>3
<1>11. Budget'
  <2>1. ASSUME NEW d \in Made PROVE t.ctx[d].torn + Due(d)' <= 2
    <3>1. ctx[d].torn + Due(d) <= 2 /\ d \in Ctxs
      BY Types DEF IInv, Budget
    <3>2. CASE d = c
      BY <1>2, <1>3, <1>6, <1>7, <1>8, <3>1, <3>2 DEF Due, Times
    <3>3. CASE d # c
      BY <1>2, <1>3, <1>6, <1>8, <3>1, <3>3 DEF Due, Times
    <3> QED
      BY <3>2, <3>3
  <2> QED
    BY <1>2, <1>8, <2>1 DEF Budget
<1>12. Lists' /\ Transaction'
  <2>1. \A d \in Elems(txn) : t.ctx[d] = ctx[d]
    BY <1>6, <1>9, Types DEF IInv
  <2> QED
    BY <1>2, <1>3, <1>8, <2>1 DEF IInv, Lists, Distinct, Transaction
<1>13. ASSUME ~tangled', ~mixed' PROVE Orderly'
  <2>1. Orderly
    BY <1>2, <1>13 DEF IInv
  <2>2. /\ streams = {c} /\ cv = Append(own, c)
        /\ _context_stack = <<>> \/ _context_stack = <<c>>
        /\ ctx[c].pushes = 1 + Len(_context_stack)
    BY <2>1 DEF Orderly
  <2>3. /\ \A d \in Elems(own) : t.ctx[d].pushes <= 1
        /\ \A d \in Elems(txn) : t.ctx[d].pushes = 0
    BY <1>6, <1>9, <2>1, Types DEF Orderly, IInv
  <2>4. \A d \in Elems(_new_contexts) : d # c => t.ctx[d].pushes = 0
    BY <1>6, <2>1, <2>2, Types DEF Orderly, IInv
  <2>5. cv # <<>> /\ Last(cv) = c /\ Front(cv) = own
    BY <1>4, <2>2, ElemsFacts, FrontAppend
  <2>6. ~Refuses(Now, c)
    BY <1>4, <2>5 DEF Refuses
  <2>7. /\ own \o <<>> = own /\ own \o <<c>> = cv /\ cv \o <<>> = cv /\ Elems(<<>>) = {}
        /\ Elems(<<c>>) = {c}
    <3>1. cv \in Seq(Ctxs)
      BY Types DEF IInv
    <3> QED
      BY <1>4, <2>2, <3>1, ConcatFacts, ElemsFacts
  <2>8. CASE _context_stack = <<>>
    <3>1. Len(<<>>) = 0
      OBVIOUS
    <3>2. ctx[c].pushes = 1
      BY <2>2, <2>8, <3>1
    <3>3. t.cv = own /\ t.ctx[c].pushes = 0
      BY <1>4, <1>5, <2>5, <2>6, <3>2 DEF Popped
    <3>4. \A d \in Elems(_new_contexts) : t.ctx[d].pushes = 0
      BY <2>4, <3>3
    <3>5. t.cv = own \o _context_stack \o <<>> /\ Elems(_context_stack) = {}
      BY <2>7, <2>8, <3>3
    <3> QED
      BY <1>2, <1>3, <1>8, <2>2, <2>3, <2>8, <3>4, <3>5 DEF Orderly
  <2>9. CASE _context_stack = <<c>>
    <3>1. Len(<<c>>) = 1 /\ <<c>> # <<>>
      OBVIOUS
    <3>2. ctx[c].pushes = 2 /\ ctx[c].pushes > 1 /\ ctx[c].pushes - 1 = 1
      BY <2>2, <2>9, <3>1
    <3>3. t.cv = cv /\ t.ctx[c].pushes = 1
      BY <1>4, <1>5, <2>6, <3>2 DEF Popped
    <3>4. _new_contexts = <<>>
      BY <2>9, <3>1 DEF IInv, Lists
    <3>5. t.cv = own \o _context_stack \o <<>>
      BY <2>7, <2>9, <3>3
    <3>6. \A d \in Elems(_context_stack) : t.ctx[d].pushes <= 1
      BY <2>7, <2>9, <3>3
    <3> QED
      BY <1>2, <1>3, <1>8, <2>2, <2>3, <2>7, <3>4, <3>5, <3>6 DEF Orderly
  <2> QED
    BY <2>2, <2>8, <2>9
<1>14. ~overlapped' => written' \subseteq cookie'
  BY <1>2 DEF IInv
<1> QED
  BY <1>3, <1>10, <1>11, <1>12, <1>13, <1>14 DEF IInv

LEMMA NextContext ==
    ASSUME IInv, made < MaxCtx, NEW c, c = made + 1
    PROVE  /\ c \in Ctxs /\ c \notin Made /\ 1..c = Made \cup {c} /\ c \in 0..MaxCtx
           /\ ctx[c].pushes = 0 /\ ctx[c].torn = 0
           /\ c \notin Elems(_new_contexts) /\ c \notin Elems(_context_stack)
           /\ c \notin Elems(own) /\ c \notin Elems(txn) /\ c \notin streams
<1>1. made \in Nat /\ MaxCtx \in Nat
  BY Types DEF IInv
<1>2. c \in 1..MaxCtx /\ c \notin 1..made /\ 1..c = (1..made) \cup {c} /\ c \in 0..MaxCtx
  BY <1>1
<1>3. c \in Ctxs /\ c \notin Made /\ 1..c = Made \cup {c} /\ c \in 0..MaxCtx
  BY <1>2 DEF Made, Ctxs
<1> QED
  BY <1>3, Types DEF IInv, Fresh

LEMMA PushOwnIInv == ASSUME IInv, PushOwn PROVE IInv'
<1>1. PICK c, t : c = made + 1 /\ t = push(Now, c)
  OBVIOUS
<1>2. /\ Idle /\ made < MaxCtx /\ made' = c /\ own' = Append(own, c)
      /\ cv' = t.cv /\ ctx' = t.ctx
      /\ tangled' = (tangled \/ _context_stack # <<>> \/ streams # {}) /\ mixed' = mixed
      /\ UNCHANGED <<preserve_context, _new_contexts, _context_stack, calls, streams, cookie,
                     txn, written, overlapped>>
  BY <1>1 DEF PushOwn, Becomes, Tangles, client
<1>3. /\ ~Viewing /\ ~Viewing' /\ Viewed = {} /\ Viewed' = {} /\ Idle' /\ ViewOK' /\ Kept'
  BY <1>2, IdleFacts
<1>4. /\ c \in Ctxs /\ c \notin Made /\ Made' = Made \cup {c} /\ c \in 0..MaxCtx
      /\ ctx[c].pushes = 0 /\ ctx[c].torn = 0
      /\ c \notin Elems(_new_contexts) /\ c \notin Elems(_context_stack)
      /\ c \notin Elems(own) /\ c \notin Elems(txn) /\ c \notin streams
  BY <1>1, <1>2, NextContext DEF Made
<1>5. /\ Now \in States /\ Now.cv = cv /\ Now.ctx = ctx /\ own \in Seq(Ctxs)
      /\ cv \in Seq(Ctxs)
  BY Types DEF IInv
<1>6. Pushed(Now, c, t) /\ t \in States
  BY <1>1, <1>4, <1>5, PushFacts DEF Pushed
<1>7. /\ t.cv = Append(cv, c) /\ t.ctx[c].pushes = 1
      /\ \A d \in Ctxs : d # c => t.ctx[d] = ctx[d]
      /\ \A d \in Ctxs : t.ctx[d].torn = ctx[d].torn
      /\ t.cv \in Seq(Ctxs) /\ t.ctx \in [Ctxs -> Contexts]
      /\ Elems(t.cv) = Elems(cv) \cup {c}
  <2>1. /\ t.cv = Append(cv, c) /\ t.ctx[c].pushes = 1
        /\ \A d \in Ctxs : d # c => t.ctx[d] = ctx[d]
        /\ \A d \in Ctxs : t.ctx[d].torn = ctx[d].torn
    BY <1>4, <1>5, <1>6 DEF Pushed
  <2>2. Elems(t.cv) = Elems(cv) \cup {c}
    <3>1. PICK w : w = Append(cv, c)
      OBVIOUS
    <3>2. Elems(w) = Elems(cv) \cup {c}
      BY <1>4, <1>5, <3>1, ElemsFacts
    <3>3. t.cv = w
      BY <2>1, <3>1
    <3> QED
      BY <3>2, <3>3
  <2>3. t.cv \in Seq(Ctxs) /\ t.ctx \in [Ctxs -> Contexts]
    BY <1>6, StateTypes
  <2> QED
    BY <2>1, <2>2, <2>3
<1>8. /\ Elems(_context_stack)' = Elems(_context_stack) /\ Elems(txn)' = Elems(txn)
      /\ Elems(_new_contexts)' = Elems(_new_contexts)
      /\ Elems(own)' = Elems(own) \cup {c} /\ own' \in Seq(Ctxs) /\ Distinct(own')
  <2>1. Elems(own') = Elems(own) \cup {c} /\ own' \in Seq(Ctxs)
    BY <1>2, <1>4, <1>5, ElemsFacts
  <2>2. Distinct(own')
    BY <1>2, <1>4, <1>5, DistinctAppend DEF IInv, Lists
  <2> QED
    BY <1>2, <2>1, <2>2 DEF Elems
<1>9. Typed'
  BY <1>2, <1>4, <1>7, <1>8 DEF IInv, Typed
<1>10. Fresh'
  BY <1>2, <1>3, <1>4, <1>7, <1>8 DEF IInv, Fresh, Known
<1>11. Alive'
  <2>1. \A d \in Made' : t.ctx[d].torn = 0 => d \in Elems(t.cv)
    BY <1>4, <1>7, Types DEF IInv, Alive
  <2> QED
    BY <1>2, <2>1 DEF Alive, Elems
<1>12. Budget'
  <2>1. ASSUME NEW d \in Made' PROVE t.ctx[d].torn + Due(d)' <= 2
    <3>1. CASE d = c
      BY <1>2, <1>3, <1>4, <1>7, <1>8, <3>1 DEF Due, Times
    <3>2. CASE d # c
      <4>1. d \in Made /\ t.ctx[d].torn = ctx[d].torn /\ ctx[d].torn + Due(d) <= 2
        BY <1>4, <1>7, <3>2, Types DEF IInv, Budget
      <4>2. Due(d)' = Due(d)
        BY <1>2, <1>3, <1>8, <3>2 DEF Due, Times
      <4> QED
        BY <4>1, <4>2
    <3> QED
      BY <3>1, <3>2
  <2> QED
    BY <1>2, <2>1 DEF Budget
<1>13. Lists' /\ Transaction'
  <2>1. \A d \in Elems(txn) : t.ctx[d] = ctx[d]
    BY <1>4, <1>7, Types DEF IInv
  <2> QED
    BY <1>2, <1>3, <1>8, <2>1 DEF IInv, Lists, Distinct, Transaction
<1>14. ASSUME ~tangled', ~mixed' PROVE Orderly'
  <2>1. Orderly /\ _context_stack = <<>> /\ streams = {}
    BY <1>2, <1>14 DEF IInv
  <2>2. own \o <<>> = own /\ own' \o <<>> = own' /\ Elems(<<>>) = {}
    BY <1>5, <1>8, ConcatFacts DEF Elems
  <2>3. cv = own
    BY <1>3, <2>1, <2>2 DEF Orderly
  <2>4. t.cv = own' \o _context_stack \o <<>>
    BY <1>2, <1>7, <2>1, <2>2, <2>3
  <2>5. \A d \in Elems(own) \cup Elems(txn) \cup Elems(_new_contexts) : t.ctx[d] = ctx[d]
    BY <1>4, <1>7, Types DEF IInv
  <2>6. /\ \A d \in Elems(own)' : t.ctx[d].pushes <= 1
        /\ \A d \in Elems(_new_contexts) : t.ctx[d].pushes = 0
        /\ \A d \in Elems(txn) : t.ctx[d].pushes = 0
    BY <1>7, <1>8, <2>1, <2>5 DEF Orderly
  <2> QED
    BY <1>2, <1>3, <1>8, <2>1, <2>2, <2>4, <2>6 DEF Orderly
<1>15. ~overlapped' => written' \subseteq cookie'
  BY <1>2 DEF IInv
<1> QED
  BY <1>3, <1>9, <1>10, <1>11, <1>12, <1>13, <1>14, <1>15 DEF IInv

LEMMA PopOwnIInv == ASSUME IInv, PopOwn PROVE IInv'
<1>1. PICK c, t : c = Last(own) /\ t = pop(Now, c)
  OBVIOUS
<1>2. /\ Idle /\ own # <<>> /\ own' = Front(own) /\ cv' = t.cv /\ ctx' = t.ctx
      /\ tangled' = (tangled \/ _context_stack # <<>> \/ streams # {}) /\ mixed' = mixed
      /\ UNCHANGED <<made, preserve_context, _new_contexts, _context_stack, calls, streams,
                     cookie, txn, written, overlapped>>
  BY <1>1 DEF PopOwn, Becomes, Tangles, client
<1>3. /\ ~Viewing /\ ~Viewing' /\ Viewed = {} /\ Viewed' = {} /\ Idle' /\ ViewOK' /\ Kept'
  BY <1>2, IdleFacts
<1>4. /\ Now \in States /\ Now.cv = cv /\ Now.ctx = ctx /\ own \in Seq(Ctxs)
      /\ cv \in Seq(Ctxs) /\ Distinct(own)
  BY Types DEF IInv, Lists
<1>5. PICK n : n = Len(own)
  OBVIOUS
<1>6. /\ n \in Nat \ {0} /\ DOMAIN own = 1..n /\ c = own[n] /\ c \in Ctxs /\ c \in Elems(own)
      /\ own' \in Seq(Ctxs) /\ Elems(own) = Elems(own') \cup {c} /\ Len(own') = n - 1
  <2>1. DOMAIN own = 1..Len(own)
    BY <1>4, ElemAt
  <2> QED
    BY <1>1, <1>2, <1>4, <1>5, <2>1, FrontFacts DEF Last
<1>7. /\ DOMAIN own' = 1..(n - 1) /\ \A k \in 1..(n - 1) : own'[k] = own[k]
  <2>1. PICK s, k : s = own /\ n = k + 1 /\ k \in Nat
    <3>1. n - 1 \in Nat /\ n = (n - 1) + 1
      BY <1>6
    <3> QED
      BY <3>1
  <2>2. n - 1 = k /\ Len(s) = k + 1 /\ s \in Seq(Ctxs)
    BY <1>4, <1>5, <1>6, <2>1
  <2>3. PICK u : u = SubSeq(s, 1, k)
    OBVIOUS
  <2>4. DOMAIN u = 1..k /\ \A i \in 1..k : u[i] = s[i]
    BY <2>1, <2>2, <2>3
  <2>5. own' = u
    BY <1>2, <1>5, <2>1, <2>2, <2>3 DEF Front
  <2> QED
    BY <2>1, <2>2, <2>4, <2>5
<1>8. c \notin Elems(own') /\ Distinct(own')
  <2>1. \A k \in 1..(n - 1) : k \in 1..n /\ n \in 1..n /\ k # n
    BY <1>6
  <2>2. \A i, j \in 1..n : own[i] = own[j] => i = j
    BY <1>4, <1>6 DEF Distinct
  <2>3. \A k \in 1..(n - 1) : own'[k] # c
    BY <1>6, <1>7, <2>1, <2>2
  <2>4. \A i, j \in 1..(n - 1) : own'[i] = own'[j] => i = j
    BY <1>7, <2>1, <2>2
  <2> QED
    BY <1>7, <2>3, <2>4 DEF Elems, Distinct
<1>9. /\ c \in Made /\ ctx[c].torn = 0 /\ c \notin Elems(_new_contexts)
      /\ c \notin Elems(_context_stack) /\ c \notin streams /\ c \notin Elems(txn)
  <2>1. c \in Made
    BY <1>6, Types DEF IInv
  <2> QED
    BY <1>6, <2>1, Apart
<1>10. Popped(Now, c, t) /\ Keeps(Now, t) /\ t \in States
  BY <1>1, <1>4, <1>6, PopFacts, PopKeeps DEF Popped
<1>11. /\ t.cv \in Seq(Ctxs) /\ t.ctx \in [Ctxs -> Contexts]
       /\ \A d \in Ctxs : d # c => t.ctx[d] = ctx[d]
       /\ \A d \in Ctxs : t.ctx[d].torn \in Nat /\ ctx[d].torn \in Nat
  BY <1>4, <1>10, StateTypes DEF Popped
<1>12. t.ctx[c].torn <= 1
  <2>1. t.ctx[c].torn = ctx[c].torn \/ t.ctx[c].torn = ctx[c].torn + 1
    BY <1>4, <1>6, <1>10 DEF Popped
  <2> QED
    BY <1>9, <2>1
<1>13. /\ Made' = Made
       /\ Elems(_context_stack)' = Elems(_context_stack) /\ Elems(own)' = Elems(own')
       /\ Elems(txn)' = Elems(txn) /\ Elems(_new_contexts)' = Elems(_new_contexts)
       /\ Elems(own)' \subseteq Elems(own)
  BY <1>2, <1>6 DEF Made, Elems
<1>14. Typed'
  BY <1>2, <1>6, <1>11 DEF IInv, Typed
<1>15. Fresh'
  <2>1. \A d \in Ctxs \ Made : t.ctx[d] = ctx[d]
    BY <1>9, <1>11
  <2> QED
    BY <1>2, <1>3, <1>13, <2>1 DEF IInv, Fresh, Known
<1>16. Alive'
  BY <1>2, <1>4, <1>10, <1>13, AliveStep DEF IInv, Becomes, Typed
<1>17. Budget'
  <2>1. ASSUME NEW d \in Made PROVE t.ctx[d].torn + Due(d)' <= 2
    <3>1. ctx[d].torn + Due(d) <= 2 /\ d \in Ctxs /\ ctx[d].torn \in Nat
      BY <1>11, Types DEF IInv, Budget
    <3>2. CASE d = c
      <4>1. Due(d)' = 0
        BY <1>2, <1>3, <1>8, <1>9, <1>13, <3>2 DEF Due, Times
      <4> QED
        BY <1>11, <1>12, <3>1, <3>2, <4>1
    <3>3. CASE d # c
      <4>1. t.ctx[d] = ctx[d] /\ (d \in Elems(own)' <=> d \in Elems(own))
        BY <1>6, <1>11, <1>13, <3>1, <3>3
      <4>2. Due(d)' = Due(d)
        BY <1>2, <1>3, <1>13, <4>1 DEF Due, Times
      <4> QED
        BY <3>1, <4>1, <4>2
    <3> QED
      BY <3>2, <3>3
  <2> QED
    BY <1>2, <1>13, <2>1 DEF Budget
<1>18. Lists' /\ Transaction'
  <2>1. \A d \in Elems(txn) : t.ctx[d] = ctx[d]
    BY <1>9, <1>11, Types DEF IInv
  <2> QED
    BY <1>2, <1>3, <1>8, <1>13, <2>1 DEF IInv, Lists, Distinct, Transaction
<1>19. ASSUME ~tangled', ~mixed' PROVE Orderly'
  <2>1. Orderly /\ _context_stack = <<>> /\ streams = {}
    BY <1>2, <1>19 DEF IInv
  <2>2. own \o <<>> = own /\ own' \o <<>> = own' /\ Elems(<<>>) = {}
    BY <1>4, <1>6, ConcatFacts DEF Elems
  <2>3. cv = own
    BY <1>3, <2>1, <2>2 DEF Orderly
  <2>4. ~Refuses(Now, c)
    BY <1>1, <1>2, <1>4, <2>3 DEF Refuses
  <2>5. ~(ctx[c].pushes > 1)
    <3>1. ctx[c].pushes <= 1 /\ ctx[c].pushes \in Nat
      BY <1>6, <2>1, Types DEF Orderly, IInv
    <3> QED
      BY <3>1
  <2>6. t.cv = own'
    BY <1>2, <1>4, <1>10, <2>3, <2>4, <2>5 DEF Popped
  <2>7. t.cv = own' \o _context_stack \o <<>>
    BY <2>1, <2>2, <2>6
  <2>8. \A d \in Elems(own') \cup Elems(txn) \cup Elems(_new_contexts) :
           t.ctx[d] = ctx[d] /\ d \in Ctxs
    BY <1>6, <1>8, <1>9, <1>11, Types DEF IInv
  <2>9. /\ \A d \in Elems(own)' : t.ctx[d].pushes <= 1
        /\ \A d \in Elems(_new_contexts) : t.ctx[d].pushes = 0
        /\ \A d \in Elems(txn) : t.ctx[d].pushes = 0
    BY <1>6, <1>13, <2>1, <2>8 DEF Orderly
  <2> QED
    BY <1>2, <1>3, <1>13, <2>1, <2>2, <2>7, <2>9 DEF Orderly
<1>20. ~overlapped' => written' \subseteq cookie'
  BY <1>2 DEF IInv
<1> QED
  BY <1>3, <1>14, <1>15, <1>16, <1>17, <1>18, <1>19, <1>20 DEF IInv

\* A context that is pushed and popped at once: torn down, and active no more.
LEMMA PushPop ==
    ASSUME NEW s \in States, NEW c \in Ctxs, NEW data \in SUBSET Ctxs, s.ctx[c].pushes = 0,
           NEW t, t = pop(push(Stored(s, c, data), c), c)
    PROVE  /\ t \in States /\ t.cv = s.cv
           /\ \A d \in Ctxs : d # c => t.ctx[d] = s.ctx[d]
           /\ t.ctx[c].pushes = 0 /\ t.ctx[c].torn = s.ctx[c].torn + 1
           /\ t.ctx[c].sess = data
<1>1. PICK u : u = push(Stored(s, c, data), c)
  OBVIOUS
<1>2. PushedNew(s, c, data, u)
  BY <1>1, PushNew
<1>3. u \in States /\ s.cv \in Seq(Ctxs) /\ t = pop(u, c)
  BY <1>1, <1>2, StateTypes DEF PushedNew
<1>4. Popped(u, c, t)
  BY <1>3, PopFacts
<1>5. u.cv # <<>> /\ Last(u.cv) = c /\ Front(u.cv) = s.cv /\ u.ctx[c].pushes = 1
  BY <1>2, <1>3, ElemsFacts, FrontAppend DEF PushedNew
<1>6. ~Refuses(u, c) /\ ~(u.ctx[c].pushes > 1)
  BY <1>5 DEF Refuses
<1> QED
  BY <1>2, <1>4, <1>5, <1>6 DEF PushedNew, Popped

LEMMA EnterTransactionIInv == ASSUME IInv, EnterTransaction PROVE IInv'
<1>1. PICK c, t : c = made + 1 /\ t = pop(push(Stored(Now, c, cookie), c), c)
  OBVIOUS
<1>2. /\ Idle /\ txn = <<>> /\ made < MaxCtx /\ made' = c /\ txn' = <<c>>
      /\ cv' = t.cv /\ ctx' = t.ctx
      /\ UNCHANGED <<preserve_context, _new_contexts, _context_stack, calls, streams, own,
                     cookie, written, tangled, mixed, overlapped>>
  BY <1>1 DEF EnterTransaction, Becomes, client, misuse, Stored
<1>3. /\ ~Viewing /\ ~Viewing' /\ Viewed = {} /\ Viewed' = {} /\ Idle' /\ ViewOK' /\ Kept'
  BY <1>2, IdleFacts
<1>4. /\ c \in Ctxs /\ c \notin Made /\ Made' = Made \cup {c} /\ c \in 0..MaxCtx
      /\ ctx[c].pushes = 0 /\ ctx[c].torn = 0
      /\ c \notin Elems(_new_contexts) /\ c \notin Elems(_context_stack)
      /\ c \notin Elems(own) /\ c \notin Elems(txn) /\ c \notin streams
  BY <1>1, <1>2, NextContext DEF Made
<1>5. /\ Now \in States /\ Now.cv = cv /\ Now.ctx = ctx /\ cookie \in SUBSET Ctxs
  BY Types DEF IInv, Typed
<1>6. /\ t \in States /\ t.cv = cv /\ \A d \in Ctxs : d # c => t.ctx[d] = ctx[d]
      /\ t.ctx[c].pushes = 0 /\ t.ctx[c].torn = 1 /\ t.ctx[c].sess = cookie
  BY <1>1, <1>4, <1>5, PushPop
<1>7. t.cv \in Seq(Ctxs) /\ t.ctx \in [Ctxs -> Contexts]
  BY <1>6, StateTypes
<1>8. /\ Elems(_context_stack)' = Elems(_context_stack) /\ Elems(own)' = Elems(own)
      /\ Elems(_new_contexts)' = Elems(_new_contexts)
      /\ txn' \in Seq(Ctxs) /\ Elems(txn)' = {c} /\ Elems(txn) = {}
  <2>1. <<c>> \in Seq(Ctxs) /\ Elems(<<c>>) = {c}
    <3>1. own \in Seq(Ctxs)
      BY Types DEF IInv
    <3> QED
      BY <1>4, <3>1, ElemsFacts
  <2>2. Elems(txn') = {c} /\ txn' \in Seq(Ctxs)
    BY <1>2, <2>1
  <2> QED
    BY <1>2, <2>2 DEF Elems
<1>9. Typed'
  BY <1>2, <1>4, <1>7, <1>8 DEF IInv, Typed
<1>10. Fresh'
  BY <1>2, <1>3, <1>4, <1>6, <1>8 DEF IInv, Fresh, Known
<1>11. Alive'
  <2>1. ASSUME NEW d \in Made', t.ctx[d].torn = 0 PROVE d \in Elems(t.cv)
    <3>1. d # c /\ d \in Made
      BY <1>4, <1>6, <2>1
    <3>2. d \in Ctxs
      BY <3>1, Types DEF IInv
    <3>3. ctx[d].torn = 0
      BY <1>6, <2>1, <3>1, <3>2
    <3> QED
      BY <1>6, <3>1, <3>3 DEF IInv, Alive
  <2> QED
    BY <1>2, <2>1 DEF Alive, Elems
<1>12. Budget'
  <2>1. ASSUME NEW d \in Made' PROVE t.ctx[d].torn + Due(d)' <= 2
    <3>1. CASE d = c
      BY <1>2, <1>3, <1>4, <1>6, <1>8, <3>1 DEF Due, Times
    <3>2. CASE d # c
      <4>1. d \in Made /\ t.ctx[d].torn = ctx[d].torn /\ ctx[d].torn + Due(d) <= 2
        BY <1>4, <1>6, <3>2, Types DEF IInv, Budget
      <4>2. Due(d)' = Due(d)
        BY <1>2, <1>3, <1>8, <3>2 DEF Due, Times
      <4> QED
        BY <4>1, <4>2
    <3> QED
      BY <3>1, <3>2
  <2> QED
    BY <1>2, <2>1 DEF Budget
<1>13. Lists' /\ Transaction'
  BY <1>2, <1>3, <1>6, <1>8 DEF IInv, Lists, Distinct, Transaction
<1>14. ASSUME ~tangled', ~mixed' PROVE Orderly'
  <2>1. Orderly
    BY <1>2, <1>14 DEF IInv
  <2>2. \A d \in Ctxs : t.ctx[d].pushes = ctx[d].pushes
    BY <1>4, <1>6
  <2>3. Elems(own) \cup Elems(_new_contexts) \cup Elems(_context_stack) \cup streams \subseteq Ctxs
    BY Types DEF IInv
  <2>4. /\ \A d \in Elems(own) : t.ctx[d].pushes <= 1
        /\ \A d \in Elems(_new_contexts) \ streams : t.ctx[d].pushes = 0
        /\ \A d \in {c} : t.ctx[d].pushes = 0
    BY <1>6, <2>1, <2>2, <2>3 DEF Orderly
  <2>5. CASE streams = {}
    <3>1. cv = own \o _context_stack \o <<>>
          /\ \A d \in Elems(_context_stack) : t.ctx[d].pushes <= 1
      BY <1>3, <2>1, <2>2, <2>3, <2>5 DEF Orderly
    <3> QED
      BY <1>2, <1>3, <1>6, <1>8, <2>4, <2>5, <3>1 DEF Orderly
  <2>6. CASE streams # {}
    <3>1. PICK d \in streams :
             /\ streams = {d} /\ cv = Append(own, d) /\ d \notin Elems(own)
             /\ _context_stack = <<>> \/ _context_stack = <<d>>
             /\ ctx[d].pushes = 1 + Len(_context_stack)
      BY <2>1, <2>6 DEF Orderly
    <3>2. t.ctx[d].pushes = 1 + Len(_context_stack)
      BY <2>2, <2>3, <3>1
    <3> QED
      BY <1>2, <1>3, <1>6, <1>8, <2>4, <2>6, <3>1, <3>2 DEF Orderly
  <2> QED
    BY <2>5, <2>6
<1>15. ~overlapped' => written' \subseteq cookie'
  BY <1>2 DEF IInv
<1> QED
  BY <1>3, <1>9, <1>10, <1>11, <1>12, <1>13, <1>14, <1>15 DEF IInv

LEMMA LeaveTransactionIInv ==
    ASSUME IInv, NEW raises \in BOOLEAN, LeaveTransaction(raises) PROVE IInv'
<1>1. PICK c, data : c = txn[1] /\ data = ctx[c].sess \cup {c}
  OBVIOUS
<1>2. /\ Idle /\ txn # <<>> /\ txn' = <<>>
      /\ IF raises THEN UNCHANGED <<cv, ctx, cookie, written>>
         ELSE /\ cookie' = data /\ written' = written \cup {c}
              /\ Becomes(pop(push(Stored(Now, c, data), c), c))
      /\ UNCHANGED <<made, preserve_context, _new_contexts, _context_stack, calls, streams, own,
                     tangled, mixed, overlapped>>
  BY <1>1 DEF LeaveTransaction, client, misuse, Stored
<1>3. /\ ~Viewing /\ ~Viewing' /\ Viewed = {} /\ Viewed' = {} /\ Idle' /\ ViewOK' /\ Kept'
  BY <1>2, IdleFacts
<1>4. c \in Elems(txn) /\ txn \in Seq(Ctxs)
  <2>1. PICK s : s = txn
    OBVIOUS
  <2>2. s \in Seq(Ctxs) /\ s # <<>>
    BY <1>2, <2>1, Types DEF IInv
  <2>3. Len(s) \in Nat \ {0} /\ DOMAIN s = 1..Len(s)
    BY <2>2, FrontFacts, ElemAt
  <2>4. 1 \in 1..Len(s)
    BY <2>3
  <2> QED
    BY <1>1, <2>1, <2>2, <2>3, <2>4 DEF Elems
<1>5. /\ Now \in States /\ Now.cv = cv /\ Now.ctx = ctx /\ c \in Made /\ c \in Ctxs
      /\ ctx[c].torn = 1 /\ c \notin Elems(_new_contexts) /\ c \notin Elems(_context_stack)
      /\ c \notin streams /\ c \notin Elems(own) /\ data \in SUBSET Ctxs
  <2>1. c \in Made /\ c \in Ctxs /\ Now \in States /\ Now.cv = cv /\ Now.ctx = ctx
    BY <1>4, Types DEF IInv
  <2>2. ctx[c] \in Contexts
    BY <2>1, Types DEF IInv
  <2>3. data \in SUBSET Ctxs
    BY <1>1, <2>1, <2>2 DEF Contexts
  <2> QED
    BY <1>4, <2>1, <2>3, Apart
<1>6. PICK t : /\ t \in States /\ cv' = t.cv /\ ctx' = t.ctx
               /\ Keeps(Stored(Now, c, data), t) \/ t = Now
               /\ \A d \in Ctxs : d # c => t.ctx[d] = ctx[d]
               /\ t.ctx[c].torn \in {1, 2}
               /\ ctx[c].pushes = 0 => t.cv = cv /\ t.ctx[c].pushes = 0
  <2>1. CASE raises
    BY <1>2, <1>5, <2>1
  <2>2. CASE ~raises
    <3>1. PICK s, u, t : /\ s = Stored(Now, c, data) /\ u = push(s, c) /\ t = pop(u, c)
      OBVIOUS
    <3>2. StoredAs(Now, c, data, s)
      BY <1>5, <3>1, StoredFacts
    <3>3. Pushed(s, c, u) /\ Keeps(s, u)
      BY <1>5, <3>1, <3>2, PushFacts, PushKeeps DEF StoredAs
    <3>4. Popped(u, c, t) /\ Keeps(u, t)
      BY <1>5, <3>1, <3>3, PopFacts, PopKeeps DEF Pushed
    <3>5. s \in States /\ u \in States /\ t \in States
      BY <3>2, <3>3, <3>4 DEF StoredAs, Pushed, Popped
    <3>6. Keeps(s, t)
      BY <3>3, <3>4, <3>5, KeepsAll
    <3>7. \A d \in Ctxs : d # c => t.ctx[d] = ctx[d]
      BY <1>5, <3>2, <3>3, <3>4 DEF StoredAs, Pushed, Popped
    <3>8. u.ctx[c].torn = 1
      BY <1>5, <3>2, <3>3 DEF StoredAs, Pushed
    <3>9. t.ctx[c].torn \in {1, 2}
      <4>1. t.ctx[c].torn = u.ctx[c].torn \/ t.ctx[c].torn = u.ctx[c].torn + 1
        BY <1>5, <3>4 DEF Popped
      <4> QED
        BY <3>8, <4>1
    <3>10. ASSUME ctx[c].pushes = 0 PROVE t.cv = cv /\ t.ctx[c].pushes = 0
      BY <1>5, <3>1, <3>10, PushPop
    <3>11. cv' = t.cv /\ ctx' = t.ctx
      BY <1>2, <2>2, <3>1 DEF Becomes
    <3> QED
      BY <3>1, <3>5, <3>6, <3>7, <3>9, <3>10, <3>11
  <2> QED
    BY <2>1, <2>2
<1>7. t.cv \in Seq(Ctxs) /\ t.ctx \in [Ctxs -> Contexts]
  BY <1>6, StateTypes
<1>8. /\ Elems(_context_stack)' = Elems(_context_stack) /\ Elems(own)' = Elems(own)
      /\ Elems(_new_contexts)' = Elems(_new_contexts) /\ Elems(txn)' = {} /\ Made' = Made
  BY <1>2 DEF Elems, Made
<1>9. Typed'
  <2>1. cookie' \subseteq Ctxs
    BY <1>2, <1>5 DEF IInv, Typed
  <2>2. <<>> \in Seq(Ctxs)
    OBVIOUS
  <2> QED
    BY <1>2, <1>6, <1>7, <2>1, <2>2 DEF IInv, Typed
<1>10. Fresh'
  <2>1. \A d \in Ctxs \ Made : t.ctx[d] = ctx[d]
    BY <1>5, <1>6
  <2> QED
    BY <1>2, <1>3, <1>6, <1>8, <2>1 DEF IInv, Fresh, Known
<1>11. Alive'
  <2>1. CASE t = Now
    BY <1>5, <1>6, <1>8, <2>1 DEF IInv, Alive, Elems
  <2>2. CASE Keeps(Stored(Now, c, data), t)
    <3>1. PICK s : s = Stored(Now, c, data)
      OBVIOUS
    <3>2. s.cv = cv /\ \A d \in Ctxs : s.ctx[d].torn = ctx[d].torn
      BY <1>5, <3>1, StoredFacts DEF StoredAs
    <3>3. Becomes(t) /\ made' \in 0..MaxCtx /\ Made' \ Made = {}
      BY <1>2, <1>6, <1>8 DEF Becomes, IInv, Typed
    <3>4. \A d \in Made : s.ctx[d].torn = ctx[d].torn
      BY <3>2, Types DEF IInv
    <3> QED
      BY <2>2, <3>1, <3>2, <3>3, <3>4, AliveStep DEF IInv
  <2> QED
    BY <1>6, <2>1, <2>2
<1>12. Budget'
  <2>1. ASSUME NEW d \in Made PROVE t.ctx[d].torn + Due(d)' <= 2
    <3>1. CASE d = c
      BY <1>2, <1>3, <1>5, <1>6, <1>8, <3>1 DEF Due, Times
    <3>2. CASE d # c
      <4>1. t.ctx[d] = ctx[d] /\ ctx[d].torn + Due(d) <= 2 /\ ctx[d].torn \in Nat
        BY <1>6, <3>2, Types DEF IInv, Budget
      <4> QED
        BY <1>2, <1>3, <1>8, <4>1 DEF Due, Times
    <3> QED
      BY <3>1, <3>2
  <2> QED
    BY <1>2, <1>6, <1>8, <2>1 DEF Budget
<1>13. Lists' /\ Transaction'
  BY <1>2, <1>3, <1>8 DEF IInv, Lists, Distinct, Transaction
<1>14. ASSUME ~tangled', ~mixed' PROVE Orderly'
  <2>1. Orderly
    BY <1>2, <1>14 DEF IInv
  <2>2. ctx[c].pushes = 0
    BY <1>4, <2>1 DEF Orderly
  <2>3. t.cv = cv /\ \A d \in Ctxs : t.ctx[d].pushes = ctx[d].pushes
    BY <1>6, <2>2
  <2>4. Elems(own) \cup Elems(_new_contexts) \cup Elems(_context_stack) \cup streams \subseteq Ctxs
    BY Types DEF IInv
  <2>5. /\ \A d \in Elems(own) : t.ctx[d].pushes <= 1
        /\ \A d \in Elems(_new_contexts) \ streams : t.ctx[d].pushes = 0
    BY <2>1, <2>3, <2>4 DEF Orderly
  <2>6. CASE streams = {}
    <3>1. cv = own \o _context_stack \o <<>>
          /\ \A d \in Elems(_context_stack) : t.ctx[d].pushes <= 1
      BY <1>3, <2>1, <2>3, <2>4, <2>6 DEF Orderly
    <3> QED
      BY <1>2, <1>3, <1>6, <1>8, <2>3, <2>5, <2>6, <3>1 DEF Orderly
  <2>7. CASE streams # {}
    <3>1. PICK d \in streams :
             /\ streams = {d} /\ cv = Append(own, d) /\ d \notin Elems(own)
             /\ _context_stack = <<>> \/ _context_stack = <<d>>
             /\ ctx[d].pushes = 1 + Len(_context_stack)
      BY <2>1, <2>7 DEF Orderly
    <3>2. t.ctx[d].pushes = 1 + Len(_context_stack)
      BY <2>3, <2>4, <3>1
    <3> QED
      BY <1>2, <1>3, <1>6, <1>8, <2>3, <2>5, <2>7, <3>1, <3>2 DEF Orderly
  <2> QED
    BY <2>6, <2>7
<1>15. ~overlapped' => written' \subseteq cookie'
  <2>1. ~overlapped => ctx[c].sess = cookie /\ written \subseteq cookie
    BY <1>4 DEF IInv, Transaction
  <2> QED
    BY <1>1, <1>2, <2>1
<1> QED
  BY <1>3, <1>9, <1>10, <1>11, <1>12, <1>13, <1>14, <1>15 DEF IInv

LEMMA StutterIInv == ASSUME IInv, UNCHANGED vars PROVE IInv'
<1>1. Typed' /\ Fresh' /\ Alive' /\ Budget'
  BY DEF vars, client, misuse, IInv, Typed, Fresh, Known, Alive, Budget, Due, Made, Elems,
         Viewed, Viewing, Idle, Call
<1>2. Lists' /\ ViewOK' /\ Kept' /\ Transaction'
  BY DEF vars, client, misuse, IInv, Lists, Distinct, ViewOK, Kept, Transaction, Elems,
         Viewing, Idle, Call
<1>3. ~tangled' /\ ~mixed' => Orderly'
  BY DEF vars, client, misuse, IInv, Orderly, Elems, Viewing, Idle, Call
<1> QED
  BY <1>1, <1>2, <1>3 DEF vars, client, misuse, IInv

LEMMA NextIInv == ASSUME IInv, [Next]_vars PROVE IInv'
<1>1. ASSUME Request PROVE IInv'
  BY <1>1, OpenIInv, FollowIInv, RaiseIInv, ReturnIInv, RedirectIInv, AnswerIInv DEF Request
<1> QED
  BY <1>1, EnterIInv, ExitIInv, PushOwnIInv, PopOwnIInv, CloseIInv, EnterTransactionIInv,
     LeaveTransactionIInv, StutterIInv DEF Next

\* The invariant holds in every state the client reaches.
THEOREM Invariant == Spec => []IInv
BY InitIInv, NextIInv, PTL DEF Spec

-----------------------------------------------------------------------------
(* What follows for the test. *)

\* Once the preserved contexts and the streamed responses are closed, the contexts that
\* are active are those of the test's fixtures: FlaskClient.open, __enter__, __exit__
\* and session_transaction leave none behind.
THEOREM ClientLeavesFixtures == Spec => []FixturesRemain
<1>1. ASSUME IInv PROVE FixturesRemain
  <2>1. SUFFICES ASSUME ~tangled, ~mixed, Quiet PROVE cv = own
    BY DEF FixturesRemain
  <2>2. Orderly /\ Idle /\ _context_stack = <<>> /\ streams = {} /\ ~Viewing
    BY <1>1, <2>1 DEF IInv, Quiet, Viewing
  <2>3. own \in Seq(Ctxs) /\ own \o <<>> = own
    BY <1>1, Types DEF IInv
  <2> QED
    BY <2>2, <2>3 DEF Orderly
<1> QED
  BY <1>1, Invariant, PTL

\* Every context that is not active any more was torn down, once or twice.
THEOREM TornOnceOrTwice == Spec => []TornAtMostTwice
<1>1. ASSUME IInv PROVE TornAtMostTwice
  <2>1. ASSUME NEW c \in Made PROVE ctx[c].torn <= 2 /\ (ctx[c].torn = 0 => c \in Elems(cv))
    BY <1>1, Apart DEF IInv, Alive
  <2> QED
    BY <2>1 DEF TornAtMostTwice, Made
<1> QED
  BY <1>1, Invariant, PTL

\* What one request or session transaction stored is not lost by the next one.
THEOREM NoWriteLost == Spec => []WritesAdd
<1>1. IInv => WritesAdd
  BY DEF IInv, WritesAdd
<1> QED
  BY <1>1, Invariant, PTL

\* The session the test sees after a request in a client block is the cookie's: the
\* context that FlaskClient.open pushes again last is the last request's.
THEOREM SessionIsShown == Spec => SessionShown
<1>1. ASSUME IInv, Return, calls' = <<>>, preserve_context, streams = {}
      PROVE  ctx'[Last(cv')].sess = cookie
  <2>1. PICK t : t = EnterAll(Now, _new_contexts)
    OBVIOUS
  <2>2. cv' = t.cv /\ ctx' = t.ctx
    BY <1>1, <2>1 DEF Return, Reenter, Becomes
  <2>3. ~Viewing /\ ~Idle
    BY <1>1, ReturnCalls
  <2>4. IF _new_contexts # <<>>
        THEN ctx[Last(_new_contexts)].sess = cookie /\ ctx[Last(_new_contexts)].pushes = 0
        ELSE cv # <<>> /\ ctx[Last(cv)].sess = cookie
    BY <1>1, <2>3 DEF IInv, Kept
  <2>5. /\ Now \in States /\ Now.cv = cv /\ Now.ctx = ctx /\ _new_contexts \in Seq(Ctxs)
    BY <1>1, Types DEF IInv
  <2>6. CASE _new_contexts = <<>>
    BY <2>1, <2>2, <2>4, <2>5, <2>6, EnterNone
  <2>7. CASE _new_contexts # <<>>
    <3>1. Last(_new_contexts) \in Ctxs /\ Distinct(_new_contexts)
      BY <1>1, <2>5, <2>7, FrontFacts DEF IInv, Lists
    <3>2. Entered(Now, _new_contexts, t)
      BY <2>1, <2>5, EnteredKeeps
    <3>3. Last(t.cv) = Last(_new_contexts)
      BY <2>4, <2>5, <2>7, <3>1, <3>2 DEF Entered
    <3>4. t.ctx[Last(_new_contexts)].sess = ctx[Last(_new_contexts)].sess
      BY <2>5, <3>1, <3>2 DEF Entered, Keeps
    <3> QED
      BY <2>2, <2>4, <2>7, <3>3, <3>4
  <2> QED
    BY <2>6, <2>7
<1>2. IInv /\ [Next]_vars =>
         [Return /\ calls' = <<>> /\ preserve_context /\ streams = {}
             => ctx'[Last(cv')].sess = cookie]_vars
  BY <1>1
<1> QED
  BY <1>2, Invariant, PTL DEF Spec, SessionShown
===============================================================================
