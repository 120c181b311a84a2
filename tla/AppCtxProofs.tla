---------------------------- MODULE AppCtxProofs ----------------------------
(***************************************************************************)
(* Theorems about AppCtx, for any number of workers, contexts and requests *)
(* and for callers of any discipline; one theorem is about the callers     *)
(* that end what they begin in order.                                      *)
(***************************************************************************)
EXTENDS AppCtxStack, Induction, SequenceTheorems, FiniteSetTheorems, TLAPS

USE DEF Live, Born, Top

-----------------------------------------------------------------------------
(* Typing. *)

\* A push keeps contexts and counts typed.
LEMMA PushType ==
    ASSUME TypeOK, NEW w \in Workers, NEW c \in Ctxs, Push(w, c)
    PROVE  /\ active' \in [Workers -> Ctxs \cup {NoCtx}]
           /\ token' \in [Ctxs -> Ctxs \cup {NoCtx, NoToken}]
           /\ pushCount' \in [Ctxs -> Nat]
           /\ pushed' \in [Ctxs -> Nat]
  <1>1. CASE Live(c)
    BY <1>1 DEF TypeOK, Push
  <1>2. CASE ~Live(c)
    <2>1. /\ token' = [token EXCEPT ![c] = active[w]]
          /\ active' = [active EXCEPT ![w] = c]
      BY <1>2 DEF Push
    <2>2. active[w] \in Ctxs \cup {NoCtx}
      BY DEF TypeOK
    <2>3. pushed' \in [Ctxs -> Nat] /\ pushCount' \in [Ctxs -> Nat]
      BY DEF TypeOK, Push
    <2> QED BY <2>1, <2>2, <2>3 DEF TypeOK
  <1> QED BY <1>1, <1>2

\* A live context has been pushed more often than popped, and the other way round.
CountsMatch == \A c \in Ctxs : Live(c) <=> pushCount[c] > 0

\* A pop, accepted or refused, keeps contexts and counts typed: it finds a positive count.
LEMMA PopType ==
    ASSUME TypeOK, CountsMatch, NEW w \in Workers, NEW c \in Ctxs,
           Pop(w, c) \/ PopRefused(w, c)
    PROVE  /\ active' \in [Workers -> Ctxs \cup {NoCtx}]
           /\ token' \in [Ctxs -> Ctxs \cup {NoCtx, NoToken}]
           /\ pushCount' \in [Ctxs -> Nat]
           /\ closed' \in SUBSET Reqs
           /\ lost' \in [Ctxs -> Nat]
           /\ torn' \in [Ctxs -> Nat]
  <1>1. CASE PopRefused(w, c)
    <2>1. lost' \in [Ctxs -> Nat]
      BY <1>1 DEF TypeOK, PopRefused
    <2> QED BY <1>1, <2>1 DEF TypeOK, PopRefused
  <1>2. CASE Pop(w, c)
    <2>1. pushCount[c] \in Nat /\ pushCount[c] > 0
      BY <1>2 DEF TypeOK, CountsMatch, Pop, PopAccepted
    <2>2. pushCount' \in [Ctxs -> Nat] /\ lost' \in [Ctxs -> Nat]
      BY <1>2, <2>1 DEF TypeOK, Pop
    <2>3. CASE pushCount[c] > 1
      BY <1>2, <2>2, <2>3 DEF TypeOK, Pop
    <2>4. CASE ~(pushCount[c] > 1)
      <3>1. active[w] = c /\ token[c] # NoToken
        BY <1>2 DEF Pop, PopAccepted
      <3>2. token[c] \in Ctxs \cup {NoCtx}
        BY <3>1 DEF TypeOK
      <3>3. /\ torn' = [torn EXCEPT ![c] = @ + 1]
            /\ closed' = closed \cup ({request[c]} \cap Reqs)
            /\ active' = [active EXCEPT ![w] = token[c]]
            /\ token' = [token EXCEPT ![c] = NoToken]
        BY <1>2, <2>4 DEF Pop, ClosedWith
      <3>4. torn' \in [Ctxs -> Nat] /\ closed' \in SUBSET Reqs
        BY <3>3 DEF TypeOK
      <3> QED BY <2>2, <3>2, <3>3, <3>4 DEF TypeOK
    <2> QED BY <2>3, <2>4
  <1> QED BY <1>1, <1>2

\* The innermost block of a worker is left to a context.
LEMMA LeaveType ==
    ASSUME TypeOK, NEW w \in Workers, frames[w] # << >>
    PROVE  /\ Leave(w) \in [Workers -> Seq(Ctxs)]
           /\ Len(frames[w]) \in Nat \ {0}
           /\ Top(w) \in Ctxs
           /\ Len(Leave(w)[w]) = Len(frames[w]) - 1
           /\ \A i \in 1..(Len(frames[w]) - 1) : Leave(w)[w][i] = frames[w][i]
           /\ \A v \in Workers \ {w} : Leave(w)[v] = frames[v]
  <1> DEFINE s == frames[w]
             n == Len(s) - 1
             t == SubSeq(s, 1, n)
  <1>1. s \in Seq(Ctxs)
    BY DEF TypeOK
  <1>2. Len(s) \in Nat \ {0} /\ s[Len(s)] \in Ctxs
    BY <1>1
  <1>3. n \in Int /\ \A i \in 1..n : s[i] \in Ctxs
    BY <1>1, <1>2
  <1>4. /\ t \in Seq(Ctxs)
        /\ Len(t) = IF 1 <= n THEN n - 1 + 1 ELSE 0
        /\ \A i \in 1..(n - 1 + 1) : t[i] = s[1 + i - 1]
    <2> HIDE DEF n, s
    <2> QED BY <1>3, SubSeqProperties DEF t
  <1>5. Len(t) = n /\ \A i \in 1..n : t[i] = s[i]
    BY <1>2, <1>4
  <1>6. Leave(w) = [frames EXCEPT ![w] = t]
    BY DEF Leave
  <1> HIDE DEF t, n
  <1> QED BY <1>2, <1>4, <1>5, <1>6 DEF TypeOK, n

-----------------------------------------------------------------------------
(* The links between the contextvars, the tokens and the counts. *)

Linked == /\ CountsMatch
          /\ \A c \in Ctxs : Live(c) <=> Holders(c) # {}
          /\ \A c \in Ctxs : \A x, y \in Holders(c) : x = y

\* What push and pop do is all that a step can do to the links.
LEMMA PushLinks ==
    ASSUME TypeOK, Linked, NEW w \in Workers, NEW c \in Ctxs, Push(w, c)
    PROVE  Linked'
  <1>1. CountsMatch'
    <2>1. pushCount' = [pushCount EXCEPT ![c] = @ + 1]
      BY DEF Push
    <2>2. \A d \in Ctxs : Live(d)' <=> Live(d) \/ d = c
      <3>1. CASE Live(c)
        BY <3>1 DEF Push
      <3>2. CASE ~Live(c)
        <4>1. token' = [token EXCEPT ![c] = active[w]]
          BY <3>2 DEF Push
        <4>2. active[w] # NoToken
          BY CtxAssumption DEF TypeOK
        <4> QED BY <4>1, <4>2 DEF TypeOK
      <3> QED BY <3>1, <3>2
    <2> QED BY <2>1, <2>2 DEF Linked, CountsMatch, TypeOK
  <1>2. CASE Live(c)
    <2>1. active' = active /\ token' = token
      BY <1>2 DEF Push
    <2> QED BY <1>1, <2>1 DEF Linked, Holders
  <1>3. CASE ~Live(c)
    <2>1. /\ token' = [token EXCEPT ![c] = active[w]]
          /\ active' = [active EXCEPT ![w] = c]
      BY <1>3 DEF Push
    <2>2. /\ \A v \in Workers : active[v] # c
          /\ \A d \in Ctxs : token[d] # c
      BY <1>3 DEF Linked, Holders
    <2>3. w \notin Ctxs /\ c \notin Workers /\ NoCtx # c /\ token[c] = NoToken
      BY <1>3, CtxAssumption
    <2>4. Holders(c)' = {w}
      BY <2>1, <2>2, <2>3 DEF Holders, TypeOK
    <2>5. ASSUME NEW d \in Ctxs, d # c
          PROVE  /\ active[w] # d => Holders(d)' = Holders(d)
                 /\ active[w] = d => Holders(d)' = (Holders(d) \ {w}) \cup {c}
      BY <2>1, <2>3, <2>5, CtxAssumption DEF Holders, TypeOK
    <2>6. ASSUME NEW d \in Ctxs, d # c
          PROVE  Live(d)' <=> Live(d)
      BY <2>1, <2>6 DEF TypeOK
    <2>7. Live(c)'
      BY <2>1, CtxAssumption DEF TypeOK
    <2>8. ASSUME NEW d \in Ctxs, d # c, active[w] = d
          PROVE  Holders(d) = {w}
      BY <2>8 DEF Linked, Holders
    <2>9. ASSUME NEW d \in Ctxs
          PROVE  /\ Live(d)' <=> Holders(d)' # {}
                 /\ \A x, y \in Holders(d)' : x = y
      <3>1. CASE d = c
        BY <3>1, <2>4, <2>7
      <3>2. CASE d # c /\ active[w] = d
        <4>1. Holders(d)' = {c}
          BY <3>2, <2>5, <2>8
        <4> QED BY <3>2, <4>1, <2>6, <2>8 DEF Linked
      <3>3. CASE d # c /\ active[w] # d
        BY <3>3, <2>5, <2>6 DEF Linked
      <3> QED BY <3>1, <3>2, <3>3
    <2> QED BY <1>1, <2>9 DEF Linked
  <1> QED BY <1>2, <1>3

\* A pop takes its context from the head of a list and restores the next one.
LEMMA PopLinks ==
    ASSUME TypeOK, Linked, NEW w \in Workers, NEW c \in Ctxs,
           Pop(w, c) \/ PopRefused(w, c)
    PROVE  Linked'
  <1>1. CASE PopRefused(w, c)
    BY <1>1 DEF PopRefused, Linked, CountsMatch, Holders
  <1>2. CASE Pop(w, c) /\ pushCount[c] > 1
    <2>1. active' = active /\ token' = token
      BY <1>2 DEF Pop
    <2>2. pushCount' = [pushCount EXCEPT ![c] = @ - 1]
      BY <1>2 DEF Pop
    <2>3. CountsMatch'
      BY <1>2, <2>1, <2>2 DEF Linked, CountsMatch, TypeOK
    <2> QED BY <2>1, <2>3 DEF Linked, Holders
  <1>3. CASE Pop(w, c) /\ ~(pushCount[c] > 1)
    <2>1. /\ token' = [token EXCEPT ![c] = NoToken]
          /\ active' = [active EXCEPT ![w] = token[c]]
          /\ pushCount' = [pushCount EXCEPT ![c] = @ - 1]
          /\ active[w] = c /\ Live(c)
      BY <1>3 DEF Pop, PopAccepted
    <2>2. /\ \A v \in Workers : active[v] = c => v = w
          /\ \A d \in Ctxs : token[d] # c
      BY <2>1, CtxAssumption DEF Linked, Holders
    <2>3. w \notin Ctxs /\ c \notin Workers /\ NoCtx # c /\ NoToken # c
      BY CtxAssumption
    <2>4. Holders(c)' = {}
      <3>1. token[c] # c
        BY <2>2
      <3> QED BY <2>1, <2>2, <2>3, <3>1 DEF Holders, TypeOK
    <2>5. ASSUME NEW d \in Ctxs, d # c
          PROVE  /\ token[c] # d => Holders(d)' = Holders(d)
                 /\ token[c] = d => Holders(d)' = (Holders(d) \ {c}) \cup {w}
      BY <2>1, <2>3, <2>5, CtxAssumption DEF Holders, TypeOK
    <2>6. ASSUME NEW d \in Ctxs, d # c
          PROVE  Live(d)' <=> Live(d)
      BY <2>1, <2>6 DEF TypeOK
    <2>7. ~Live(c)'
      BY <2>1 DEF TypeOK
    <2>8. ASSUME NEW d \in Ctxs, d # c, token[c] = d
          PROVE  Holders(d) = {c}
      BY <2>8 DEF Linked, Holders
    <2>9. CountsMatch'
      <3>1. pushCount[c] \in Nat
        BY DEF TypeOK
      <3>2. pushCount'[c] = pushCount[c] - 1
        BY <2>1 DEF TypeOK
      <3>3. ~(pushCount'[c] > 0)
        BY <1>3, <3>1, <3>2
      <3>4. \A d \in Ctxs : d # c => pushCount'[d] = pushCount[d]
        BY <2>1 DEF TypeOK
      <3> QED BY <2>6, <2>7, <3>3, <3>4 DEF Linked, CountsMatch
    <2>10. ASSUME NEW d \in Ctxs
           PROVE  /\ Live(d)' <=> Holders(d)' # {}
                  /\ \A x, y \in Holders(d)' : x = y
      <3>1. CASE d = c
        BY <3>1, <2>4, <2>7
      <3>2. CASE d # c /\ token[c] = d
        <4>1. Holders(d)' = {w}
          BY <3>2, <2>5, <2>8
        <4> QED BY <3>2, <4>1, <2>6, <2>8 DEF Linked
      <3>3. CASE d # c /\ token[c] # d
        BY <3>3, <2>5, <2>6 DEF Linked
      <3> QED BY <3>1, <3>2, <3>3
    <2> QED BY <2>9, <2>10 DEF Linked
  <1> QED BY <1>1, <1>2, <1>3

-----------------------------------------------------------------------------
(* The open blocks of a context, as a finite set of stack positions. *)

DepthOK == \A w \in Workers : Len(frames[w]) <= MaxDepth

\* A context is held by finitely many positions, before and after a step.
LEMMA HeldFinite ==
    ASSUME NEW c \in Ctxs
    PROVE  /\ IsFiniteSet(Held(c)) /\ Cardinality(Held(c)) \in Nat
           /\ IsFiniteSet(Held(c)') /\ Cardinality(Held(c)') \in Nat
  <1>1. IsFiniteSet(1..MaxDepth)
    BY FS_Interval, BoundAssumption
  <1>2. IsFiniteSet(Workers \X (1..MaxDepth))
    BY <1>1, FS_Product, CtxAssumption
  <1>3. /\ Held(c) \in SUBSET (Workers \X (1..MaxDepth))
        /\ Held(c)' \in SUBSET (Workers \X (1..MaxDepth))
    BY DEF Held
  <1>4. IsFiniteSet(Held(c)) /\ IsFiniteSet(Held(c)')
    BY <1>2, <1>3, FS_Subset
  <1> QED BY <1>4, FS_CardinalityType

\* Opening a block adds one position to its context and none to the others.
LEMMA HeldAppend ==
    ASSUME TypeOK, NEW w \in Workers, NEW c \in Ctxs, Len(frames[w]) < MaxDepth,
           frames' = [frames EXCEPT ![w] = Append(@, c)]
    PROVE  /\ frames' \in [Workers -> Seq(Ctxs)]
           /\ DepthOK => DepthOK'
           /\ Cardinality(Held(c)') = Cardinality(Held(c)) + 1
           /\ \A d \in Ctxs \ {c} : Held(d)' = Held(d)
  <1> DEFINE s == frames[w]
             t == Append(s, c)
             p == <<w, Len(s) + 1>>
  <1>1. s \in Seq(Ctxs) /\ Len(s) \in Nat
    BY DEF TypeOK
  <1>2. /\ t \in Seq(Ctxs) /\ Len(t) = Len(s) + 1 /\ t[Len(s) + 1] = c
        /\ \A i \in 1..Len(s) : t[i] = s[i]
    BY <1>1, AppendProperties
  <1>3. /\ frames'[w] = t
        /\ \A v \in Workers \ {w} : frames'[v] = frames[v]
    BY DEF TypeOK
  <1>4. frames' \in [Workers -> Seq(Ctxs)] /\ (DepthOK => DepthOK')
    <2>1. frames' \in [Workers -> Seq(Ctxs)]
      BY <1>2 DEF TypeOK
    <2>2. Len(s) + 1 <= MaxDepth
      BY <1>1, BoundAssumption
    <2> QED BY <2>1, <2>2, <1>2, <1>3 DEF DepthOK
  <1> HIDE DEF t
  <1>5. p \in Workers \X (1..MaxDepth) /\ p \notin Held(c)
    BY <1>1, BoundAssumption DEF Held
  <1>6. ASSUME NEW d \in Ctxs, NEW v \in Workers, NEW i \in 1..MaxDepth
        PROVE  <<v, i>> \in Held(d)' <=> (<<v, i>> \in Held(d) \/ (d = c /\ <<v, i>> = p))
    <2>1. <<v, i>> \in Held(d)' <=> (i <= Len(frames'[v]) /\ frames'[v][i] = d)
      BY DEF Held
    <2>2. <<v, i>> \in Held(d) <=> (i <= Len(frames[v]) /\ frames[v][i] = d)
      BY DEF Held
    <2>3. CASE v # w
      BY <2>1, <2>2, <2>3, <1>3
    <2>4. CASE v = w
      <3>1. CASE i <= Len(s)
        BY <2>1, <2>2, <2>4, <3>1, <1>1, <1>2, <1>3
      <3>2. CASE i = Len(s) + 1
        BY <2>1, <2>2, <2>4, <3>2, <1>1, <1>2, <1>3
      <3>3. CASE i > Len(s) + 1
        BY <2>1, <2>2, <2>4, <3>3, <1>1, <1>2, <1>3
      <3> QED BY <3>1, <3>2, <3>3, <1>1
    <2> QED BY <2>3, <2>4
  <1>7. Held(c)' = Held(c) \cup {p}
    <2>1. Held(c) \subseteq Workers \X (1..MaxDepth)
      BY DEF Held
    <2>2. Held(c)' \subseteq Workers \X (1..MaxDepth)
      BY DEF Held
    <2> HIDE DEF p
    <2>3. \A q \in Workers \X (1..MaxDepth) : q \in Held(c)' <=> q \in Held(c) \cup {p}
      BY <1>6
    <2> QED BY <2>1, <2>2, <2>3, <1>5
  <1>8. ASSUME NEW d \in Ctxs \ {c} PROVE Held(d)' = Held(d)
    <2>1. Held(d) \subseteq Workers \X (1..MaxDepth)
      BY DEF Held
    <2>2. Held(d)' \subseteq Workers \X (1..MaxDepth)
      BY DEF Held
    <2>3. \A q \in Workers \X (1..MaxDepth) : q \in Held(d)' <=> q \in Held(d)
      BY <1>6, <1>8
    <2> QED BY <2>1, <2>2, <2>3
  <1>9. Cardinality(Held(c)') = Cardinality(Held(c)) + 1
    BY <1>5, <1>7, HeldFinite, FS_AddElement
  <1> QED BY <1>4, <1>8, <1>9

\* Leaving a block takes one position from its context and none from the others.
LEMMA HeldLeave ==
    ASSUME TypeOK, DepthOK, NEW w \in Workers, frames[w] # << >>, frames' = Leave(w),
           NEW c, c = Top(w)
    PROVE  /\ frames' \in [Workers -> Seq(Ctxs)]
           /\ DepthOK'
           /\ Cardinality(Held(c)') = Cardinality(Held(c)) - 1
           /\ \A d \in Ctxs \ {c} : Held(d)' = Held(d)
  <1> DEFINE s == frames[w]
             n == Len(s)
             p == <<w, n>>
  <1>1. /\ frames' \in [Workers -> Seq(Ctxs)]
        /\ n \in Nat \ {0} /\ c \in Ctxs /\ Len(frames'[w]) = n - 1
        /\ \A i \in 1..(n - 1) : frames'[w][i] = s[i]
        /\ \A v \in Workers \ {w} : frames'[v] = frames[v]
    BY LeaveType
  <1>2. n <= MaxDepth
    BY DEF DepthOK
  <1>3. DepthOK'
    BY <1>1, <1>2, BoundAssumption DEF DepthOK
  <1>4. p \in Held(c)
    BY <1>1, <1>2, BoundAssumption DEF Held
  <1>5. ASSUME NEW d \in Ctxs, NEW v \in Workers, NEW i \in 1..MaxDepth
        PROVE  <<v, i>> \in Held(d)' <=> (<<v, i>> \in Held(d) /\ <<v, i>> # p)
    <2>1. <<v, i>> \in Held(d)' <=> (i <= Len(frames'[v]) /\ frames'[v][i] = d)
      BY DEF Held
    <2>2. <<v, i>> \in Held(d) <=> (i <= Len(frames[v]) /\ frames[v][i] = d)
      BY DEF Held
    <2>3. CASE v # w
      BY <2>1, <2>2, <2>3, <1>1
    <2>4. CASE v = w /\ i < n
      BY <2>1, <2>2, <2>4, <1>1
    <2>5. CASE v = w /\ i = n
      BY <2>1, <2>2, <2>5, <1>1
    <2>6. CASE v = w /\ i > n
      BY <2>1, <2>2, <2>6, <1>1
    <2> QED BY <2>3, <2>4, <2>5, <2>6, <1>1
  <1> HIDE DEF p, n
  <1>6. ASSUME NEW d \in Ctxs PROVE Held(d)' = Held(d) \ {p}
    <2>1. Held(d) \subseteq Workers \X (1..MaxDepth)
      BY DEF Held
    <2>2. Held(d)' \subseteq Workers \X (1..MaxDepth)
      BY DEF Held
    <2>3. \A q \in Workers \X (1..MaxDepth) : q \in Held(d)' <=> q \in Held(d) \ {p}
      BY <1>5
    <2> QED BY <2>1, <2>2, <2>3
  <1>7. Cardinality(Held(c)') = Cardinality(Held(c)) - 1
    <2>1. c \in Ctxs /\ IsFiniteSet(Held(c))
      BY <1>1, HeldFinite
    <2>2. Cardinality(Held(c) \ {p}) = Cardinality(Held(c)) - 1
      BY <1>4, <2>1, FS_RemoveElement
    <2> QED BY <1>6, <2>1, <2>2
  <1>8. ASSUME NEW d \in Ctxs \ {c} PROVE Held(d)' = Held(d)
    <2>1. c = frames[w][n]
      BY DEF n, Top
    <2>2. p \in Held(d) => frames[w][n] = d
      BY DEF Held, p
    <2>3. p \notin Held(d)
      BY <1>8, <2>1, <2>2
    <2> QED BY <1>6, <2>3
  <1> QED BY <1>1, <1>3, <1>7, <1>8

-----------------------------------------------------------------------------
(* The inductive invariant. *)

IInv == TypeOK /\ Linked /\ DepthOK /\ PushesOwed

\* At first nothing is pushed, held or owed.
LEMMA InitIInv == Init => IInv
  <1> SUFFICES ASSUME Init PROVE IInv
    OBVIOUS
  <1>1. TypeOK
    BY DEF Init, TypeOK
  <1>2. Linked
    BY CtxAssumption DEF Init, Linked, CountsMatch, Holders
  <1>3. DepthOK
    BY BoundAssumption DEF Init, DepthOK
  <1>4. \A c \in Ctxs : Held(c) = {}
    <2>1. \A p \in Workers \X (1..MaxDepth) : Len(frames[p[1]]) = 0
      BY DEF Init
    <2>2. \A p \in Workers \X (1..MaxDepth) : ~(p[2] <= Len(frames[p[1]]))
      BY <2>1, BoundAssumption
    <2> QED BY <2>2 DEF Held
  <1>5. PushesOwed
    <2>1. Cardinality({}) = 0
      BY FS_EmptySet
    <2>2. \A c \in Ctxs : Cardinality(Held(c)) = 0
      BY <1>4, <2>1
    <2> QED BY <2>2 DEF Init, PushesOwed
  <1> QED BY <1>1, <1>2, <1>3, <1>5 DEF IInv

\* Serve, Enter, RunCopy and Reenter: one push, owed by the block it opens.
LEMMA OpenBlockIInv ==
    ASSUME IInv, NEW w \in Workers, NEW c \in Ctxs, OpenBlock(w, c),
           request' \in [Ctxs -> Reqs \cup {NoReq, Unborn}], served' \in SUBSET Ctxs
    PROVE  IInv'
  <1>1. /\ TypeOK /\ Linked /\ DepthOK /\ PushesOwed /\ Push(w, c)
        /\ Len(frames[w]) < MaxDepth
        /\ frames' = [frames EXCEPT ![w] = Append(@, c)]
        /\ UNCHANGED <<captured, streams, closed, lost, torn>>
    BY DEF IInv, OpenBlock
  <1>2. /\ frames' \in [Workers -> Seq(Ctxs)] /\ DepthOK'
        /\ Cardinality(Held(c)') = Cardinality(Held(c)) + 1
        /\ \A d \in Ctxs \ {c} : Held(d)' = Held(d)
    BY <1>1, HeldAppend
  <1>3. TypeOK'
    BY <1>1, <1>2, PushType DEF TypeOK
  <1>4. Linked'
    BY <1>1, PushLinks
  <1>5. PushesOwed'
    <2>1. pushCount' = [pushCount EXCEPT ![c] = @ + 1]
      BY <1>1 DEF Push
    <2> SUFFICES ASSUME NEW d \in Ctxs
                 PROVE  pushCount'[d] = Cardinality(Held(d)') + streams'[d] + lost'[d]
      BY DEF PushesOwed
    <2>2. /\ pushCount[d] = Cardinality(Held(d)) + streams[d] + lost[d]
          /\ Cardinality(Held(d)) \in Nat /\ streams[d] \in Nat /\ lost[d] \in Nat
          /\ pushCount[d] \in Nat /\ streams' = streams /\ lost' = lost
      BY <1>1, HeldFinite DEF PushesOwed, TypeOK
    <2>3. CASE d = c
      BY <1>1, <1>2, <2>1, <2>2, <2>3 DEF TypeOK
    <2>4. CASE d # c
      BY <1>1, <1>2, <2>1, <2>2, <2>4 DEF TypeOK
    <2> QED BY <2>3, <2>4
  <1> QED BY <1>2, <1>3, <1>4, <1>5 DEF IInv

\* A new context has a request or none.
LEMMA CreateType ==
    ASSUME TypeOK, NEW c \in Ctxs, NEW r \in Reqs \cup {NoReq, Unborn}, Create(c, r)
    PROVE  request' \in [Ctxs -> Reqs \cup {NoReq, Unborn}]
  BY DEF Create, TypeOK

\* The requests a new context may get are requests.
LEMMA RequestTypes ==
    ASSUME TypeOK
    PROVE  FreshReqs \cup SharedReqs \cup {NoReq} \subseteq Reqs \cup {NoReq, Unborn}
  BY DEF FreshReqs, SharedReqs, TypeOK

\* The blocks end, streams end, pops are refused: what is no longer held is
\* either no longer counted or lost.
LEMMA PopOwed ==
    ASSUME IInv, NEW w \in Workers, NEW c \in Ctxs, Pop(w, c) \/ PopRefused(w, c),
           Cardinality(Held(c)') + streams'[c] = Cardinality(Held(c)) + streams[c] - 1,
           \A d \in Ctxs \ {c} :
               Cardinality(Held(d)') + streams'[d] = Cardinality(Held(d)) + streams[d],
           streams' \in [Ctxs -> Nat],
           \A d \in Ctxs : Cardinality(Held(d)') \in Nat
    PROVE  PushesOwed'
  <1> SUFFICES ASSUME NEW d \in Ctxs
               PROVE  pushCount'[d] = Cardinality(Held(d)') + streams'[d] + lost'[d]
    BY DEF PushesOwed
  <1>1. /\ pushCount[d] = Cardinality(Held(d)) + streams[d] + lost[d]
        /\ pushCount[d] \in Nat /\ lost[d] \in Nat
        /\ Cardinality(Held(d)) \in Nat /\ streams[d] \in Nat
    BY HeldFinite DEF IInv, PushesOwed, TypeOK
  <1>2. streams'[d] \in Nat /\ Cardinality(Held(d)') \in Nat
    OBVIOUS
  <1>3. CASE PopRefused(w, c)
    <2>1. pushCount'[d] = pushCount[d] /\ lost' = [lost EXCEPT ![c] = @ + 1]
      BY <1>3 DEF PopRefused
    <2>2. CASE d = c
      BY <1>1, <1>2, <2>1, <2>2 DEF IInv, TypeOK
    <2>3. CASE d # c
      BY <1>1, <1>2, <2>1, <2>3 DEF IInv, TypeOK
    <2> QED BY <2>2, <2>3
  <1>4. CASE Pop(w, c)
    <2>1. lost'[d] = lost[d] /\ pushCount' = [pushCount EXCEPT ![c] = @ - 1]
      BY <1>4 DEF Pop
    <2>2. CASE d = c
      BY <1>1, <1>2, <2>1, <2>2 DEF IInv, TypeOK
    <2>3. CASE d # c
      BY <1>1, <1>2, <2>1, <2>3 DEF IInv, TypeOK
    <2> QED BY <2>2, <2>3
  <1> QED BY <1>3, <1>4

\* The pop that runs the teardown leaves nobody behind: the count is zero, and
\* every block and every generator accounts for one unit of it.
LEMMA LastPop ==
    ASSUME TypeOK, CountsMatch, NEW w \in Workers, NEW c \in Ctxs,
           Pop(w, c) \/ PopRefused(w, c), torn' # torn,
           TypeOK', PushesOwed', \A d \in Ctxs : IsFiniteSet(Held(d)')
    PROVE  Held(c)' = {} /\ streams'[c] = 0
  <1>1. Pop(w, c) /\ ~(pushCount[c] > 1)
    BY DEF Pop, PopRefused
  <1>2. pushCount[c] \in Nat /\ pushCount[c] > 0
    BY <1>1 DEF TypeOK, CountsMatch, Pop, PopAccepted
  <1>3. pushCount'[c] = 0
    BY <1>1, <1>2 DEF TypeOK, Pop
  <1>4. streams'[c] \in Nat /\ lost'[c] \in Nat /\ Cardinality(Held(c)') \in Nat
    BY HeldFinite, FS_CardinalityType DEF TypeOK
  <1>5. Cardinality(Held(c)') = 0 /\ streams'[c] = 0
    BY <1>3, <1>4 DEF PushesOwed
  <1> QED BY <1>5, FS_EmptySet

\* Leaving a block keeps the invariant, and tears down what nobody else holds.
LEMMA ExitIInv ==
    ASSUME IInv, NEW w \in Workers, Exit(w), NEW c, c = Top(w)
    PROVE  IInv' /\ (torn' # torn => Held(c)' = {} /\ streams'[c] = 0)
  <1>1. /\ TypeOK /\ Linked /\ DepthOK /\ PushesOwed /\ CountsMatch
        /\ frames[w] # << >> /\ frames' = Leave(w)
        /\ Pop(w, c) \/ PopRefused(w, c)
        /\ UNCHANGED <<request, captured, streams, served, pushed>>
    BY DEF IInv, Linked, Exit
  <1>2. c \in Ctxs
    BY <1>1, LeaveType
  <1>3. /\ frames' \in [Workers -> Seq(Ctxs)] /\ DepthOK'
        /\ Cardinality(Held(c)') = Cardinality(Held(c)) - 1
        /\ \A d \in Ctxs \ {c} : Held(d)' = Held(d)
    BY <1>1, HeldLeave
  <1>4. TypeOK'
    BY <1>1, <1>2, <1>3, PopType DEF TypeOK
  <1>5. Linked'
    BY <1>1, <1>2, PopLinks
  <1>6. \A d \in Ctxs : Cardinality(Held(d)') \in Nat /\ IsFiniteSet(Held(d)')
    BY HeldFinite
  <1>7. \A d \in Ctxs : /\ Cardinality(Held(d)) \in Nat /\ streams[d] \in Nat
                        /\ streams'[d] = streams[d]
    BY <1>1, HeldFinite DEF TypeOK
  <1>8. /\ Cardinality(Held(c)') + streams'[c] = Cardinality(Held(c)) + streams[c] - 1
        /\ \A d \in Ctxs \ {c} :
              Cardinality(Held(d)') + streams'[d] = Cardinality(Held(d)) + streams[d]
    <2>1. Cardinality(Held(c)') + streams'[c] = Cardinality(Held(c)) + streams[c] - 1
      <3>1. Cardinality(Held(c)') = Cardinality(Held(c)) - 1
        BY <1>3
      <3>2. /\ streams'[c] = streams[c] /\ streams[c] \in Nat
            /\ Cardinality(Held(c)) \in Nat
        BY <1>2, <1>7
      <3> QED BY ONLY <3>1, <3>2
    <2>2. ASSUME NEW d \in Ctxs \ {c}
          PROVE  Cardinality(Held(d)') + streams'[d] = Cardinality(Held(d)) + streams[d]
      <3>1. Held(d)' = Held(d) /\ streams'[d] = streams[d]
        BY <1>3, <1>7
      <3> QED BY <3>1
    <2> QED BY <2>1, <2>2
  <1>9. streams' \in [Ctxs -> Nat]
    BY <1>4 DEF TypeOK
  <1>10. PushesOwed'
    <2>1. \A d \in Ctxs : Cardinality(Held(d)') \in Nat
      BY <1>6
    <2>2. Pop(w, c) \/ PopRefused(w, c)
      BY <1>1
    <2> QED BY ONLY IInv, <1>2, <1>8, <1>9, <2>1, <2>2, PopOwed
  <1>11. ASSUME torn' # torn PROVE Held(c)' = {} /\ streams'[c] = 0
    BY ONLY <1>1, <1>2, <1>4, <1>6, <1>10, <1>11, LastPop
  <1> QED BY <1>3, <1>4, <1>5, <1>10, <1>11 DEF IInv

\* The end of a generator keeps the invariant, and tears down what nobody else holds.
LEMMA CloseStreamIInv ==
    ASSUME IInv, NEW w \in Workers, NEW c \in Ctxs, CloseStream(w, c)
    PROVE  IInv' /\ (torn' # torn => Held(c)' = {} /\ streams'[c] = 0)
  <1>1. /\ TypeOK /\ Linked /\ DepthOK /\ PushesOwed /\ CountsMatch
        /\ streams[c] > 0 /\ streams' = [streams EXCEPT ![c] = @ - 1]
        /\ Pop(w, c) \/ PopRefused(w, c)
        /\ UNCHANGED <<request, captured, frames, served, pushed>>
    BY DEF IInv, Linked, CloseStream
  <1>2. streams' \in [Ctxs -> Nat]
    BY <1>1 DEF TypeOK
  <1>3. TypeOK'
    BY <1>1, <1>2, PopType DEF TypeOK
  <1>4. Linked'
    BY <1>1, PopLinks
  <1>5. DepthOK'
    BY <1>1 DEF DepthOK
  <1>6. \A d \in Ctxs : Held(d)' = Held(d)
    BY <1>1 DEF Held
  <1>7. \A d \in Ctxs : /\ IsFiniteSet(Held(d)') /\ Cardinality(Held(d)') \in Nat
                        /\ streams[d] \in Nat
    BY <1>1, HeldFinite DEF TypeOK
  <1>8. /\ Cardinality(Held(c)') + streams'[c] = Cardinality(Held(c)) + streams[c] - 1
        /\ \A d \in Ctxs \ {c} :
              Cardinality(Held(d)') + streams'[d] = Cardinality(Held(d)) + streams[d]
    <2>1. streams'[c] = streams[c] - 1 /\ \A d \in Ctxs \ {c} : streams'[d] = streams[d]
      BY <1>1 DEF TypeOK
    <2>2. Cardinality(Held(c)') = Cardinality(Held(c)) /\ Cardinality(Held(c)') \in Nat
      BY <1>6, <1>7
    <2>3. Cardinality(Held(c)') + streams'[c] = Cardinality(Held(c)) + streams[c] - 1
      BY <2>1, <2>2, <1>7
    <2>4. ASSUME NEW d \in Ctxs \ {c}
          PROVE  Cardinality(Held(d)') + streams'[d] = Cardinality(Held(d)) + streams[d]
      <3>1. Held(d)' = Held(d) /\ streams'[d] = streams[d]
        BY <1>6, <2>1
      <3> QED BY <3>1
    <2> QED BY <2>3, <2>4
  <1>9. PushesOwed'
    <2>1. \A d \in Ctxs : Cardinality(Held(d)') \in Nat
      BY <1>7
    <2>2. Pop(w, c) \/ PopRefused(w, c)
      BY <1>1
    <2> QED BY ONLY IInv, <1>2, <1>8, <2>1, <2>2, PopOwed
  <1>10. ASSUME torn' # torn PROVE Held(c)' = {} /\ streams'[c] = 0
    BY ONLY <1>1, <1>3, <1>7, <1>9, <1>10, LastPop
  <1> QED BY <1>3, <1>4, <1>5, <1>9, <1>10 DEF IInv

\* OpenStream, EnterFails: a push that no block owes.
LEMMA UnheldPushIInv ==
    ASSUME IInv, NEW w \in Workers, NEW c \in Ctxs, Push(w, c),
           UNCHANGED <<captured, frames, closed, served, torn>>,
           request' \in [Ctxs -> Reqs \cup {NoReq, Unborn}],
           \/ lost' = [lost EXCEPT ![c] = @ + 1] /\ streams' = streams
           \/ streams' = [streams EXCEPT ![c] = @ + 1] /\ lost' = lost
    PROVE  IInv'
  <1>1. TypeOK /\ Linked /\ DepthOK /\ PushesOwed
    BY DEF IInv
  <1>2. TypeOK'
    <2>1. streams' \in [Ctxs -> Nat] /\ lost' \in [Ctxs -> Nat]
      <3>1. CASE lost' = [lost EXCEPT ![c] = @ + 1] /\ streams' = streams
        BY <1>1, <3>1 DEF TypeOK
      <3>2. CASE streams' = [streams EXCEPT ![c] = @ + 1] /\ lost' = lost
        BY <1>1, <3>2 DEF TypeOK
      <3> QED BY <3>1, <3>2
    <2> QED BY <1>1, <2>1, PushType DEF TypeOK
  <1>3. Linked'
    BY <1>1, PushLinks
  <1>4. DepthOK'
    BY <1>1 DEF DepthOK
  <1>5. PushesOwed'
    <2> SUFFICES ASSUME NEW d \in Ctxs
                 PROVE  pushCount'[d] = Cardinality(Held(d)') + streams'[d] + lost'[d]
      BY DEF PushesOwed
    <2>1. /\ pushCount[d] = Cardinality(Held(d)) + streams[d] + lost[d]
          /\ Cardinality(Held(d)) \in Nat /\ streams[d] \in Nat /\ lost[d] \in Nat
      BY <1>1, HeldFinite DEF PushesOwed, TypeOK
    <2>2. Held(d)' = Held(d)
      BY DEF Held
    <2>3. pushCount' = [pushCount EXCEPT ![c] = @ + 1]
      BY DEF Push
    <2>4. CASE d = c
      <3>1. pushCount'[d] = pushCount[d] + 1
        BY <1>1, <2>3, <2>4 DEF TypeOK
      <3>2. streams'[d] + lost'[d] = streams[d] + lost[d] + 1
        BY <1>1, <2>1, <2>4 DEF TypeOK
      <3>3. streams'[d] \in Nat /\ lost'[d] \in Nat
        BY <1>2 DEF TypeOK
      <3> QED BY <2>1, <2>2, <3>1, <3>2, <3>3
    <2>5. CASE d # c
      BY <1>1, <2>1, <2>2, <2>3, <2>5 DEF TypeOK
    <2> QED BY <2>4, <2>5
  <1> QED BY <1>2, <1>3, <1>4, <1>5 DEF IInv

\* A step that changes none of the variables the invariant reads keeps it.
LEMMA SameIInv ==
    ASSUME IInv, TypeOK',
           UNCHANGED <<active, token, pushCount, frames, streams, lost>>
    PROVE  IInv'
  <1>1. Linked'
    BY DEF IInv, Linked, CountsMatch, Holders
  <1>2. DepthOK'
    BY DEF IInv, DepthOK
  <1>3. \A c \in Ctxs : Held(c)' = Held(c)
    BY DEF Held
  <1>4. PushesOwed'
    BY <1>3 DEF IInv, PushesOwed
  <1> QED BY <1>1, <1>2, <1>4 DEF IInv

\* Every step keeps the invariant.
LEMMA NextIInv ==
    ASSUME IInv, [Next]_vars
    PROVE  IInv'
  <1>1. TypeOK
    BY DEF IInv
  <1>2. CASE UNCHANGED vars
    <2>1. TypeOK'
      BY <1>1, <1>2 DEF vars, TypeOK
    <2> QED BY <1>2, <2>1, SameIInv DEF vars
  <1>3. ASSUME NEW w \in Workers, Step(w)
        PROVE  IInv'
    <2>1. ASSUME NEW c \in Ctxs, Serve(w, c) PROVE IInv'
      <3>1. PICK r \in Reqs \cup {NoReq, Unborn} : Create(c, r)
        BY <2>1, <1>1, RequestTypes DEF Serve
      <3>2. served' \in SUBSET Ctxs
        BY <2>1, <1>1 DEF Serve, TypeOK
      <3> QED BY <2>1, <3>1, <3>2, <1>1, CreateType, OpenBlockIInv DEF Serve
    <2>2. ASSUME NEW c \in Ctxs, Enter(w, c) PROVE IInv'
      <3>1. PICK r \in Reqs \cup {NoReq, Unborn} : Create(c, r)
        BY <2>2, <1>1, RequestTypes DEF Enter
      <3>2. served' \in SUBSET Ctxs
        BY <2>2, <1>1 DEF Enter, TypeOK
      <3> QED BY <2>2, <3>1, <3>2, <1>1, CreateType, OpenBlockIInv DEF Enter
    <2>3. ASSUME NEW c \in Ctxs, RunCopy(w, c) PROVE IInv'
      <3>1. PICK r \in Reqs \cup {NoReq, Unborn} : Create(c, r)
        BY <2>3, <1>1, RequestTypes DEF RunCopy
      <3>2. served' \in SUBSET Ctxs
        BY <2>3, <1>1 DEF RunCopy, TypeOK
      <3> QED BY <2>3, <3>1, <3>2, <1>1, CreateType, OpenBlockIInv DEF RunCopy
    <2>4. ASSUME NEW c \in Ctxs, Reenter(w, c) PROVE IInv'
      BY <2>4, <1>1, OpenBlockIInv DEF Reenter, TypeOK
    <2>5. ASSUME NEW c \in Ctxs, EnterFails(w, c) PROVE IInv'
      <3>1. request' \in [Ctxs -> Reqs \cup {NoReq, Unborn}]
        <4>1. CASE Born(c) /\ UNCHANGED request
          BY <4>1, <1>1 DEF TypeOK
        <4>2. CASE \E r \in FreshReqs \cup SharedReqs \cup {NoReq} : Create(c, r)
          BY <4>2, <1>1, RequestTypes, CreateType
        <4> QED BY <2>5, <4>1, <4>2 DEF EnterFails
      <3>2. /\ Push(w, c) /\ lost' = [lost EXCEPT ![c] = @ + 1] /\ streams' = streams
            /\ UNCHANGED <<captured, frames, closed, served, torn>>
        BY <2>5 DEF EnterFails
      <3> QED BY <3>1, <3>2, UnheldPushIInv
    <2>6. ASSUME NEW c \in Ctxs, CloseStream(w, c) PROVE IInv'
      BY <2>6, CloseStreamIInv
    <2>7. CASE Exit(w)
      BY <2>7, ExitIInv
    <2>8. CASE OpenStream(w)
      <3>1. PICK c \in Ctxs : active[w] = c
        BY <2>8, <1>1 DEF OpenStream, Active, TypeOK
      <3>2. /\ Push(w, c) /\ streams' = [streams EXCEPT ![c] = @ + 1] /\ lost' = lost
            /\ UNCHANGED <<captured, frames, closed, served, torn>>
            /\ request' = request
        BY <2>8, <3>1 DEF OpenStream
      <3> QED BY <1>1, <3>2, UnheldPushIInv DEF TypeOK
    <2>9. CASE Capture(w)
      <3>1. captured' \in SUBSET Ctxs
        BY <2>9, <1>1 DEF Capture, Active, TypeOK
      <3>2. TypeOK'
        BY <2>9, <3>1, <1>1 DEF Capture, TypeOK
      <3> QED BY <2>9, <3>2, SameIInv DEF Capture
    <2> QED BY <1>3, <2>1, <2>2, <2>3, <2>4, <2>5, <2>6, <2>7, <2>8, <2>9 DEF Step
  <1> QED BY <1>2, <1>3 DEF Next

-----------------------------------------------------------------------------
(* The theorems. *)

\* The invariant holds in every state.
LEMMA Invariance == Spec => []IInv
  <1>1. IInv /\ [Next]_vars => IInv'
    BY NextIInv
  <1> QED BY InitIInv, <1>1, PTL DEF Spec

\* Every variable keeps its type, in particular _push_count never goes below
\* zero, whatever the callers of push and pop do.
THEOREM TypeCorrect == Spec => []TypeOK
  <1>1. IInv => TypeOK
    BY DEF IInv
  <1> QED BY Invariance, <1>1, PTL

\* A pushed context is reachable from one place only, a context that is not
\* pushed from none (AppContext.push and pop, ctx.py:416-504).
THEOREM ContextsUnshared == Spec => []UniqueHolder
  <1>1. IInv => UniqueHolder
    <2> SUFFICES ASSUME IInv, NEW c \in Ctxs
                 PROVE  Cardinality(Holders(c)) = IF Live(c) THEN 1 ELSE 0
      BY DEF UniqueHolder
    <2>1. /\ Live(c) <=> Holders(c) # {}
          /\ \A x, y \in Holders(c) : x = y
      BY DEF IInv, Linked
    <2>2. CASE Live(c)
      <3>1. PICK x : x \in Holders(c)
        BY <2>1, <2>2
      <3>2. Holders(c) = {x}
        BY <2>1, <3>1
      <3> QED BY <2>2, <3>2, FS_Singleton
    <2>3. CASE ~Live(c)
      BY <2>1, <2>3, FS_EmptySet
    <2> QED BY <2>2, <2>3
  <1> QED BY Invariance, <1>1, PTL

\* Every unit of every push count is owed by an open block, a suspended
\* generator or a push that was lost.
THEOREM CountsAccounted == Spec => []PushesOwed
  <1>1. IInv => PushesOwed
    BY DEF IInv
  <1> QED BY Invariance, <1>1, PTL

\* Teardown runs once per outermost pop and after every user of the context is
\* gone, for any number of workers and any nesting of blocks and generators.
THEOREM TeardownLast == Spec => TeardownIsLast
  <1> DEFINE A == \A c \in Ctxs : torn'[c] # torn[c] =>
                     /\ torn'[c] = torn[c] + 1
                     /\ streams'[c] = 0
                     /\ Held(c)' = {}
  <1>1. IInv /\ [Next]_vars => [A]_vars
    <2> SUFFICES ASSUME IInv, NEW w \in Workers, Step(w) PROVE A
      BY DEF Next
    <2>1. TypeOK /\ torn \in [Ctxs -> Nat]
      BY DEF IInv, TypeOK
    <2>2. ASSUME NEW c \in Ctxs, Pop(w, c) \/ PopRefused(w, c),
                 torn' # torn => Held(c)' = {} /\ streams'[c] = 0
          PROVE  A
      <3>1. \A d \in Ctxs : torn'[d] # torn[d] => d = c /\ torn'[d] = torn[d] + 1
        BY <2>1, <2>2 DEF Pop, PopRefused
      <3> QED BY <2>2, <3>1
    <2>3. CASE Exit(w)
      <3>1. PICK c \in Ctxs : c = Top(w)
        BY <2>1, <2>3, LeaveType DEF Exit
      <3>2. Pop(w, c) \/ PopRefused(w, c)
        BY <2>3, <3>1 DEF Exit
      <3>3. torn' # torn => Held(c)' = {} /\ streams'[c] = 0
        BY <2>3, <3>1, ExitIInv
      <3> QED BY <2>2, <3>2, <3>3
    <2>4. ASSUME NEW c \in Ctxs, CloseStream(w, c) PROVE A
      <3>1. Pop(w, c) \/ PopRefused(w, c)
        BY <2>4 DEF CloseStream
      <3> QED BY <2>2, <2>4, <3>1, CloseStreamIInv
    <2>5. CASE torn' = torn
      BY <2>5
    <2>6. Exit(w) \/ (\E c \in Ctxs : CloseStream(w, c)) \/ torn' = torn
      BY DEF Step, Serve, Enter, RunCopy, Reenter, EnterFails, OpenBlock, OpenStream, Capture
    <2> QED BY <2>3, <2>4, <2>5, <2>6
  <1> QED BY Invariance, <1>1, PTL DEF Spec, TeardownIsLast

-----------------------------------------------------------------------------
(* Callers in order: nothing is lost, and the teardown is never skipped. *)

\* A server that finishes a response before it uses the worker again, and no
\* push that raises in a `with` statement.
Disciplined == ~NestedPushFails /\ ~Undisciplined

Unheld(c) == \A w \in Workers : \A i \in 1..Len(frames[w]) : frames[w][i] # c

\* The innermost block of a worker is the one of its active context.
Nested == \A w \in Workers :
              Len(frames[w]) > 0 => active[w] = frames[w][Len(frames[w])]

\* The tokens lead from every block to the one around it.
Chained == \A w \in Workers : \A i, j \in 1..Len(frames[w]) :
               j = i + 1 /\ frames[w][i] # frames[w][j]
                   => token[frames[w][j]] = frames[w][i]

\* The outermost block found the contextvar unset.
Bottom == \A w \in Workers : \A i \in 1..Len(frames[w]) :
              i = 1 => token[frames[w][i]] = NoCtx

\* The blocks of a context are on one worker, with no other block between them.
Together == \A v, w \in Workers : \A i \in 1..Len(frames[v]), j \in 1..Len(frames[w]) :
                frames[v][i] = frames[w][j] =>
                    /\ v = w
                    /\ \A k \in 1..Len(frames[v]) :
                           i <= k /\ k <= j => frames[v][k] = frames[v][i]

\* A context outlives the blocks of its worker for its generators only.
Lingering == \A w \in Workers, c \in Ctxs : Len(frames[w]) = 0 /\ active[w] = c =>
                 streams[c] > 0 /\ token[c] = NoCtx /\ Unheld(c)

Shape == Nested /\ Chained /\ Bottom /\ Together /\ Lingering

Known == \A c \in Ctxs : Live(c) \/ c \in captured => Born(c)

ServedTorn == \A c \in served : Live(c) \/ torn[c] > 0

NoneLost == \A c \in Ctxs : lost[c] = 0

Orderly == Shape /\ Known /\ ServedTorn /\ NoneLost

\* A context no position of a stack holds is in no block.
HeldOrNot == \A c \in Ctxs : TypeOK /\ DepthOK => (Held(c) = {} <=> Unheld(c))

LEMMA UnheldNow == HeldOrNot
  <1> SUFFICES ASSUME NEW c \in Ctxs, TypeOK, DepthOK
               PROVE  Held(c) = {} <=> Unheld(c)
    BY DEF HeldOrNot
  <1>1. \A w \in Workers : Len(frames[w]) \in Nat /\ Len(frames[w]) <= MaxDepth
    BY DEF TypeOK, DepthOK
  <1>2. ASSUME NEW w \in Workers, NEW i \in 1..Len(frames[w]), frames[w][i] = c
        PROVE  <<w, i>> \in Held(c)
    <2>1. i \in 1..MaxDepth /\ i <= Len(frames[w])
      BY <1>1, BoundAssumption
    <2> QED BY <2>1, <1>2 DEF Held
  <1>3. ASSUME NEW p \in Held(c) PROVE ~Unheld(c)
    <2>1. /\ p[1] \in Workers /\ p[2] \in 1..MaxDepth
          /\ p[2] <= Len(frames[p[1]]) /\ frames[p[1]][p[2]] = c
      BY DEF Held
    <2>2. p[2] \in 1..Len(frames[p[1]])
      BY <2>1, <1>1
    <2> QED BY <2>1, <2>2 DEF Unheld
  <1> QED BY <1>2, <1>3 DEF Unheld

LEMMA UnheldNext == HeldOrNot'
  BY UnheldNow, PTL

LEMMA UnheldHeld ==
    ASSUME NEW c \in Ctxs
    PROVE  /\ TypeOK /\ DepthOK => (Held(c) = {} <=> Unheld(c))
           /\ TypeOK' /\ DepthOK' => (Held(c)' = {} <=> Unheld(c)')
  BY UnheldNow, UnheldNext DEF HeldOrNot

\* A context that is not pushed is in no block and has no generator.
LEMMA FreshUnheld ==
    ASSUME IInv, NEW c \in Ctxs, ~Live(c)
    PROVE  Unheld(c) /\ streams[c] = 0
  <1>1. TypeOK /\ DepthOK /\ PushesOwed /\ CountsMatch
    BY DEF IInv, Linked
  <1>2. /\ Cardinality(Held(c)) \in Nat /\ IsFiniteSet(Held(c))
        /\ streams[c] \in Nat /\ lost[c] \in Nat /\ pushCount[c] \in Nat
    BY <1>1, HeldFinite DEF TypeOK
  <1>3. pushCount[c] = 0
    BY <1>1, <1>2 DEF CountsMatch
  <1>4. Cardinality(Held(c)) = 0 /\ streams[c] = 0
    BY <1>1, <1>2, <1>3 DEF PushesOwed
  <1> QED BY <1>1, <1>2, <1>4, FS_EmptySet, UnheldHeld

\* A context is active on one worker, and is then not below another context.
LEMMA ActiveOnce ==
    ASSUME IInv, NEW w \in Workers, NEW c \in Ctxs, active[w] = c
    PROVE  /\ Live(c)
           /\ \A v \in Workers : active[v] = c => v = w
           /\ \A d \in Ctxs : token[d] # c
  <1>1. /\ Live(c) <=> Holders(c) # {}
        /\ \A x, y \in Holders(c) : x = y
    BY DEF IInv, Linked
  <1>2. w \in Holders(c) /\ w \notin Ctxs
    BY CtxAssumption DEF Holders
  <1>3. \A v \in Workers : active[v] = c => v \in Holders(c)
    BY DEF Holders
  <1>4. \A d \in Ctxs : token[d] = c => d \in Holders(c)
    BY DEF Holders
  <1> QED BY <1>1, <1>2, <1>3, <1>4

\* What one more block means for the positions of the stacks.
LEMMA Appended ==
    ASSUME TypeOK, NEW w \in Workers, NEW c \in Ctxs,
           frames' = [frames EXCEPT ![w] = Append(@, c)]
    PROVE  /\ Len(frames[w]) \in Nat
           /\ Len(frames'[w]) = Len(frames[w]) + 1
           /\ frames'[w][Len(frames[w]) + 1] = c
           /\ \A i \in 1..Len(frames[w]) : frames'[w][i] = frames[w][i]
           /\ \A v \in Workers \ {w} : frames'[v] = frames[v]
  <1>1. frames[w] \in Seq(Ctxs) /\ Len(frames[w]) \in Nat
    BY DEF TypeOK
  <1>2. frames'[w] = Append(frames[w], c) /\ \A v \in Workers \ {w} : frames'[v] = frames[v]
    BY DEF TypeOK
  <1> QED BY <1>1, <1>2, AppendProperties

\* A block of a context that was not pushed goes on top of the list.
LEMMA FreshBlockShape ==
    ASSUME IInv, Shape, Disciplined, NEW w \in Workers, NEW c \in Ctxs, ~Live(c),
           Idle(w), Push(w, c), streams' = streams,
           frames' = [frames EXCEPT ![w] = Append(@, c)]
    PROVE  Shape'
  <1> DEFINE n == Len(frames[w])
  <1>1. TypeOK /\ Nested /\ Chained /\ Bottom /\ Together /\ Lingering
    BY DEF IInv, Shape
  <1>2. Unheld(c) /\ streams[c] = 0
    BY FreshUnheld
  <1>3. /\ token' = [token EXCEPT ![c] = active[w]]
        /\ active' = [active EXCEPT ![w] = c]
    BY DEF Push
  <1>4. /\ token'[c] = active[w] /\ active'[w] = c
        /\ \A d \in Ctxs \ {c} : token'[d] = token[d]
        /\ \A v \in Workers \ {w} : active'[v] = active[v]
    BY <1>1, <1>3 DEF TypeOK
  <1>5. /\ n \in Nat
        /\ Len(frames'[w]) = n + 1
        /\ frames'[w][n + 1] = c
        /\ \A i \in 1..n : frames'[w][i] = frames[w][i]
        /\ \A v \in Workers \ {w} : frames'[v] = frames[v]
    BY <1>1, Appended
  <1>6. \A v \in Workers : \A i \in 1..Len(frames[v]) :
            frames[v][i] \in Ctxs /\ frames[v][i] # c
    <2>1. \A v \in Workers : frames[v] \in Seq(Ctxs)
      BY <1>1 DEF TypeOK
    <2>2. \A v \in Workers : \A i \in 1..Len(frames[v]) : frames[v][i] \in Ctxs
      BY <2>1
    <2>3. \A v \in Workers : \A i \in 1..Len(frames[v]) : frames[v][i] # c
      BY <1>2, Zenon DEF Unheld
    <2> QED BY <2>2, <2>3
  <1>7. \A v \in Workers : Len(frames[v]) \in Nat
    BY <1>1 DEF TypeOK
  <1> HIDE DEF n
  <1>8. Nested'
    <2> SUFFICES ASSUME NEW v \in Workers, Len(frames'[v]) > 0
                 PROVE  active'[v] = frames'[v][Len(frames'[v])]
      BY DEF Nested
    <2>1. CASE v = w
      BY <2>1, <1>4, <1>5
    <2>2. CASE v # w
      BY <2>2, <1>1, <1>4, <1>5 DEF Nested
    <2> QED BY <2>1, <2>2
  <1>9. Chained'
    <2> SUFFICES ASSUME NEW v \in Workers,
                        NEW i \in 1..Len(frames'[v]), NEW j \in 1..Len(frames'[v]),
                        j = i + 1, frames'[v][i] # frames'[v][j]
                 PROVE  token'[frames'[v][j]] = frames'[v][i]
      BY DEF Chained
    <2>1. CASE v # w
      BY <2>1, <1>1, <1>4, <1>5, <1>6 DEF Chained
    <2>2. CASE v = w /\ j = n + 1
      <3>1. i = n /\ n > 0
        BY <2>2, <1>5
      <3>2. frames'[w][i] = frames[w][n] /\ active[w] = frames[w][n]
        BY <3>1, <1>1, <1>5 DEF Nested, n
      <3> QED BY <2>2, <3>2, <1>4, <1>5
    <2>3. CASE v = w /\ j \in 1..n
      <3>1. i \in 1..n
        BY <2>3, <1>5
      <3>2. frames'[w][i] = frames[w][i] /\ frames'[w][j] = frames[w][j]
        BY <2>3, <3>1, <1>5
      <3>3. token[frames[w][j]] = frames[w][i]
        BY <2>3, <3>1, <3>2, <1>1 DEF Chained, n
      <3>4. frames[w][j] \in Ctxs \ {c}
        BY <2>3, <1>6 DEF n
      <3> QED BY <2>3, <3>2, <3>3, <3>4, <1>4
    <2> QED BY <2>1, <2>2, <2>3, <1>5
  <1>10. Bottom'
    <2> SUFFICES ASSUME NEW v \in Workers, NEW i \in 1..Len(frames'[v]), i = 1
                 PROVE  token'[frames'[v][i]] = NoCtx
      BY DEF Bottom
    <2>1. CASE v # w
      BY <2>1, <1>1, <1>4, <1>5, <1>6 DEF Bottom
    <2>2. CASE v = w /\ n = 0
      <3>1. frames[w] = << >>
        BY <2>2, <1>1 DEF TypeOK, n
      <3>2. \A d \in Ctxs : active[w] = d => streams[d] = 0
        BY <3>1 DEF Idle, Disciplined
      <3>3. \A d \in Ctxs : active[w] # d
        BY <2>2, <3>2, <1>1 DEF Lingering, n
      <3>4. active[w] = NoCtx
        BY <3>3, <1>1 DEF TypeOK
      <3> QED BY <2>2, <3>4, <1>4, <1>5
    <2>3. CASE v = w /\ n > 0
      <3>1. 1 \in 1..n
        BY <2>3, <1>5
      <3>2. frames[w][1] \in Ctxs \ {c} /\ token[frames[w][1]] = NoCtx
        BY <3>1, <1>1, <1>6 DEF Bottom, n
      <3> QED BY <2>3, <3>1, <3>2, <1>4, <1>5
    <2> QED BY <2>1, <2>2, <2>3, <1>5
  <1>11. Together'
    <2> SUFFICES ASSUME NEW u \in Workers, NEW v \in Workers,
                        NEW i \in 1..Len(frames'[u]), NEW j \in 1..Len(frames'[v]),
                        frames'[u][i] = frames'[v][j]
                 PROVE  /\ u = v
                        /\ \A k \in 1..Len(frames'[u]) :
                               i <= k /\ k <= j => frames'[u][k] = frames'[u][i]
      BY DEF Together
    <2>1. \A x \in Workers : \A k \in 1..Len(frames'[x]) :
              \/ x = w /\ k = n + 1 /\ frames'[x][k] = c
              \/ k \in 1..Len(frames[x]) /\ frames'[x][k] = frames[x][k]
      BY <1>5 DEF n
    <2>2. CASE frames'[u][i] = c
      <3>1. u = w /\ i = n + 1 /\ v = w /\ j = n + 1
        BY <2>1, <2>2, <1>6
      <3>2. \A k \in 1..Len(frames'[w]) : n + 1 <= k /\ k <= n + 1 => k = n + 1
        BY <1>5
      <3> QED BY <3>1, <3>2
    <2>3. CASE frames'[u][i] # c
      <3>1. /\ i \in 1..Len(frames[u]) /\ frames'[u][i] = frames[u][i]
            /\ j \in 1..Len(frames[v]) /\ frames'[v][j] = frames[v][j]
        BY <2>1, <2>3
      <3>2. /\ u = v
            /\ \A k \in 1..Len(frames[u]) : i <= k /\ k <= j => frames[u][k] = frames[u][i]
        BY <3>1, <1>1 DEF Together
      <3>3. ASSUME NEW k \in 1..Len(frames'[u]), i <= k, k <= j
            PROVE  frames'[u][k] = frames'[u][i]
        <4>1. k \in 1..Len(frames[u])
          BY <3>1, <3>2, <3>3, <1>7
        <4>2. frames'[u][k] = frames[u][k]
          BY <4>1, <1>5 DEF n
        <4> QED BY <3>1, <3>2, <3>3, <4>1, <4>2
      <3> QED BY <3>2, <3>3
    <2> QED BY <2>2, <2>3
  <1>12. Lingering'
    <2> SUFFICES ASSUME NEW v \in Workers, NEW d \in Ctxs,
                        Len(frames'[v]) = 0, active'[v] = d
                 PROVE  streams'[d] > 0 /\ token'[d] = NoCtx /\ Unheld(d)'
      BY DEF Lingering
    <2>1. v # w
      BY <1>5
    <2>2. active[v] = d /\ Len(frames[v]) = 0
      BY <2>1, <1>4, <1>5
    <2>3. d # c
      BY <2>2, ActiveOnce
    <2>4. streams[d] > 0 /\ token[d] = NoCtx /\ Unheld(d)
      BY <2>2, <1>1 DEF Lingering
    <2>5. Unheld(d)'
      <3> SUFFICES ASSUME NEW x \in Workers, NEW k \in 1..Len(frames'[x])
                   PROVE  frames'[x][k] # d
        BY DEF Unheld
      <3>1. \/ x = w /\ k = n + 1 /\ frames'[x][k] = c
            \/ k \in 1..Len(frames[x]) /\ frames'[x][k] = frames[x][k]
        BY <1>5 DEF n
      <3> QED BY <3>1, <2>3, <2>4 DEF Unheld
    <2> QED BY <2>3, <2>4, <2>5, <1>4
  <1> QED BY <1>8, <1>9, <1>10, <1>11, <1>12 DEF Shape

\* A block of the active context is opened inside another block of it.
LEMMA NestedBlockShape ==
    ASSUME IInv, Shape, Disciplined, NEW w \in Workers, NEW c \in Ctxs,
           Live(c), active[w] = c,
           Idle(w), Push(w, c), streams' = streams,
           frames' = [frames EXCEPT ![w] = Append(@, c)]
    PROVE  Shape'
  <1> DEFINE n == Len(frames[w])
  <1>1. TypeOK /\ Nested /\ Chained /\ Bottom /\ Together /\ Lingering
    BY DEF IInv, Shape
  <1>2. token' = token /\ active' = active
    BY DEF Push
  <1>3. /\ n \in Nat
        /\ Len(frames'[w]) = n + 1
        /\ frames'[w][n + 1] = c
        /\ \A i \in 1..n : frames'[w][i] = frames[w][i]
        /\ \A v \in Workers \ {w} : frames'[v] = frames[v]
    BY <1>1, Appended
  <1>4. n > 0
    <2> SUFFICES ASSUME n = 0 PROVE FALSE
      BY <1>3
    <2>1. frames[w] = << >>
      BY <1>1 DEF TypeOK
    <2>2. streams[c] = 0
      BY <2>1 DEF Idle, Disciplined
    <2> QED BY <2>2, <1>1 DEF Lingering
  <1>5. frames[w][n] = c /\ n \in 1..n
    BY <1>1, <1>3, <1>4 DEF Nested
  <1>6. \A v \in Workers : Len(frames[v]) \in Nat
    BY <1>1 DEF TypeOK
  <1> HIDE DEF n
  <1>7. \A x \in Workers : \A k \in 1..Len(frames'[x]) :
              \/ x = w /\ k = n + 1 /\ frames'[x][k] = c
              \/ k \in 1..Len(frames[x]) /\ frames'[x][k] = frames[x][k]
    BY <1>3 DEF n
  <1>8. Nested'
    BY <1>1, <1>2, <1>3 DEF Nested
  <1>9. Chained'
    <2> SUFFICES ASSUME NEW v \in Workers,
                        NEW i \in 1..Len(frames'[v]), NEW j \in 1..Len(frames'[v]),
                        j = i + 1, frames'[v][i] # frames'[v][j]
                 PROVE  token[frames'[v][j]] = frames'[v][i]
      BY <1>2 DEF Chained
    <2>1. CASE v = w /\ j = n + 1
      <3>1. i = n
        BY <2>1, <1>3
      <3>2. frames'[v][i] = c
        BY <2>1, <3>1, <1>3, <1>5
      <3> QED BY <2>1, <3>2, <1>3
    <2>2. CASE ~(v = w /\ j = n + 1)
      <3>1. j \in 1..Len(frames[v]) /\ frames'[v][j] = frames[v][j]
        BY <2>2, <1>7
      <3>2. i \in 1..Len(frames[v])
        BY <3>1, <1>6
      <3>3. frames'[v][i] = frames[v][i]
        BY <3>2, <1>3 DEF n
      <3> QED BY <3>1, <3>2, <3>3, <1>1 DEF Chained
    <2> QED BY <2>1, <2>2
  <1>10. Bottom'
    <2> SUFFICES ASSUME NEW v \in Workers, NEW i \in 1..Len(frames'[v]), i = 1
                 PROVE  token[frames'[v][i]] = NoCtx
      BY <1>2 DEF Bottom
    <2>1. i \in 1..Len(frames[v]) /\ frames'[v][i] = frames[v][i]
      BY <1>3, <1>4, <1>7
    <2> QED BY <2>1, <1>1 DEF Bottom
  <1>11. Together'
    <2> SUFFICES ASSUME NEW u \in Workers, NEW v \in Workers,
                        NEW i \in 1..Len(frames'[u]), NEW j \in 1..Len(frames'[v]),
                        frames'[u][i] = frames'[v][j]
                 PROVE  /\ u = v
                        /\ \A k \in 1..Len(frames'[u]) :
                               i <= k /\ k <= j => frames'[u][k] = frames'[u][i]
      BY DEF Together
    <2>1. ASSUME NEW x \in Workers, NEW k \in 1..Len(frames'[x])
          PROVE  \E m \in 1..Len(frames[x]) :
                     /\ frames[x][m] = frames'[x][k]
                     /\ m = k \/ (x = w /\ k = n + 1 /\ m = n)
      <3>1. CASE x = w /\ k = n + 1
        BY <3>1, <1>3, <1>5 DEF n
      <3>2. CASE ~(x = w /\ k = n + 1)
        BY <3>2, <1>7
      <3> QED BY <3>1, <3>2
    <2>2. PICK a \in 1..Len(frames[u]) : /\ frames[u][a] = frames'[u][i]
                                         /\ a = i \/ (u = w /\ i = n + 1 /\ a = n)
      BY <2>1
    <2>3. PICK b \in 1..Len(frames[v]) : /\ frames[v][b] = frames'[v][j]
                                         /\ b = j \/ (v = w /\ j = n + 1 /\ b = n)
      BY <2>1
    <2>4. /\ u = v
          /\ \A k \in 1..Len(frames[u]) : a <= k /\ k <= b => frames[u][k] = frames[u][a]
      BY <2>2, <2>3, <1>1 DEF Together
    <2>5. ASSUME NEW k \in 1..Len(frames'[u]), i <= k, k <= j
          PROVE  frames'[u][k] = frames'[u][i]
      <3>1. PICK m \in 1..Len(frames[u]) : /\ frames[u][m] = frames'[u][k]
                                           /\ m = k \/ (u = w /\ k = n + 1 /\ m = n)
        BY <2>1
      <3>2. a <= m /\ m <= b
        BY <2>2, <2>3, <2>4, <2>5, <3>1, <1>3, <1>6 DEF n
      <3> QED BY <2>2, <2>4, <3>1, <3>2
    <2> QED BY <2>4, <2>5
  <1>12. Lingering'
    <2> SUFFICES ASSUME NEW v \in Workers, NEW d \in Ctxs,
                        Len(frames'[v]) = 0, active[v] = d
                 PROVE  streams[d] > 0 /\ token[d] = NoCtx /\ Unheld(d)'
      BY <1>2 DEF Lingering
    <2>1. v # w
      BY <1>3
    <2>2. Len(frames[v]) = 0
      BY <2>1, <1>3
    <2>3. d # c
      BY <2>1, ActiveOnce
    <2>4. streams[d] > 0 /\ token[d] = NoCtx /\ Unheld(d)
      BY <2>2, <1>1 DEF Lingering
    <2>5. Unheld(d)'
      BY <2>3, <2>4, <1>7 DEF Unheld
    <2> QED BY <2>4, <2>5
  <1> QED BY <1>8, <1>9, <1>10, <1>11, <1>12 DEF Shape

\* Blocks that end do not part those that stay.
LEMMA TogetherShrinks ==
    ASSUME Together,
           \A v \in Workers : \A i \in 1..Len(frames'[v]) :
               i \in 1..Len(frames[v]) /\ frames'[v][i] = frames[v][i]
    PROVE  Together'
  <1> SUFFICES ASSUME NEW u \in Workers, NEW v \in Workers,
                      NEW i \in 1..Len(frames'[u]), NEW j \in 1..Len(frames'[v]),
                      frames'[u][i] = frames'[v][j]
               PROVE  /\ u = v
                      /\ \A k \in 1..Len(frames'[u]) :
                             i <= k /\ k <= j => frames'[u][k] = frames'[u][i]
    BY DEF Together
  <1>1. /\ i \in 1..Len(frames[u]) /\ frames'[u][i] = frames[u][i]
        /\ j \in 1..Len(frames[v]) /\ frames'[v][j] = frames[v][j]
    OBVIOUS
  <1>2. frames[u][i] = frames[v][j]
    BY <1>1
  <1>3. /\ u = v
        /\ \A k \in 1..Len(frames[u]) : i <= k /\ k <= j => frames[u][k] = frames[u][i]
    BY ONLY Together, u \in Workers, v \in Workers, <1>1, <1>2 DEF Together
  <1>4. ASSUME NEW k \in 1..Len(frames'[u]), i <= k, k <= j
        PROVE  frames'[u][k] = frames'[u][i]
    <2>1. k \in 1..Len(frames[u]) /\ frames'[u][k] = frames[u][k]
      OBVIOUS
    <2> QED BY <2>1, <1>1, <1>3, <1>4
  <1> QED BY <1>3, <1>4

\* The end of a block pops its context and makes the one around it active again.
LEMMA ExitShape ==
    ASSUME IInv, IInv', Shape, NoneLost, Disciplined, NEW w \in Workers, Exit(w),
           NEW n, n = Len(frames[w]), NEW c, c = frames[w][n]
    PROVE  Shape' /\ lost' = lost /\ c \in Ctxs /\ Pop(w, c)
  <1>0. c = Top(w)
    OBVIOUS
  <1>1. /\ TypeOK /\ DepthOK /\ PushesOwed /\ TypeOK' /\ DepthOK'
        /\ Nested /\ Chained /\ Bottom /\ Together /\ Lingering
    BY DEF IInv, Shape
  <1>2. /\ frames[w] # << >> /\ frames' = Leave(w)
        /\ Pop(w, c) \/ PopRefused(w, c)
        /\ n = 1 \/ streams[c] = 0
        /\ UNCHANGED <<request, captured, streams, served, pushed>>
    BY <1>0 DEF Exit, Disciplined
  <1>3. /\ n \in Nat \ {0} /\ c \in Ctxs
        /\ Len(frames'[w]) = n - 1
        /\ \A i \in 1..(n - 1) : frames'[w][i] = frames[w][i]
        /\ \A v \in Workers \ {w} : frames'[v] = frames[v]
    BY <1>0, <1>1, <1>2, LeaveType
  <1>4. active[w] = c
    BY <1>1, <1>3 DEF Nested
  <1>5. /\ Live(c)
        /\ \A v \in Workers : active[v] = c => v = w
        /\ \A d \in Ctxs : token[d] # c
    BY <1>3, <1>4, ActiveOnce
  <1>6. Pop(w, c) /\ lost' = lost
    BY <1>2, <1>4, <1>5 DEF PopRefused, PopAccepted, Pop
  <1>7. \A v \in Workers : Len(frames[v]) \in Nat
    BY <1>1 DEF TypeOK
  <1>8. IInv' /\ (torn' # torn => Held(c)' = {} /\ streams'[c] = 0)
    BY <1>0, ExitIInv
  <1>9. /\ pushCount[c] \in Nat /\ streams[c] \in Nat /\ torn[c] \in Nat
        /\ pushCount[c] = Cardinality(Held(c)) + streams[c]
    <2>1. /\ pushCount[c] \in Nat /\ streams[c] \in Nat /\ torn[c] \in Nat
          /\ lost[c] = 0
      BY <1>1, <1>3 DEF NoneLost, TypeOK
    <2>2. pushCount[c] = Cardinality(Held(c)) + streams[c] + lost[c]
      BY <1>1, <1>3 DEF PushesOwed
    <2>3. Cardinality(Held(c)) \in Nat
      BY <1>3, HeldFinite
    <2> QED BY <2>1, <2>2, <2>3
  <1>10. /\ Cardinality(Held(c)') = Cardinality(Held(c)) - 1
         /\ Cardinality(Held(c)) \in Nat /\ Cardinality(Held(c)') \in Nat
    BY <1>0, <1>1, <1>2, <1>3, HeldLeave, HeldFinite
  <1>11. Unheld(c)' => pushCount[c] = 1 + streams[c]
    <2> SUFFICES ASSUME Unheld(c)' PROVE pushCount[c] = 1 + streams[c]
      OBVIOUS
    <2>1. Held(c)' = {}
      BY <1>1, <1>3, UnheldHeld
    <2>2. Cardinality(Held(c)') = 0
      BY <2>1, FS_EmptySet
    <2> QED BY <2>2, <1>9, <1>10
  <1>12. CASE ~(pushCount[c] > 1)
    <2>1. /\ torn' = [torn EXCEPT ![c] = @ + 1]
          /\ active' = [active EXCEPT ![w] = token[c]]
          /\ token' = [token EXCEPT ![c] = NoToken]
      BY <1>6, <1>12 DEF Pop
    <2>2. torn' # torn
      <3>1. torn'[c] = torn[c] + 1
        BY <1>1, <1>3, <2>1 DEF TypeOK
      <3> QED BY <1>9, <3>1
    <2>3. Unheld(c)' /\ streams'[c] = 0
      BY <1>1, <1>3, <1>8, <2>2, UnheldHeld
    <2>4. /\ active'[w] = token[c] /\ token'[c] = NoToken
          /\ \A d \in Ctxs \ {c} : token'[d] = token[d]
          /\ \A v \in Workers \ {w} : active'[v] = active[v]
      BY <1>1, <1>3, <2>1 DEF TypeOK
    <2>5. \A v \in Workers : \A i \in 1..Len(frames'[v]) :
              frames'[v][i] \in Ctxs \ {c}
      <3>1. \A v \in Workers : frames'[v] \in Seq(Ctxs)
        BY <1>1 DEF TypeOK
      <3>2. \A v \in Workers : \A i \in 1..Len(frames'[v]) : frames'[v][i] \in Ctxs
        BY <3>1
      <3>3. \A v \in Workers : \A i \in 1..Len(frames'[v]) : frames'[v][i] # c
        BY <2>3 DEF Unheld
      <3> QED BY <3>2, <3>3
    <2>6. \A v \in Workers : \A i \in 1..Len(frames'[v]) :
              i \in 1..Len(frames[v]) /\ frames'[v][i] = frames[v][i]
      BY <1>3
    <2>7. Nested'
      <3> SUFFICES ASSUME NEW v \in Workers, Len(frames'[v]) > 0
                   PROVE  active'[v] = frames'[v][Len(frames'[v])]
        BY DEF Nested
      <3>1. CASE v = w
        <4>1. n - 1 \in 1..n /\ n \in 1..n /\ n - 1 \in 1..(n - 1) /\ n = (n - 1) + 1
          BY <3>1, <1>3
        <4>2. frames'[w][n - 1] = frames[w][n - 1] /\ frames'[w][n - 1] # c
          BY <4>1, <1>3, <2>5
        <4>3. token[frames[w][n]] = frames[w][n - 1]
          BY <4>1, <4>2, <1>1 DEF Chained
        <4> QED BY <3>1, <4>2, <4>3, <2>4, <1>3
      <3>2. CASE v # w
        BY <3>2, <1>1, <1>3, <2>4 DEF Nested
      <3> QED BY <3>1, <3>2
    <2>8. Chained'
      <3> SUFFICES ASSUME NEW v \in Workers,
                          NEW i \in 1..Len(frames'[v]), NEW j \in 1..Len(frames'[v]),
                          j = i + 1, frames'[v][i] # frames'[v][j]
                   PROVE  token'[frames'[v][j]] = frames'[v][i]
        BY DEF Chained
      <3>1. token[frames[v][j]] = frames[v][i]
        BY <1>1, <2>6 DEF Chained
      <3> QED BY <3>1, <2>4, <2>5, <2>6
    <2>9. Bottom'
      BY <1>1, <2>4, <2>5, <2>6 DEF Bottom
    <2>10. Lingering'
      <3> SUFFICES ASSUME NEW v \in Workers, NEW d \in Ctxs,
                          Len(frames'[v]) = 0, active'[v] = d
                   PROVE  streams'[d] > 0 /\ token'[d] = NoCtx /\ Unheld(d)'
        BY DEF Lingering
      <3>1. CASE v = w
        <4>0. n = 1
          <5>1. Len(frames'[w]) = 0 /\ Len(frames'[w]) = n - 1 /\ n \in Nat
            BY <3>1, <1>3
          <5> QED BY ONLY <5>1
        <4>1. n = 1 /\ 1 \in 1..n
          BY <4>0
        <4>2. token[c] = NoCtx
          BY <4>1, <1>1 DEF Bottom
        <4> QED BY <3>1, <4>2, <2>4, CtxAssumption
      <3>2. CASE v # w
        <4>1. active[v] = d /\ Len(frames[v]) = 0
          BY <3>2, <1>3, <2>4
        <4>2. d # c
          BY <3>2, <4>1, <1>5
        <4>3. streams[d] > 0 /\ token[d] = NoCtx /\ Unheld(d)
          BY <4>1, <1>1 DEF Lingering
        <4>4. Unheld(d)'
          BY <4>3, <2>6 DEF Unheld
        <4> QED BY <4>2, <4>3, <4>4, <1>2, <2>4
      <3> QED BY <3>1, <3>2
    <2>11. Together'
      BY <1>1, <2>6, TogetherShrinks
    <2> QED BY <2>7, <2>8, <2>9, <2>10, <2>11, <1>3, <1>6 DEF Shape
  <1>13. CASE pushCount[c] > 1
    <2>1. active' = active /\ token' = token
      BY <1>6, <1>13 DEF Pop
    <2>2. Unheld(c)' => n = 1 /\ streams[c] > 0
      BY <1>2, <1>9, <1>11, <1>13
    <2>6. \A v \in Workers : \A i \in 1..Len(frames'[v]) :
              i \in 1..Len(frames[v]) /\ frames'[v][i] = frames[v][i]
      BY <1>3
    <2>7. Nested'
      <3> SUFFICES ASSUME NEW v \in Workers, Len(frames'[v]) > 0
                   PROVE  active'[v] = frames'[v][Len(frames'[v])]
        BY DEF Nested
      <3>1. CASE v = w
        <4>1. n - 1 \in 1..n /\ n \in 1..n /\ n - 1 \in 1..(n - 1)
          BY <3>1, <1>3
        <4>2. ~Unheld(c)'
          BY <4>1, <2>2, <1>3
        <4>3. PICK x \in Workers : \E k \in 1..Len(frames'[x]) : frames'[x][k] = c
          BY <4>2 DEF Unheld
        <4>4. PICK k \in 1..Len(frames'[x]) : frames'[x][k] = c
          BY <4>3
        <4>5. k \in 1..Len(frames[x]) /\ frames[x][k] = frames[w][n]
          BY <4>4, <2>6
        <4>6. /\ x = w
              /\ \A m \in 1..Len(frames[x]) : k <= m /\ m <= n => frames[x][m] = frames[x][k]
          BY <4>1, <4>5, <1>1 DEF Together
        <4>7. k <= n - 1
          BY <4>6, <1>3
        <4>8. frames[w][n - 1] = c
          BY <4>1, <4>5, <4>6, <4>7, <1>3
        <4> QED BY <3>1, <4>1, <4>8, <1>3, <1>4, <2>1
      <3>2. CASE v # w
        BY <3>2, <1>1, <1>3, <2>1 DEF Nested
      <3> QED BY <3>1, <3>2
    <2>8. Chained'
      BY <1>1, <2>1, <2>6 DEF Chained
    <2>9. Bottom'
      BY <1>1, <2>1, <2>6 DEF Bottom
    <2>10. Lingering'
      <3> SUFFICES ASSUME NEW v \in Workers, NEW d \in Ctxs,
                          Len(frames'[v]) = 0, active[v] = d
                   PROVE  streams[d] > 0 /\ token[d] = NoCtx /\ Unheld(d)'
        BY <1>2, <2>1 DEF Lingering
      <3>1. CASE v = w
        <4>0. n = 1
          <5>1. Len(frames'[w]) = 0 /\ Len(frames'[w]) = n - 1 /\ n \in Nat
            BY <3>1, <1>3
          <5> QED BY ONLY <5>1
        <4>1. n = 1 /\ 1 \in 1..n /\ d = c
          BY <3>1, <4>0, <1>4
        <4>2. token[c] = NoCtx
          BY <4>1, <1>1 DEF Bottom
        <4>3. Unheld(c)'
          <5> SUFFICES ASSUME NEW x \in Workers, NEW k \in 1..Len(frames'[x]),
                              frames'[x][k] = c
                       PROVE  FALSE
            BY DEF Unheld
          <5>1. k \in 1..Len(frames[x]) /\ frames[x][k] = frames[w][n]
            BY <2>6, <4>1
          <5>2. n \in 1..Len(frames[w])
            BY <4>1
          <5>3. x = w
            BY <5>1, <5>2, <1>1 DEF Together
          <5> QED BY <5>3, <4>1, <1>3
        <4> QED BY <4>1, <4>2, <4>3, <2>2
      <3>2. CASE v # w
        <4>1. Len(frames[v]) = 0
          BY <3>2, <1>3
        <4>3. streams[d] > 0 /\ token[d] = NoCtx /\ Unheld(d)
          BY <4>1, <1>1 DEF Lingering
        <4>4. Unheld(d)'
          BY <4>3, <2>6 DEF Unheld
        <4> QED BY <4>3, <4>4
      <3> QED BY <3>1, <3>2
    <2>11. Together'
      BY <1>1, <2>6, TogetherShrinks
    <2> QED BY <2>7, <2>8, <2>9, <2>10, <2>11, <1>3, <1>6 DEF Shape
  <1> QED BY <1>6, <1>12, <1>13

\* The end of a generator of the active context pops it.
LEMMA CloseStreamShape ==
    ASSUME IInv, IInv', Shape, NoneLost, Disciplined,
           NEW w \in Workers, NEW c \in Ctxs, CloseStream(w, c)
    PROVE  Shape' /\ lost' = lost /\ Pop(w, c)
  <1>1. /\ TypeOK /\ DepthOK /\ PushesOwed /\ TypeOK' /\ DepthOK'
        /\ Nested /\ Chained /\ Bottom /\ Together /\ Lingering
    BY DEF IInv, Shape
  <1>2. /\ active[w] = c /\ streams[c] > 0
        /\ Pop(w, c) \/ PopRefused(w, c)
        /\ streams' = [streams EXCEPT ![c] = @ - 1]
        /\ UNCHANGED <<request, captured, frames, served, pushed>>
    BY DEF CloseStream, Disciplined
  <1>3. /\ Live(c)
        /\ \A v \in Workers : active[v] = c => v = w
        /\ \A d \in Ctxs : token[d] # c
    BY <1>2, ActiveOnce
  <1>4. Pop(w, c) /\ lost' = lost
    BY <1>2, <1>3 DEF PopRefused, PopAccepted, Pop
  <1>5. \A d \in Ctxs : Unheld(d)' <=> Unheld(d)
    BY <1>2 DEF Unheld
  <1>6. IInv' /\ (torn' # torn => Held(c)' = {} /\ streams'[c] = 0)
    BY CloseStreamIInv
  <1>7. /\ streams'[c] = streams[c] - 1 /\ streams[c] \in Nat
        /\ \A d \in Ctxs \ {c} : streams'[d] = streams[d]
    BY <1>1, <1>2 DEF TypeOK
  <1>8. /\ pushCount[c] \in Nat /\ torn[c] \in Nat
        /\ pushCount[c] = Cardinality(Held(c)) + streams[c]
        /\ Cardinality(Held(c)) \in Nat
    BY <1>1, <1>7, HeldFinite DEF PushesOwed, NoneLost, TypeOK
  <1>9. Together'
    BY <1>1, <1>2 DEF Together
  <1>10. CASE pushCount[c] > 1
    <2>1. active' = active /\ token' = token
      BY <1>4, <1>10 DEF Pop
    <2>2. Nested' /\ Chained' /\ Bottom'
      BY <1>1, <1>2, <2>1 DEF Nested, Chained, Bottom
    <2>3. Lingering'
      <3> SUFFICES ASSUME NEW v \in Workers, NEW d \in Ctxs,
                          Len(frames[v]) = 0, active[v] = d
                   PROVE  streams'[d] > 0 /\ token[d] = NoCtx /\ Unheld(d)'
        BY <1>2, <2>1 DEF Lingering
      <3>1. streams[d] > 0 /\ token[d] = NoCtx /\ Unheld(d)
        BY <1>1 DEF Lingering
      <3>2. CASE d = c
        <4>1. Held(c) = {}
          BY <3>1, <3>2, <1>1, UnheldHeld
        <4>2. Cardinality(Held(c)) = 0
          BY <4>1, FS_EmptySet
        <4>3. streams'[c] > 0
          BY <4>2, <1>7, <1>8, <1>10
        <4> QED BY <3>1, <3>2, <4>3, <1>5
      <3>3. CASE d # c
        BY <3>1, <3>3, <1>5, <1>7
      <3> QED BY <3>2, <3>3
    <2> QED BY <2>2, <2>3, <1>4, <1>9 DEF Shape
  <1>11. CASE ~(pushCount[c] > 1)
    <2>1. /\ torn' = [torn EXCEPT ![c] = @ + 1]
          /\ active' = [active EXCEPT ![w] = token[c]]
          /\ token' = [token EXCEPT ![c] = NoToken]
      BY <1>4, <1>11 DEF Pop
    <2>2. torn' # torn
      <3>1. torn'[c] = torn[c] + 1
        BY <1>1, <2>1 DEF TypeOK
      <3> QED BY <1>8, <3>1
    <2>3. Unheld(c)
      BY <1>1, <1>5, <1>6, <2>2, UnheldHeld
    <2>4. /\ active'[w] = token[c] /\ token'[c] = NoToken
          /\ \A d \in Ctxs \ {c} : token'[d] = token[d]
          /\ \A v \in Workers \ {w} : active'[v] = active[v]
      BY <1>1, <2>1 DEF TypeOK
    <2>5. \A v \in Workers : \A i \in 1..Len(frames[v]) :
              frames[v][i] \in Ctxs \ {c}
      <3>1. \A v \in Workers : frames[v] \in Seq(Ctxs)
        BY <1>1 DEF TypeOK
      <3>2. \A v \in Workers : \A i \in 1..Len(frames[v]) : frames[v][i] \in Ctxs
        BY <3>1
      <3>3. \A v \in Workers : \A i \in 1..Len(frames[v]) : frames[v][i] # c
        BY <2>3 DEF Unheld
      <3> QED BY <3>2, <3>3
    <2>6. Len(frames[w]) = 0
      <3>1. Len(frames[w]) \in Nat
        BY <1>1 DEF TypeOK
      <3> SUFFICES ASSUME Len(frames[w]) > 0 PROVE FALSE
        BY <3>1
      <3>2. frames[w][Len(frames[w])] = c
        BY <1>1, <1>2 DEF Nested
      <3>3. Len(frames[w]) \in 1..Len(frames[w])
        BY <3>1
      <3> QED BY <2>5, <3>2, <3>3
    <2>7. token[c] = NoCtx
      BY <1>1, <1>2, <2>6 DEF Lingering
    <2>8. Nested'
      BY <1>1, <1>2, <2>4, <2>6 DEF Nested
    <2>9. Chained'
      BY <1>1, <1>2, <2>4, <2>5 DEF Chained
    <2>10. Bottom'
      BY <1>1, <1>2, <2>4, <2>5 DEF Bottom
    <2>11. Lingering'
      <3> SUFFICES ASSUME NEW v \in Workers, NEW d \in Ctxs,
                          Len(frames[v]) = 0, active'[v] = d
                   PROVE  streams'[d] > 0 /\ token'[d] = NoCtx /\ Unheld(d)'
        BY <1>2 DEF Lingering
      <3>1. v # w
        BY <2>4, <2>7, CtxAssumption
      <3>2. active[v] = d /\ d # c
        BY <3>1, <1>3, <2>4
      <3>3. streams[d] > 0 /\ token[d] = NoCtx /\ Unheld(d)
        BY <3>2, <1>1 DEF Lingering
      <3> QED BY <3>2, <3>3, <1>5, <1>7, <2>4
    <2> QED BY <2>8, <2>9, <2>10, <2>11, <1>4, <1>9 DEF Shape
  <1> QED BY <1>4, <1>10, <1>11

\* A generator starts inside a block: one more push of the active context.
LEMMA OpenStreamShape ==
    ASSUME IInv, Shape, NEW w \in Workers, NEW c \in Ctxs, active[w] = c, Push(w, c),
           frames' = frames, streams' = [streams EXCEPT ![c] = @ + 1]
    PROVE  Shape'
  <1>1. TypeOK /\ Nested /\ Chained /\ Bottom /\ Together /\ Lingering
    BY DEF IInv, Shape
  <1>2. active' = active /\ token' = token
    BY ActiveOnce DEF Push
  <1>3. \A d \in Ctxs : streams[d] > 0 => streams'[d] > 0
    BY <1>1 DEF TypeOK
  <1>4. Lingering'
    BY <1>1, <1>2, <1>3 DEF Lingering, Unheld
  <1>5. Nested' /\ Chained' /\ Bottom' /\ Together'
    BY <1>1, <1>2 DEF Nested, Chained, Bottom, Together
  <1> QED BY <1>4, <1>5 DEF Shape

\* A push makes its context live and no other.
LEMMA PushLive ==
    ASSUME TypeOK, NEW w \in Workers, NEW c \in Ctxs, Push(w, c)
    PROVE  \A d \in Ctxs : Live(d)' <=> Live(d) \/ d = c
  <1>1. CASE Live(c)
    BY <1>1 DEF Push
  <1>2. CASE ~Live(c)
    <2>1. token' = [token EXCEPT ![c] = active[w]]
      BY <1>2 DEF Push
    <2>2. active[w] # NoToken
      BY CtxAssumption DEF TypeOK
    <2> QED BY <2>1, <2>2 DEF TypeOK
  <1> QED BY <1>1, <1>2

\* Serve, Enter, RunCopy and Reenter, by a caller in order.
LEMMA OpenBlockOrderly ==
    ASSUME IInv, Orderly, Disciplined, NEW w \in Workers, NEW c \in Ctxs,
           OpenBlock(w, c), Live(c) => active[w] = c,
           Born(c)', \A d \in Ctxs : Born(d) => Born(d)',
           served' = served \/ served' = served \cup {c}
    PROVE  Orderly'
  <1>1. /\ TypeOK /\ Shape /\ Known /\ ServedTorn /\ NoneLost
        /\ Idle(w) /\ Push(w, c)
        /\ frames' = [frames EXCEPT ![w] = Append(@, c)]
        /\ UNCHANGED <<captured, streams, closed, lost, torn>>
    BY DEF IInv, Orderly, OpenBlock
  <1>2. Shape'
    <2>1. CASE Live(c)
      BY <1>1, <2>1, NestedBlockShape
    <2>2. CASE ~Live(c)
      BY <1>1, <2>2, FreshBlockShape
    <2> QED BY <2>1, <2>2
  <1>3. \A d \in Ctxs : Live(d)' <=> Live(d) \/ d = c
    BY <1>1, PushLive
  <1>4. Known'
    BY <1>1, <1>3 DEF Known
  <1>5. ServedTorn'
    <2>1. served \subseteq Ctxs
      BY <1>1 DEF TypeOK
    <2> SUFFICES ASSUME NEW d \in served' PROVE Live(d)' \/ torn'[d] > 0
      BY DEF ServedTorn
    <2>2. CASE d = c
      BY <2>2, <1>3
    <2>3. CASE d # c
      BY <2>1, <2>3, <1>1, <1>3 DEF ServedTorn
    <2> QED BY <2>2, <2>3
  <1>6. NoneLost'
    BY <1>1 DEF NoneLost
  <1> QED BY <1>2, <1>4, <1>5, <1>6 DEF Orderly

\* A pop ends the life of its own context only, and tears it down as it does.
LEMMA PopOrderly ==
    ASSUME IInv, Orderly, Shape', NEW w \in Workers, NEW c \in Ctxs, Pop(w, c),
           UNCHANGED <<request, captured, served>>
    PROVE  Orderly'
  <1>1. /\ TypeOK /\ Shape /\ Known /\ ServedTorn /\ NoneLost
    BY DEF IInv, Orderly
  <1>2. ASSUME NEW d \in Ctxs
        PROVE  /\ Live(d)' => Live(d)
               /\ Live(d) => Live(d)' \/ torn'[d] > 0
               /\ torn[d] > 0 => torn'[d] > 0
    <2>1. CASE pushCount[c] > 1
      BY <2>1 DEF Pop
    <2>2. CASE ~(pushCount[c] > 1)
      <3>1. /\ torn' = [torn EXCEPT ![c] = @ + 1]
            /\ token' = [token EXCEPT ![c] = NoToken]
        BY <2>2 DEF Pop
      <3>2. torn[c] \in Nat /\ torn'[c] = torn[c] + 1 /\ token'[c] = NoToken
        BY <3>1, <1>1 DEF TypeOK
      <3>3. d # c => torn'[d] = torn[d] /\ token'[d] = token[d]
        BY <3>1, <1>1 DEF TypeOK
      <3> QED BY <3>2, <3>3
    <2> QED BY <2>1, <2>2
  <1>3. Known'
    BY <1>1, <1>2 DEF Known
  <1>4. ServedTorn'
    <2>1. served \subseteq Ctxs
      BY <1>1 DEF TypeOK
    <2> QED BY <1>1, <1>2, <2>1 DEF ServedTorn
  <1>5. NoneLost'
    BY <1>1 DEF NoneLost, Pop
  <1> QED BY <1>3, <1>4, <1>5 DEF Orderly

\* Nothing is pushed at first.
LEMMA InitOrderly == Init => Orderly
  <1> SUFFICES ASSUME Init PROVE Orderly
    OBVIOUS
  <1>1. \A w \in Workers : Len(frames[w]) = 0 /\ active[w] = NoCtx
    BY DEF Init
  <1>2. Nested /\ Chained /\ Bottom /\ Together /\ Lingering
    BY <1>1, CtxAssumption DEF Nested, Chained, Bottom, Together, Lingering
  <1> QED BY <1>2 DEF Init, Orderly, Shape, Known, ServedTorn, NoneLost

\* A context that was not created yet is not pushed; what a context is created
\* for is a request or none.
LEMMA CreateBorn ==
    ASSUME IInv, Known, NEW c \in Ctxs,
           \E r \in FreshReqs \cup SharedReqs \cup {NoReq} : Create(c, r)
    PROVE  /\ ~Live(c) /\ Born(c)'
           /\ \A d \in Ctxs : Born(d) => Born(d)'
  <1>1. TypeOK
    BY DEF IInv
  <1>2. PICK r \in FreshReqs \cup SharedReqs \cup {NoReq} : Create(c, r)
    OBVIOUS
  <1>3. r # Unborn
    <2>1. CASE r \in FreshReqs
      BY <2>1, CtxAssumption DEF FreshReqs
    <2>2. CASE r \in SharedReqs
      BY <2>2, <1>1 DEF SharedReqs, Known, TypeOK
    <2>3. CASE r = NoReq
      BY <2>3, CtxAssumption
    <2> QED BY <2>1, <2>2, <2>3
  <1>4. ~Born(c) /\ request' = [request EXCEPT ![c] = r]
    BY <1>2 DEF Create
  <1>5. ~Live(c)
    BY <1>4 DEF Known
  <1> QED BY <1>1, <1>3, <1>4, <1>5 DEF TypeOK

\* Callers in order stay in order.
LEMMA NextOrderly ==
    ASSUME IInv, Orderly, Disciplined, [Next]_vars
    PROVE  Orderly'
  <1>1. TypeOK /\ Shape /\ Known /\ ServedTorn /\ NoneLost /\ IInv'
    BY NextIInv DEF IInv, Orderly
  <1>2. CASE UNCHANGED vars
    BY <1>2 DEF vars, Orderly, Shape, Nested, Chained, Bottom, Together, Lingering,
                Unheld, Known, ServedTorn, NoneLost
  <1>3. ASSUME NEW w \in Workers, Step(w)
        PROVE  Orderly'
    <2>1. ASSUME NEW c \in Ctxs, Serve(w, c) PROVE Orderly'
      <3>1. ~Live(c) /\ Born(c)' /\ \A d \in Ctxs : Born(d) => Born(d)'
        BY <2>1, <1>1, CreateBorn DEF Serve
      <3>2. OpenBlock(w, c) /\ served' = served \cup {c}
        BY <2>1 DEF Serve
      <3> QED BY <3>1, <3>2, OpenBlockOrderly
    <2>2. ASSUME NEW c \in Ctxs, Enter(w, c) PROVE Orderly'
      <3>1. ~Live(c) /\ Born(c)' /\ \A d \in Ctxs : Born(d) => Born(d)'
        BY <2>2, <1>1, CreateBorn DEF Enter
      <3>2. OpenBlock(w, c) /\ served' = served
        BY <2>2 DEF Enter
      <3> QED BY <3>1, <3>2, OpenBlockOrderly
    <2>3. ASSUME NEW c \in Ctxs, RunCopy(w, c) PROVE Orderly'
      <3>1. ~Live(c) /\ Born(c)' /\ \A d \in Ctxs : Born(d) => Born(d)'
        BY <2>3, <1>1, CreateBorn DEF RunCopy
      <3>2. OpenBlock(w, c) /\ served' = served
        BY <2>3 DEF RunCopy
      <3> QED BY <3>1, <3>2, OpenBlockOrderly
    <2>4. ASSUME NEW c \in Ctxs, Reenter(w, c) PROVE Orderly'
      <3>1. /\ Born(c)
            /\ Live(c) => active[w] = c
            /\ OpenBlock(w, c) /\ request' = request /\ served' = served
        BY <2>4 DEF Reenter, Disciplined
      <3>2. Born(c)' /\ \A d \in Ctxs : Born(d) => Born(d)'
        BY <3>1
      <3> QED BY <3>1, <3>2, OpenBlockOrderly
    <2>5. ASSUME NEW c \in Ctxs, EnterFails(w, c) PROVE Orderly'
      BY <2>5 DEF EnterFails, Disciplined
    <2>6. ASSUME NEW c \in Ctxs, CloseStream(w, c) PROVE Orderly'
      <3>1. Shape' /\ Pop(w, c)
        BY <2>6, <1>1, CloseStreamShape
      <3>2. UNCHANGED <<request, captured, served>>
        BY <2>6 DEF CloseStream
      <3> QED BY <3>1, <3>2, PopOrderly
    <2>7. CASE Exit(w)
      <3>1. PICK n, c : n = Len(frames[w]) /\ c = frames[w][n]
        OBVIOUS
      <3>2. Shape' /\ c \in Ctxs /\ Pop(w, c)
        BY <2>7, <3>1, <1>1, ExitShape
      <3>3. UNCHANGED <<request, captured, served>>
        BY <2>7 DEF Exit
      <3> QED BY <3>2, <3>3, PopOrderly
    <2>8. CASE OpenStream(w)
      <3>1. PICK c \in Ctxs : active[w] = c
        BY <2>8, <1>1 DEF OpenStream, Active, TypeOK
      <3>2. /\ Push(w, c) /\ streams' = [streams EXCEPT ![c] = @ + 1]
            /\ UNCHANGED <<request, captured, frames, served, lost, torn>>
        BY <2>8, <3>1 DEF OpenStream
      <3>3. Shape'
        BY <1>1, <3>1, <3>2, OpenStreamShape
      <3>4. token' = token
        BY <3>1, <3>2, ActiveOnce DEF Push
      <3> QED BY <1>1, <3>2, <3>3, <3>4 DEF Orderly, Known, ServedTorn, NoneLost
    <2>9. CASE Capture(w)
      <3>1. PICK c \in Ctxs : active[w] = c
        BY <2>9, <1>1 DEF Capture, Active, TypeOK
      <3>2. /\ captured' = captured \cup {c}
            /\ UNCHANGED <<active, token, request, frames, streams, served, lost, torn>>
        BY <2>9, <3>1 DEF Capture
      <3>3. Born(c)
        BY <1>1, <3>1, ActiveOnce DEF Known
      <3>4. Known'
        BY <1>1, <3>2, <3>3 DEF Known
      <3>5. Shape'
        BY <1>1, <3>2 DEF Shape, Nested, Chained, Bottom, Together, Lingering, Unheld
      <3> QED BY <1>1, <3>2, <3>4, <3>5 DEF Orderly, ServedTorn, NoneLost
    <2> QED BY <1>3, <2>1, <2>2, <2>3, <2>4, <2>5, <2>6, <2>7, <2>8, <2>9 DEF Step
  <1> QED BY <1>2, <1>3 DEF Next

\* For callers in order, the teardown of every context that wsgi_app pushed has
\* run when no block and no generator is left: no refused pop, no nesting and no
\* overlap of workers makes it be skipped (docstring of wsgi_app, app.py:1586).
THEOREM TeardownRuns == Disciplined => (Spec => []TeardownEvenOnError)
  <1> SUFFICES ASSUME Disciplined PROVE Spec => []TeardownEvenOnError
    OBVIOUS
  <1>1. IInv /\ Orderly /\ [Next]_vars => Orderly'
    BY NextOrderly
  <1>2. IInv /\ Orderly => TeardownEvenOnError
    <2> SUFFICES ASSUME IInv, Orderly, Quiet, NEW c \in served
                 PROVE  torn[c] > 0
      BY DEF TeardownEvenOnError
    <2>1. /\ TypeOK /\ DepthOK /\ PushesOwed /\ CountsMatch /\ ServedTorn /\ NoneLost
          /\ c \in Ctxs
      BY DEF IInv, Linked, Orderly, TypeOK
    <2>2. \A w \in Workers : Len(frames[w]) = 0
      BY DEF Quiet
    <2>3. Unheld(c)
      BY <2>2 DEF Unheld
    <2>4. Held(c) = {}
      BY <2>1, <2>3, UnheldHeld
    <2>5. Cardinality(Held(c)) = 0
      BY <2>4, FS_EmptySet
    <2>6. pushCount[c] = 0
      BY <2>1, <2>5 DEF PushesOwed, NoneLost, Quiet
    <2>7. ~Live(c)
      BY <2>1, <2>6 DEF CountsMatch
    <2> QED BY <2>1, <2>7 DEF ServedTorn
  <1> QED BY InitOrderly, Invariance, <1>1, <1>2, PTL DEF Spec

-----------------------------------------------------------------------------
(* The tokens link the contexts of a worker into its stack. *)

\* s lists the contexts of w, the active one last.
IsList(s, w) ==
    /\ Len(s) = 0 => active[w] = NoCtx
    /\ Len(s) > 0 => active[w] = s[Len(s)]
    /\ \A i \in 1..Len(s) : token[s[i]] = IF i = 1 THEN NoCtx ELSE s[i - 1]
    /\ \A i, j \in 1..Len(s) : s[i] = s[j] => i = j

\* The list has no more contexts than there are.
LEMMA ListLength ==
    ASSUME NEW s \in Seq(Ctxs), \A i, j \in 1..Len(s) : s[i] = s[j] => i = j
    PROVE  Len(s) \in Nat /\ Cardinality(Ctxs) \in Nat /\ Len(s) <= Cardinality(Ctxs)
  <1>1. /\ Len(s) \in Nat /\ Cardinality(Ctxs) \in Nat
        /\ IsFiniteSet(1..Len(s)) /\ Cardinality(1..Len(s)) = Len(s)
    <2>1. Len(s) \in Nat
      OBVIOUS
    <2>2. /\ IsFiniteSet(1..Len(s))
          /\ Cardinality(1..Len(s)) = IF 1 > Len(s) THEN 0 ELSE Len(s) - 1 + 1
      BY <2>1, FS_Interval
    <2> QED BY <2>1, <2>2, FS_CardinalityType, FiniteAssumption
  <1> DEFINE f == [i \in 1..Len(s) |-> s[i]]
  <1>2. f \in [1..Len(s) -> Ctxs]
    OBVIOUS
  <1>3. \A i, j \in 1..Len(s) : f[i] = f[j] => i = j
    OBVIOUS
  <1> HIDE DEF f
  <1> SUFFICES ASSUME Cardinality(Ctxs) < Len(s) PROVE FALSE
    BY <1>1
  <1>4. \E i, j \in 1..Len(s) : i # j /\ f[i] = f[j]
    BY <1>1, <1>2, FiniteAssumption, FS_PigeonHole
  <1> QED BY <1>3, <1>4

\* Unfolding takes one token after the other.
LEMMA Unfolds ==
    ASSUME NEW w \in Workers, NEW K, K = Cardinality(Ctxs),
           active[w] \in Ctxs \cup {NoCtx}
    PROVE  /\ Unfolded(w)[0] = active[w]
           /\ \A i \in 1..K : Unfolded(w)[i] = Below(Unfolded(w)[i - 1])
  <1>1. K \in Nat
    BY FS_CardinalityType, FiniteAssumption
  <1> DEFINE S == Ctxs \cup {NoCtx}
             G == [i \in 1..K |-> [c \in S |-> Below(c)]]
  <1>2. G \in [1..K -> [S -> S]]
    BY DEF Below
  <1>3. PICK h \in [0..K -> S] : Iterate(h, K, active[w], G)
    <2> HIDE DEF S, G
    <2> QED BY <1>1, <1>2, Iterates DEF S
  <1>4. h[0] = active[w] /\ \A i \in 1..K : h[i] = Below(h[i - 1])
    <2>1. \A i \in 1..K : i - 1 \in 0..K /\ h[i - 1] \in S
      BY <1>1
    <2> QED BY <1>3, <2>1 DEF Iterate
  <1> HIDE DEF G, S
  <1> DEFINE R(f) == [i \in 0..K |-> IF i = 0 THEN active[w] ELSE Below(f[i - 1])]
             g == CHOOSE f : f = R(f)
  <1>5. h = R(h)
    <2>1. \A i \in 0..K : i = 0 \/ i \in 1..K
      BY <1>1
    <2>2. \A i \in 0..K : h[i] = IF i = 0 THEN active[w] ELSE Below(h[i - 1])
      BY <1>4, <2>1
    <2> QED BY <2>2
  <1>6. g = R(g)
    <2> HIDE DEF R
    <2> QED BY <1>5
  <1>7. Unfolded(w) = g
    BY DEF Unfolded
  <1> HIDE DEF g
  <1>8. \A i \in 0..K : g[i] = IF i = 0 THEN active[w] ELSE Below(g[i - 1])
    BY <1>6
  <1>9. 0 \in 0..K /\ \A i \in 1..K : i \in 0..K /\ i # 0
    BY <1>1
  <1> QED BY <1>7, <1>8, <1>9

\* The stack of a worker is its list.
Listed == \A w \in Workers, s \in Seq(Ctxs) : IsList(s, w) => StackOf(w) = s

LEMMA ListedNow == Listed
  <1> SUFFICES ASSUME NEW w \in Workers, NEW s \in Seq(Ctxs), IsList(s, w)
               PROVE  StackOf(w) = s
    BY DEF Listed
  <1>1. PICK K, n : K = Cardinality(Ctxs) /\ n = Len(s)
    OBVIOUS
  <1>2. n \in Nat /\ K \in Nat /\ n <= K
    BY <1>1, ListLength DEF IsList
  <1>3. \A i \in 1..n : s[i] \in Ctxs
    BY <1>1
  <1>4. active[w] = (IF n = 0 THEN NoCtx ELSE s[n]) /\ active[w] \in Ctxs \cup {NoCtx}
    BY <1>1, <1>2, <1>3 DEF IsList
  <1>5. PICK at : at = Unfolded(w)
    OBVIOUS
  <1>6. at[0] = active[w] /\ \A i \in 1..K : at[i] = Below(at[i - 1])
    BY <1>1, <1>4, <1>5, Unfolds
  <1> DEFINE P == {i \in 0..K : at[i] = IF i < n THEN s[n - i] ELSE NoCtx}
  <1>7. \A i \in 0..K : i \in P
    <2>1. 0 \in P
      BY <1>2, <1>4, <1>6
    <2>2. ASSUME NEW i \in 1..K, i - 1 \in P PROVE i \in P
      <3>1. at[i - 1] = (IF i - 1 < n THEN s[n - (i - 1)] ELSE NoCtx) /\ at[i] = Below(at[i - 1])
        BY <2>2, <1>6
      <3>2. CASE i < n
        <4>1. PICK j \in 1..n : j = n - (i - 1) /\ j # 1 /\ j - 1 = n - i /\ j - 1 \in 1..n
          BY <3>2, <1>2
        <4>2. token[s[j]] = s[j - 1]
          BY <4>1, <1>1 DEF IsList
        <4>3. at[i - 1] = s[j]
          BY <3>1, <3>2, <4>1, <1>2
        <4>4. at[i] = s[n - i]
          BY <3>1, <4>1, <4>2, <4>3, <1>3 DEF Below
        <4> QED BY <3>2, <4>4, <2>2
      <3>3. CASE i = n
        <4>1. 1 \in 1..n /\ n - (i - 1) = 1 /\ i - 1 < n /\ ~(i < n)
          BY <3>3, <2>2, <1>2
        <4>2. token[s[1]] = NoCtx
          BY <4>1, <1>1 DEF IsList
        <4>3. at[i] = NoCtx
          BY <3>1, <4>1, <4>2, CtxAssumption DEF Below
        <4> QED BY <4>1, <4>3, <2>2
      <3>4. CASE i > n
        <4>1. ~(i - 1 < n) /\ ~(i < n)
          BY <3>4, <1>2
        <4>2. at[i] = NoCtx
          BY <3>1, <4>1, CtxAssumption DEF Below
        <4> QED BY <4>1, <4>2, <2>2
      <3> QED BY <3>2, <3>3, <3>4, <1>2
    <2> HIDE DEF P
    <2> QED BY <2>1, <2>2, <1>2, UpTo
  <1>8. \A i \in 0..K : at[i] # NoCtx <=> i < n
    <2>1. \A i \in 0..K : i < n => n - i \in 1..n
      BY <1>2
    <2> QED BY <1>3, <1>7, <2>1, CtxAssumption
  <1>9. Cardinality({i \in 0..K : at[i] # NoCtx}) = n
    <2>1. {i \in 0..K : at[i] # NoCtx} = 0..(n - 1)
      BY <1>2, <1>8
    <2>2. Cardinality(0..(n - 1)) = IF 0 > n - 1 THEN 0 ELSE n - 1 - 0 + 1
      BY <1>2, FS_Interval
    <2>3. Cardinality(0..(n - 1)) = n
      BY <2>2, <1>2
    <2> QED BY <2>1, <2>3
  <1>10. StackOf(w) = [i \in 1..n |-> at[n - i]]
    BY <1>1, <1>5, <1>9 DEF StackOf
  <1>11. ASSUME NEW i \in 1..n PROVE at[n - i] = s[i]
    <2>1. n - i \in 0..K /\ n - i < n /\ n - (n - i) = i
      BY <1>2
    <2> QED BY <2>1, <1>7
  <1>12. s = [i \in 1..n |-> s[i]]
    BY <1>1
  <1> QED BY <1>10, <1>11, <1>12

LEMMA ListedNext == Listed'
  BY ListedNow, PTL

\* Every context of a worker is in its list.
Linear == \A w \in Workers : \E s \in Seq(Ctxs) : IsList(s, w)

\* What a list says of its contexts.
LEMMA ListTyped ==
    ASSUME TypeOK, NEW w \in Workers, NEW s \in Seq(Ctxs), IsList(s, w)
    PROVE  /\ Len(s) \in Nat /\ StackOf(w) = s
           /\ \A i \in 1..Len(s) : s[i] \in Ctxs /\ Live(s[i])
           /\ active[w] \in Ctxs => Len(s) > 0
  <1>1. Len(s) \in Nat /\ \A i \in 1..Len(s) : s[i] \in Ctxs
    OBVIOUS
  <1>2. StackOf(w) = s
    BY ListedNow DEF Listed
  <1>3. ASSUME NEW i \in 1..Len(s) PROVE Live(s[i])
    <2>1. i = 1 \/ i - 1 \in 1..Len(s)
      BY <1>1
    <2>2. token[s[i]] \in Ctxs \cup {NoCtx}
      BY <2>1, <1>1 DEF IsList
    <2> QED BY <2>2, CtxAssumption
  <1>4. active[w] \in Ctxs => Len(s) > 0
    BY <1>1, CtxAssumption DEF IsList
  <1> QED BY <1>1, <1>2, <1>3, <1>4

\* A list stays when the contextvar of its worker and its tokens do.
LEMMA KeepList ==
    ASSUME NEW w \in Workers, NEW s \in Seq(Ctxs), IsList(s, w),
           active'[w] = active[w], \A i \in 1..Len(s) : token'[s[i]] = token[s[i]]
    PROVE  IsList(s, w)' /\ StackOf(w)' = StackOf(w)
  <1>1. IsList(s, w)'
    BY DEF IsList
  <1>2. StackOf(w) = s /\ StackOf(w)' = s
    BY <1>1, ListedNow, ListedNext DEF Listed
  <1> QED BY <1>1, <1>2

\* What the caller of Push and Pop does to its own list and the others keep.
LEMMA OneList ==
    ASSUME NEW w \in Workers, NEW t \in Seq(Ctxs), IsList(t, w)',
           \A v \in Workers \ {w} :
               \E s \in Seq(Ctxs) : IsList(s, v)' /\ StackOf(v)' = StackOf(v)
    PROVE  /\ Linear'
           /\ [v \in Workers |-> StackOf(v)]'
                  = [[v \in Workers |-> StackOf(v)] EXCEPT ![w] = t]
  <1>1. StackOf(w)' = t
    BY ListedNext DEF Listed
  <1>2. Linear'
    BY DEF Linear
  <1>3. \A v \in Workers : StackOf(v)' = IF v = w THEN t ELSE StackOf(v)
    BY <1>1
  <1> QED BY <1>2, <1>3

\* Nothing changes for any list.
LEMMA SameLists ==
    ASSUME Linear, active' = active, token' = token, torn' = torn
    PROVE  Linear' /\ UNCHANGED Abstract!vars
  <1>1. ASSUME NEW v \in Workers
        PROVE  /\ \E s \in Seq(Ctxs) : IsList(s, v)'
               /\ StackOf(v)' = StackOf(v)
    <2>1. PICK s \in Seq(Ctxs) : IsList(s, v)
      BY DEF Linear
    <2> QED BY <2>1, KeepList
  <1> QED BY <1>1 DEF Linear, Abstract!vars

\* A push is a push of the abstract stack, or leaves it alone.
LEMMA PushRefines ==
    ASSUME TypeOK, Linear, NEW w \in Workers, NEW c \in Ctxs, Push(w, c), torn' = torn
    PROVE  Linear' /\ [Abstract!Next]_(Abstract!vars)
  <1>1. CASE Live(c)
    <2>1. active' = active /\ token' = token
      BY <1>1 DEF Push
    <2> QED BY <2>1, SameLists
  <1>2. CASE ~Live(c)
    <2>1. /\ token' = [token EXCEPT ![c] = active[w]]
          /\ active' = [active EXCEPT ![w] = c]
      BY <1>2 DEF Push
    <2>2. /\ token'[c] = active[w] /\ active'[w] = c
          /\ \A d \in Ctxs \ {c} : token'[d] = token[d]
          /\ \A v \in Workers \ {w} : active'[v] = active[v]
      BY <2>1 DEF TypeOK
    <2>3. PICK s \in Seq(Ctxs) : IsList(s, w)
      BY DEF Linear
    <2>4. PICK t : t = Append(s, c)
      OBVIOUS
    <2>5. PICK n : n = Len(s)
      OBVIOUS
    <2>6. /\ n \in Nat /\ t \in Seq(Ctxs) /\ Len(t) = n + 1 /\ t[n + 1] = c
          /\ \A i \in 1..n : t[i] = s[i] /\ s[i] \in Ctxs
      BY <2>4, <2>5, AppendProperties
    <2>7. \A i \in 1..n : s[i] # c
      BY <1>2, <2>3, <2>5, ListTyped
    <2>8. /\ n = 0 => active[w] = NoCtx
          /\ n > 0 => active[w] = s[n]
          /\ \A i \in 1..n : token[s[i]] = IF i = 1 THEN NoCtx ELSE s[i - 1]
          /\ \A i, j \in 1..n : s[i] = s[j] => i = j
      BY <2>3, <2>5 DEF IsList
    <2>9. \A i \in 1..(n + 1) : i \in 1..n \/ i = n + 1
      BY <2>6
    <2>10. ASSUME NEW i \in 1..(n + 1)
           PROVE  token'[t[i]] = IF i = 1 THEN NoCtx ELSE t[i - 1]
      <3>1. CASE i \in 1..n
        <4>1. i = 1 \/ i - 1 \in 1..n
          BY <3>1, <2>6
        <4>2. token'[t[i]] = token[s[i]]
          BY <3>1, <2>2, <2>6, <2>7
        <4> QED BY <3>1, <4>1, <4>2, <2>6, <2>8
      <3>2. CASE i = n + 1
        <4>1. token'[t[i]] = active[w]
          BY <3>2, <2>2, <2>6
        <4>2. CASE n = 0
          BY <3>2, <4>1, <4>2, <2>8
        <4>3. CASE n > 0
          <5>1. n \in 1..n /\ i # 1 /\ i - 1 = n
            BY <3>2, <4>3, <2>6
          <5> QED BY <4>1, <4>3, <5>1, <2>6, <2>8
        <4> QED BY <4>2, <4>3, <2>6
      <3> QED BY <3>1, <3>2, <2>9
    <2>11. \A i, j \in 1..(n + 1) : t[i] = t[j] => i = j
      BY <2>6, <2>7, <2>8, <2>9
    <2>12. IsList(t, w)'
      BY <2>2, <2>6, <2>10, <2>11 DEF IsList
    <2>13. ASSUME NEW v \in Workers \ {w}
           PROVE  \E u \in Seq(Ctxs) : IsList(u, v)' /\ StackOf(v)' = StackOf(v)
      <3>1. PICK u \in Seq(Ctxs) : IsList(u, v)
        BY DEF Linear
      <3>2. \A i \in 1..Len(u) : u[i] \in Ctxs /\ u[i] # c
        BY <3>1, <1>2, ListTyped
      <3> QED BY <3>1, <3>2, <2>2, KeepList
    <2>14. /\ Linear'
           /\ [v \in Workers |-> StackOf(v)]'
                  = [[v \in Workers |-> StackOf(v)] EXCEPT ![w] = t]
      BY <2>6, <2>12, <2>13, OneList
    <2>15. StackOf(w) = s
      BY <2>3, ListTyped
    <2>16. [v \in Workers |-> StackOf(v)]'
               = [[v \in Workers |-> StackOf(v)] EXCEPT ![w] = Append(@, c)]
      BY <2>4, <2>14, <2>15
    <2>17. ASSUME NEW v \in Workers
           PROVE  c \notin {StackOf(v)[i] : i \in 1..Len(StackOf(v))}
      <3>1. PICK u \in Seq(Ctxs) : IsList(u, v)
        BY DEF Linear
      <3>2. StackOf(v) = u /\ \A i \in 1..Len(u) : u[i] # c
        BY <3>1, <1>2, ListTyped
      <3> QED BY <3>2
    <2>18. Abstract!Push(w, c)
      BY <2>16, <2>17 DEF Abstract!Push, Abstract!OnStack
    <2> QED BY <2>14, <2>18 DEF Abstract!Next
  <1> QED BY <1>1, <1>2

\* A pop that runs the teardown takes the top of the abstract stack.
LEMMA PopRefines ==
    ASSUME IInv, Linear, NEW w \in Workers, NEW c \in Ctxs, Pop(w, c) \/ PopRefused(w, c)
    PROVE  Linear' /\ [Abstract!Next]_(Abstract!vars)
  <1>1. TypeOK
    BY DEF IInv
  <1>2. CASE PopRefused(w, c) \/ pushCount[c] > 1
    <2>1. active' = active /\ token' = token /\ torn' = torn
      BY <1>2 DEF Pop, PopRefused
    <2> QED BY <2>1, SameLists
  <1>3. CASE Pop(w, c) /\ ~(pushCount[c] > 1)
    <2>1. /\ torn' = [torn EXCEPT ![c] = @ + 1]
          /\ token' = [token EXCEPT ![c] = NoToken]
          /\ active' = [active EXCEPT ![w] = token[c]]
          /\ active[w] = c
      BY <1>3 DEF Pop, PopAccepted
    <2>2. /\ active'[w] = token[c]
          /\ \A d \in Ctxs \ {c} : token'[d] = token[d]
          /\ \A v \in Workers \ {w} : active'[v] = active[v]
      BY <2>1, <1>1 DEF TypeOK
    <2>3. PICK s \in Seq(Ctxs) : IsList(s, w)
      BY DEF Linear
    <2>4. PICK n : n = Len(s)
      OBVIOUS
    <2>5. StackOf(w) = s /\ n \in Nat /\ n > 0 /\ \A i \in 1..n : s[i] \in Ctxs
      BY <2>1, <2>3, <2>4, <1>1, ListTyped
    <2>6. /\ s[n] = c
          /\ \A i \in 1..n : token[s[i]] = IF i = 1 THEN NoCtx ELSE s[i - 1]
          /\ \A i, j \in 1..n : s[i] = s[j] => i = j
      BY <2>1, <2>3, <2>4, <2>5 DEF IsList
    <2>7. PICK t : t = SubSeq(s, 1, n - 1)
      OBVIOUS
    <2>8. t \in Seq(Ctxs) /\ Len(t) = n - 1 /\ \A i \in 1..(n - 1) : t[i] = s[i]
      BY <2>4, <2>5, <2>7
    <2>9. \A i \in 1..(n - 1) : i \in 1..n /\ i # n /\ (i = 1 \/ i - 1 \in 1..(n - 1))
      BY <2>5
    <2>10. \A i \in 1..(n - 1) : token'[t[i]] = IF i = 1 THEN NoCtx ELSE t[i - 1]
      <3> SUFFICES ASSUME NEW i \in 1..(n - 1)
                   PROVE  token'[t[i]] = IF i = 1 THEN NoCtx ELSE t[i - 1]
        OBVIOUS
      <3>1. s[i] # c /\ s[i] \in Ctxs
        BY <2>5, <2>6, <2>9
      <3> QED BY <3>1, <2>2, <2>6, <2>8, <2>9
    <2>11. /\ n - 1 = 0 => active'[w] = NoCtx
           /\ n - 1 > 0 => active'[w] = t[n - 1]
      <3>1. n \in 1..n /\ token[c] = IF n = 1 THEN NoCtx ELSE s[n - 1]
        BY <2>5, <2>6
      <3>2. n - 1 = 0 => n = 1
        BY <2>5
      <3>3. n - 1 > 0 => n # 1 /\ n - 1 \in 1..(n - 1)
        BY <2>5
      <3> QED BY <3>1, <3>2, <3>3, <2>2, <2>8
    <2>12. IsList(t, w)'
      <3>1. \A i, j \in 1..(n - 1) : t[i] = t[j] => i = j
        BY <2>6, <2>8, <2>9
      <3> QED BY <3>1, <2>8, <2>10, <2>11 DEF IsList
    <2>13. /\ \A v \in Workers : active[v] = c => v = w
           /\ \A d \in Ctxs : token[d] # c
      BY <2>1, ActiveOnce
    <2>14. ASSUME NEW v \in Workers \ {w}
           PROVE  \E u \in Seq(Ctxs) : IsList(u, v)' /\ StackOf(v)' = StackOf(v)
      <3>1. PICK u \in Seq(Ctxs) : IsList(u, v)
        BY DEF Linear
      <3>2. Len(u) \in Nat /\ \A i \in 1..Len(u) : u[i] \in Ctxs
        BY <3>1, <1>1, ListTyped
      <3>3. ASSUME NEW i \in 1..Len(u), u[i] = c PROVE FALSE
        <4>1. CASE i = Len(u)
          BY <4>1, <3>1, <3>2, <3>3, <2>13 DEF IsList
        <4>2. CASE i # Len(u)
          <5>1. i + 1 \in 1..Len(u) /\ i + 1 # 1 /\ (i + 1) - 1 = i
            BY <4>2, <3>2
          <5>2. token[u[i + 1]] = u[i]
            BY <5>1, <3>1 DEF IsList
          <5> QED BY <5>1, <5>2, <3>2, <3>3, <2>13
        <4> QED BY <4>1, <4>2
      <3> QED BY <3>1, <3>2, <3>3, <2>2, KeepList
    <2>15. /\ Linear'
           /\ [v \in Workers |-> StackOf(v)]'
                  = [[v \in Workers |-> StackOf(v)] EXCEPT ![w] = t]
      BY <2>8, <2>12, <2>14, OneList
    <2>16. [v \in Workers |-> StackOf(v)]'
               = [[v \in Workers |-> StackOf(v)] EXCEPT ![w] = SubSeq(@, 1, Len(@) - 1)]
      BY <2>4, <2>5, <2>7, <2>15
    <2>17. PICK st : st = [v \in Workers |-> StackOf(v)]
      OBVIOUS
    <2>18. /\ st[w] # << >> /\ st[w][Len(st[w])] = c
      BY <2>4, <2>5, <2>6, <2>17
    <2>19. Abstract!Pop(w)
      BY <2>1, <2>16, <2>17, <2>18 DEF Abstract!Pop
    <2> QED BY <2>15, <2>19 DEF Abstract!Next
  <1> QED BY <1>2, <1>3

\* Every step of the context variable is a step of the stack or leaves it alone.
LEMMA StepRefines ==
    ASSUME IInv, Linear, [Next]_vars
    PROVE  Linear' /\ [Abstract!Next]_(Abstract!vars)
  <1>1. TypeOK
    BY DEF IInv
  <1>2. CASE UNCHANGED vars
    BY <1>2, SameLists DEF vars
  <1>3. ASSUME NEW w \in Workers, Step(w)
        PROVE  Linear' /\ [Abstract!Next]_(Abstract!vars)
    <2>1. ASSUME NEW c \in Ctxs,
                 Serve(w, c) \/ Enter(w, c) \/ RunCopy(w, c) \/ Reenter(w, c) \/ EnterFails(w, c)
          PROVE  Linear' /\ [Abstract!Next]_(Abstract!vars)
      <3>1. Push(w, c) /\ torn' = torn
        BY <2>1 DEF Serve, Enter, RunCopy, Reenter, EnterFails, OpenBlock
      <3> QED BY <1>1, <3>1, PushRefines
    <2>2. ASSUME NEW c \in Ctxs, CloseStream(w, c)
          PROVE  Linear' /\ [Abstract!Next]_(Abstract!vars)
      BY <2>2, PopRefines DEF CloseStream
    <2>3. CASE Exit(w)
      <3>1. PICK c \in Ctxs : c = Top(w)
        BY <1>1, <2>3, LeaveType DEF Exit
      <3>2. Pop(w, c) \/ PopRefused(w, c)
        BY <2>3, <3>1 DEF Exit
      <3> QED BY <3>2, PopRefines
    <2>4. CASE OpenStream(w)
      <3>1. PICK c \in Ctxs : active[w] = c
        BY <2>4, <1>1 DEF OpenStream, Active, TypeOK
      <3>2. Push(w, c) /\ torn' = torn
        BY <2>4, <3>1 DEF OpenStream
      <3> QED BY <1>1, <3>2, PushRefines
    <2>5. CASE Capture(w)
      BY <2>5, SameLists DEF Capture
    <2> QED BY <1>3, <2>1, <2>2, <2>3, <2>4, <2>5 DEF Step
  <1> QED BY <1>2, <1>3 DEF Next

\* The initial states are those of empty stacks.
LEMMA InitRefines == Init => Linear /\ Abstract!Init
  <1> SUFFICES ASSUME Init PROVE Linear /\ Abstract!Init
    OBVIOUS
  <1>1. PICK e : e = << >>
    OBVIOUS
  <1>2. e \in Seq(Ctxs) /\ Len(e) = 0
    BY <1>1
  <1>3. ASSUME NEW w \in Workers PROVE IsList(e, w)
    BY <1>2 DEF Init, IsList
  <1>4. \A w \in Workers : StackOf(w) = e
    BY <1>2, <1>3, ListedNow DEF Listed
  <1> QED BY <1>1, <1>2, <1>3, <1>4 DEF Linear, Abstract!Init, Init

\* The contexts that the tokens link behave like a stack on each worker, for any
\* number of workers, contexts and blocks and for callers of any discipline
\* (AppContext.push and pop against docs/appcontext.rst).
THEOREM StackRefined == Spec => RefinesStack
  <1>1. IInv /\ Linear /\ [Next]_vars => Linear' /\ [Abstract!Next]_(Abstract!vars)
    BY StepRefines
  <1> QED BY InitRefines, Invariance, <1>1, PTL DEF Spec, RefinesStack, Abstract!Spec

=============================================================================
