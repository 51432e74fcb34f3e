-------------------------- MODULE AuthStreamProofs --------------------------
(***************************************************************************)
(* Proofs about module AuthStream, for every set of streams, every way to  *)
(* cut them and every size of piece within PieceAssumption.                *)
(***************************************************************************)
EXTENDS AuthStream, FiniteSetTheorems, WellFoundedInduction, TLAPS

(***************************************************************************)
(* Induction, in a form the provers can use: about sets of naturals instead*)
(* of predicates, from the fact that < is well founded; and what it says   *)
(* of functions defined by recursion over an interval.                     *)
(***************************************************************************)

\* A nonempty set of naturals has a least element.
LEMMA LeastElement ==
  ASSUME NEW T \in SUBSET Nat, T # {}
  PROVE  \E n \in T : \A m \in T : n <= m
<1> DEFINE R == {ss \in Nat \X Nat : ss[1] < ss[2]}
<1>1. IsWellFoundedOn(R, Nat)
  BY NatLessThanWellFounded DEF OpToRel
<1> HIDE DEF R
<1>2. PICK n \in T : \A m \in T : ~(<<m, n>> \in R)
  BY <1>1, WFMin
<1>3. ASSUME NEW m \in T PROVE n <= m
  <2>1. ~(<<m, n>> \in R)
    BY <1>2
  <2>2. m \in Nat /\ n \in Nat
    OBVIOUS
  <2> QED  BY <2>1, <2>2 DEF R
<1> QED  BY <1>3

\* A set that has m, and with each number below n the next one, has all
\* numbers from m to n.
LEMMA IntervalInduction ==
  ASSUME NEW m \in Nat, NEW n \in Nat, NEW S, m \in S,
         \A i \in m .. n - 1 : i \in S => i + 1 \in S
  PROVE  \A i \in m .. n : i \in S
<1> DEFINE Missing == {i \in m .. n : i \notin S}
<1> SUFFICES ASSUME Missing # {} PROVE FALSE
  OBVIOUS
<1>1. Missing \in SUBSET Nat
  OBVIOUS
<1>2. PICK k \in Missing : \A i \in Missing : k <= i
  <2> HIDE DEF Missing
  <2> QED  BY <1>1, LeastElement
<1>3. k \in m .. n /\ k \notin S /\ k # m
  OBVIOUS
<1>4. k - 1 \in m .. n - 1 /\ k - 1 \in m .. n
  BY <1>3
<1>5. k - 1 \in S
  BY <1>2, <1>4
<1> QED  BY <1>3, <1>4, <1>5

\* f follows the recursion f[0] = c, f[i] = G[f[i - 1], i] up to n.
StepsTo(n, V) == [V \X (1 .. n) -> V]
Solution(f, n, V, c, G) ==
  /\ f \in [0 .. n -> V]
  /\ f[0] = c
  /\ \A i \in 1 .. n : f[i] = G[<<f[i - 1], i>>]

\* Such a function exists.
LEMMA RecursionExists ==
  ASSUME NEW n \in Nat, NEW V, NEW c \in V, NEW G \in StepsTo(n, V)
  PROVE  \E f : Solution(f, n, V, c, G)
<1> DEFINE Solves(f, k) ==
             f[0] = c /\ \A i \in 1 .. k : f[i] = G[<<f[i - 1], i>>]
           S == {k \in 0 .. n : \E f \in [0 .. k -> V] : Solves(f, k)}
<1>1. 0 \in S
  <2> DEFINE f == [i \in 0 .. 0 |-> c]
  <2>1. f \in [0 .. 0 -> V]
    OBVIOUS
  <2>2. Solves(f, 0)
    OBVIOUS
  <2> HIDE DEF f, Solves
  <2> QED  BY <2>1, <2>2
<1>2. ASSUME NEW k \in 0 .. n - 1, k \in S
      PROVE  k + 1 \in S
  <2>1. PICK f \in [0 .. k -> V] : Solves(f, k)
    BY <1>2
  <2> DEFINE g == [i \in 0 .. k + 1 |-> IF i = k + 1 THEN G[<<f[k], k + 1>>]
                                                     ELSE f[i]]
  <2>2. <<f[k], k + 1>> \in V \X (1 .. n)
    OBVIOUS
  <2>3. g \in [0 .. k + 1 -> V]
    BY <2>2 DEF StepsTo
  <2>4. ASSUME NEW i \in 1 .. k + 1
        PROVE  g[i] = G[<<g[i - 1], i>>]
    <3>1. CASE i = k + 1
      <4>1. g[i] = G[<<f[k], k + 1>>] /\ g[i - 1] = f[k]
        BY <3>1
      <4> QED  BY <3>1, <4>1
    <3>2. CASE i \in 1 .. k
      <4>1. g[i] = f[i] /\ g[i - 1] = f[i - 1]
        BY <3>2
      <4> QED  BY <2>1, <3>2, <4>1
    <3> QED  BY <3>1, <3>2
  <2>5. g[0] = c
    BY <2>1
  <2>6. k + 1 \in 0 .. n
    OBVIOUS
  <2> HIDE DEF g
  <2> QED  BY <2>3, <2>4, <2>5, <2>6
<1> HIDE DEF S
<1>3. n \in S
  BY <1>1, <1>2, IntervalInduction
<1> QED  BY <1>3 DEF S, Solution

(***************************************************************************)
(* The guard.                                                              *)
(***************************************************************************)

\* The sizes, with the largest body left as a number known to be large.
LEMMA Sizes ==
  /\ MaxBody \in Nat /\ MaxBody > 1000
  /\ MaxPendingInput = 4 + MaxBody
  /\ LongestChallenge = 34 + MaxAccount
  /\ MaxAccount = 255
BY SMT DEF MaxBody, MaxPendingInput, LongestChallenge, MaxAccount,
   AuthChallengeHeaderSize, ChallengeAccountPrefixBodySize

\* Every frame takes at least a byte and at most what may wait; one the guard
\* does not refuse is no longer than the longest challenge.
LEMMA RequiredBounds ==
  ASSUME NEW w \in Wire
  PROVE  /\ Required(w) \in 1 .. MaxPendingInput
         /\ ~Malformed(w, Required(w)) => Required(w) <= LongestChallenge
<1>1. w.body \in 0 .. MaxBody /\ w.account \in 0 .. MaxAccount
  BY SMT DEF Wire
<1>2. CASE w.cmd \in Challenges
  <2>1. Required(w) = 4 + w.body
    BY <1>2 DEF Required, AuthChallengeHeaderSize
  <2>2. ~Malformed(w, Required(w)) => w.body = 30 + w.account
    BY <1>1, <1>2, <2>1, Sizes, SMT
       DEF Malformed, ChallengeAccountPrefixBodySize
  <2> QED  BY <1>1, <2>1, <2>2, Sizes, SMT
<1>3. CASE w.cmd \in Command \ Challenges
  <2>1. FixedSize[w.cmd] \in 1 .. 75
    BY <1>3, SMT DEF FixedSize, Command, Challenges, Proofs,
       AuthLogonProofSize, AuthReconnectProofSize, AuthRealmListSize,
       AuthXferAcceptSize, AuthXferResumeSize, AuthXferCancelSize
  <2>2. Required(w) = FixedSize[w.cmd]
    BY <1>3 DEF Required
  <2> QED  BY <2>1, <2>2, Sizes, SMT
<1>4. CASE w.cmd \notin Command
  <2>1. Required(w) = 1
    BY <1>4 DEF Required, Command
  <2> QED  BY <2>1, Sizes, SMT
<1> QED  BY <1>2, <1>3, <1>4

\* Bytes behind a whole frame change nothing about its defects.
LEMMA WholeFrameDefects ==
  ASSUME NEW w \in Wire, NEW size \in Nat, size >= Required(w)
  PROVE  Malformed(w, size) <=> Malformed(w, Required(w))
<1>1. w.body \in Nat /\ Required(w) \in Nat
  <2>1. w.body \in 0 .. MaxBody
    BY SMT DEF Wire
  <2> QED  BY <2>1, RequiredBounds, Sizes, SMT
<1>2. CASE w.cmd \in Challenges
  <2>1. w.cmd \notin Proofs
    BY <1>2 DEF Challenges, Proofs
  <2>2. Required(w) >= AuthChallengeHeaderSize
    BY <1>1, <1>2, SMT DEF Required, AuthChallengeHeaderSize
  <2> QED
    BY <1>1, <2>1, <2>2, SMT DEF Malformed, AuthChallengeHeaderSize
<1>3. CASE w.cmd \in Proofs
  <2>1. w.cmd \notin Challenges /\ w.cmd \in Command
    BY <1>3 DEF Challenges, Proofs, Command
  <2>2. KeyCountOffset[w.cmd] \in Nat /\ FixedSize[w.cmd] > KeyCountOffset[w.cmd]
    BY <1>3, SMT DEF Challenges, Proofs, Command, FixedSize,
       KeyCountOffset, AuthLogonProofSize, AuthReconnectProofSize,
       LogonProofKeyCountOffset, ReconnectProofKeyCountOffset
  <2>3. Required(w) = FixedSize[w.cmd]
    BY <2>1 DEF Required
  <2> QED
    BY <1>1, <2>1, <2>2, <2>3, SMT DEF Malformed
<1>4. CASE w.cmd \notin Challenges \cup Proofs
  BY <1>4 DEF Malformed
<1> QED  BY <1>2, <1>3, <1>4

\* The guard and the dispatch table name the same state for a command.
LEMMA TablesAgree ==
  ASSUME NEW c \in Command
  PROVE  HandlerStatus[c] = ExpectedState[c]
BY DEF HandlerStatus, ExpectedState, Command, Challenges, Proofs

\* A handler takes the bytes that the guard required.
LEMMA HandlerIsExact ==
  ASSUME NEW w \in Wire, w.cmd \in Command
  PROVE  Consumed(w) = Required(w)
BY DEF Consumed, Required, HandlerConsumes, FixedSize, Command, Challenges,
   Proofs, AuthChallengeHeaderSize, AuthLogonProofSize, AuthReconnectProofSize,
   AuthRealmListSize, AuthXferAcceptSize, AuthXferResumeSize,
   AuthXferCancelSize, SizeofLogonProof, SizeofReconnectProof, SizeofStartPos

(***************************************************************************)
(* The stream: where its frames end, and what they make of a session.      *)
(***************************************************************************)

\* A frame of a stream has a wire image and an outcome.
LEMMA FrameTypes ==
  ASSUME NEW st \in Seq(Frame), NEW i \in 1 .. Len(st)
  PROVE  /\ st[i].wire \in Wire
         /\ st[i].outcome.next \in StreamState
         /\ st[i].outcome.ok \in BOOLEAN
<1>1. st[i] \in Frame
  OBVIOUS
<1>2. st[i].outcome \in Outcome
  BY <1>1, SMT DEF Frame
<1> QED  BY <1>1, <1>2, SMT DEF Frame, Outcome

\* The offsets satisfy their recursive definition.
LEMMA OffsetEquations ==
  ASSUME NEW st \in Seq(Frame)
  PROVE  /\ Offset(st) \in [0 .. Len(st) -> Nat]
         /\ Offset(st)[0] = 0
         /\ \A i \in 1 .. Len(st) :
              Offset(st)[i] = Offset(st)[i - 1] + Required(st[i].wire)
<1> DEFINE n == Len(st)
           Eqn(f) == [i \in 0 .. n |->
                        IF i = 0 THEN 0 ELSE f[i - 1] + Required(st[i].wire)]
           G == [p \in Nat \X (1 .. n) |-> p[1] + Required(st[p[2]].wire)]
<1>1. n \in Nat
  OBVIOUS
<1>2. ASSUME NEW i \in 1 .. n PROVE Required(st[i].wire) \in Nat
  BY FrameTypes, RequiredBounds, Sizes, SMT
<1>3. G \in StepsTo(n, Nat)
  BY <1>2 DEF StepsTo
<1>4. PICK f : Solution(f, n, Nat, 0, G)
  <2>1. 0 \in Nat
    OBVIOUS
  <2> HIDE DEF G, n
  <2> QED  BY <1>1, <1>3, <2>1, RecursionExists
<1>5. f = Eqn(f)
  <2>1. /\ f \in [0 .. n -> Nat] /\ f[0] = 0
        /\ \A i \in 1 .. n : f[i] = G[<<f[i - 1], i>>]
    BY <1>4 DEF Solution
  <2>2. ASSUME NEW i \in 0 .. n, i # 0
        PROVE  f[i] = f[i - 1] + Required(st[i].wire)
    <3>1. i - 1 \in 0 .. n /\ i \in 1 .. n
      BY <1>1, <2>2
    <3>2. <<f[i - 1], i>> \in Nat \X (1 .. n)
      BY <2>1, <3>1
    <3> QED  BY <2>1, <3>1, <3>2
  <2> QED  BY <2>1, <2>2
<1>6. Offset(st) = CHOOSE g : g = Eqn(g)
  BY DEF Offset
<1>7. Offset(st) = Eqn(Offset(st))
  <2> HIDE DEF Eqn
  <2> QED  BY <1>5, <1>6
<1> DEFINE o == Offset(st)
<1> HIDE DEF o
<1>8. DOMAIN o = 0 .. n /\ \A i \in 0 .. n :
        o[i] = IF i = 0 THEN 0 ELSE o[i - 1] + Required(st[i].wire)
  BY <1>7 DEF o
<1>9. \A i \in 0 .. n : o[i] \in Nat
  <2> DEFINE S == {i \in 0 .. n : o[i] \in Nat}
  <2>1. 0 \in S
    BY <1>1, <1>8
  <2>2. ASSUME NEW i \in 0 .. n - 1, i \in S PROVE i + 1 \in S
    <3>1. i + 1 \in 1 .. n /\ i + 1 \in 0 .. n /\ (i + 1) - 1 = i
      BY <1>1
    <3>2. o[i + 1] = o[i] + Required(st[i + 1].wire)
      BY <1>8, <3>1
    <3> QED  BY <1>2, <2>2, <3>1, <3>2
  <2> HIDE DEF S
  <2>3. \A i \in 0 .. n : i \in S
    BY <1>1, <2>1, <2>2, IntervalInduction
  <2> QED  BY <2>3 DEF S
<1>10. o = [i \in 0 .. n |-> o[i]]
  BY <1>7, <1>8 DEF o
<1> QED  BY <1>8, <1>9, <1>10 DEF o

\* Frames end one behind the other.
LEMMA OffsetsGrow ==
  ASSUME NEW st \in Seq(Frame), NEW i \in 0 .. Len(st), NEW j \in i .. Len(st)
  PROVE  /\ Offset(st)[i] <= Offset(st)[j]
         /\ i < j => Offset(st)[i] < Offset(st)[j]
<1> DEFINE n == Len(st)
           o == Offset(st)
           S == {k \in i .. n : o[i] <= o[k] /\ (i < k => o[i] < o[k])}
<1>1. n \in Nat /\ i \in Nat
  OBVIOUS
<1> HIDE DEF o
<1>2. \A k \in 0 .. n : o[k] \in Nat
  BY OffsetEquations DEF o
<1>3. i \in S
  BY <1>2
<1>4. ASSUME NEW k \in i .. n - 1, k \in S PROVE k + 1 \in S
  <2>1. k + 1 \in 1 .. n /\ (k + 1) - 1 = k /\ k \in 0 .. n /\ k + 1 \in i .. n
    BY <1>1
  <2>2. Required(st[k + 1].wire) \in Nat /\ Required(st[k + 1].wire) >= 1
    BY <2>1, FrameTypes, RequiredBounds, Sizes, SMT
  <2>3. o[k + 1] = o[k] + Required(st[k + 1].wire)
    BY <2>1, OffsetEquations DEF o
  <2>4. o[i] \in Nat /\ o[k] \in Nat /\ o[i] <= o[k]
    BY <1>2, <1>4, <2>1
  <2>5. o[i] < o[k + 1]
    BY <2>2, <2>3, <2>4
  <2> QED  BY <2>1, <2>2, <2>3, <2>4, <2>5
<1> HIDE DEF S, n
<1>5. \A k \in i .. n : k \in S
  BY <1>1, <1>3, <1>4, IntervalInduction
<1> QED  BY <1>5 DEF S, o, n

\* What frame i of a stream makes of a session, and the sessions there are.
Session == [status : StreamState, open : BOOLEAN, served : Nat]
Fresh == [status |-> "CHALLENGE", open |-> TRUE, served |-> 0]
Meets(before, st, i) ==
  IF before.open /\ Served(st[i], before.status)
  THEN [status |-> st[i].outcome.next,
        open |-> /\ st[i].outcome.ok
                 /\ st[i].wire.cmd # "CMD_XFER_CANCEL",
        served |-> i]
  ELSE [before EXCEPT !.open = FALSE]

\* A frame leaves a session.
LEMMA MeetsType ==
  ASSUME NEW st \in Seq(Frame), NEW i \in 1 .. Len(st), NEW b \in Session
  PROVE  Meets(b, st, i) \in Session
<1>1. /\ st[i].outcome.next \in StreamState /\ st[i].outcome.ok \in BOOLEAN
      /\ i \in Nat
  BY FrameTypes
<1> QED  BY <1>1 DEF Meets, Session

\* The sessions of a stream satisfy their recursive definition.
LEMMA AfterEquations ==
  ASSUME NEW st \in Seq(Frame)
  PROVE  /\ After(st)[0] = Fresh
         /\ \A i \in 0 .. Len(st) : After(st)[i] \in Session
         /\ \A i \in 1 .. Len(st) : After(st)[i] = Meets(After(st)[i - 1], st, i)
<1> DEFINE n == Len(st)
           Eqn(f) == [i \in 0 .. n |->
                        IF i = 0 THEN Fresh ELSE Meets(f[i - 1], st, i)]
           G == [p \in Session \X (1 .. n) |-> Meets(p[1], st, p[2])]
<1>1. n \in Nat
  OBVIOUS
<1>2. G \in StepsTo(n, Session)
  BY MeetsType DEF StepsTo
<1>3. Fresh \in Session
  BY DEF Fresh, Session, StreamState
<1>4. PICK f : Solution(f, n, Session, Fresh, G)
  <2> HIDE DEF G, n
  <2> QED  BY <1>1, <1>2, <1>3, RecursionExists
<1>5. f = Eqn(f)
  <2>1. /\ f \in [0 .. n -> Session] /\ f[0] = Fresh
        /\ \A i \in 1 .. n : f[i] = G[<<f[i - 1], i>>]
    BY <1>4 DEF Solution
  <2>2. ASSUME NEW i \in 0 .. n, i # 0
        PROVE  f[i] = Meets(f[i - 1], st, i)
    <3>1. i - 1 \in 0 .. n /\ i \in 1 .. n
      BY <1>1, <2>2
    <3>2. <<f[i - 1], i>> \in Session \X (1 .. n)
      BY <2>1, <3>1
    <3> QED  BY <2>1, <3>1, <3>2
  <2> QED  BY <2>1, <2>2
<1>6. After(st) = CHOOSE g : g = Eqn(g)
  BY DEF After, Fresh, Meets
<1>7. After(st) = Eqn(After(st))
  <2> HIDE DEF Eqn
  <2> QED  BY <1>5, <1>6
<1> DEFINE a == After(st)
<1> HIDE DEF a
<1>8. \A i \in 0 .. n : a[i] = IF i = 0 THEN Fresh ELSE Meets(a[i - 1], st, i)
  BY <1>7 DEF a
<1>9. \A i \in 0 .. n : a[i] \in Session
  <2> DEFINE S == {i \in 0 .. n : a[i] \in Session}
  <2>1. 0 \in S
    BY <1>1, <1>3, <1>8
  <2>2. ASSUME NEW i \in 0 .. n - 1, i \in S PROVE i + 1 \in S
    <3>1. i + 1 \in 1 .. n /\ i + 1 \in 0 .. n /\ (i + 1) - 1 = i
      BY <1>1
    <3>2. a[i + 1] = Meets(a[i], st, i + 1)
      BY <1>8, <3>1
    <3> QED  BY <2>2, <3>1, <3>2, MeetsType
  <2> HIDE DEF S
  <2>3. \A i \in 0 .. n : i \in S
    BY <1>1, <2>1, <2>2, IntervalInduction
  <2> QED  BY <2>3 DEF S
<1> QED  BY <1>1, <1>8, <1>9 DEF a

\* A session that a frame closed is as it was, whatever frames follow.
LEMMA ClosedStays ==
  ASSUME NEW st \in Seq(Frame), NEW i \in 0 .. Len(st), NEW j \in i .. Len(st),
         ~After(st)[i].open
  PROVE  /\ ~After(st)[j].open
         /\ After(st)[j].status = After(st)[i].status
         /\ After(st)[j].served = After(st)[i].served
<1> DEFINE n == Len(st)
           a == After(st)
           S == {k \in i .. n : /\ ~a[k].open
                                /\ a[k].status = a[i].status
                                /\ a[k].served = a[i].served}
<1>1. n \in Nat /\ i \in Nat
  OBVIOUS
<1> HIDE DEF a
<1>2. i \in S
  BY DEF a
<1>3. ASSUME NEW k \in i .. n - 1, k \in S PROVE k + 1 \in S
  <2>1. k + 1 \in 1 .. n /\ (k + 1) - 1 = k /\ k \in 0 .. n /\ k + 1 \in i .. n
    BY <1>1
  <2>2. a[k + 1] = Meets(a[k], st, k + 1) /\ a[k] \in Session
    BY <2>1, AfterEquations DEF a
  <2>3. a[k + 1] = [a[k] EXCEPT !.open = FALSE]
    BY <1>3, <2>2 DEF Meets
  <2> QED  BY <1>3, <2>1, <2>2, <2>3 DEF Session
<1> HIDE DEF S, n
<1>4. \A k \in i .. n : k \in S
  BY <1>1, <1>2, <1>3, IntervalInduction
<1> QED  BY <1>4 DEF S, a, n

\* The frames that end within n bytes are whole in them; when the next one
\* does not, there are no others.
LEMMA WholeFrames ==
  ASSUME NEW st \in Seq(Frame), NEW k \in 0 .. Len(st), NEW n \in Nat,
         Offset(st)[k] <= n
  PROVE  /\ Whole(st, n) \in k .. Len(st)
         /\ (k < Len(st) => n < Offset(st)[k + 1]) => Whole(st, n) = k
<1> DEFINE o == Offset(st)
           W == {i \in 1 .. Len(st) : o[i] <= n}
<1> HIDE DEF o
<1>1. Len(st) \in Nat /\ k \in Nat /\ \A i \in 0 .. Len(st) : o[i] \in Nat
  BY OffsetEquations DEF o
<1>2. 1 .. k \subseteq W
  <2> SUFFICES ASSUME NEW i \in 1 .. k PROVE i \in W
    OBVIOUS
  <2>1. i \in 0 .. Len(st) /\ k \in i .. Len(st) /\ i \in 1 .. Len(st)
    BY <1>1
  <2>2. o[i] <= o[k]
    BY <2>1, OffsetsGrow DEF o
  <2>3. o[k] <= n
    BY DEF o
  <2> QED  BY <1>1, <2>1, <2>2, <2>3
<1>3. /\ IsFiniteSet(1 .. Len(st)) /\ Cardinality(1 .. Len(st)) = Len(st)
      /\ Cardinality(1 .. k) = k
  <2>1. ASSUME NEW b \in Nat
        PROVE  IsFiniteSet(1 .. b) /\ Cardinality(1 .. b) = b
    <3>1. 1 \in Int /\ b \in Int
      OBVIOUS
    <3>2. /\ IsFiniteSet(1 .. b)
          /\ Cardinality(1 .. b) = IF 1 > b THEN 0 ELSE b - 1 + 1
      BY <3>1, FS_Interval
    <3> QED  BY <3>2
  <2> QED  BY <1>1, <2>1
<1>4. /\ IsFiniteSet(W) /\ Cardinality(W) \in Nat
      /\ Cardinality(W) <= Len(st) /\ k <= Cardinality(W)
  <2>1. W \subseteq 1 .. Len(st)
    OBVIOUS
  <2> HIDE DEF W
  <2>2. IsFiniteSet(W) /\ Cardinality(W) <= Len(st)
    BY <1>3, <2>1, FS_Subset
  <2>3. Cardinality(1 .. k) <= Cardinality(W)
    BY <1>2, <2>2, FS_Subset
  <2> QED  BY <1>3, <2>2, <2>3, FS_CardinalityType
<1>5. Whole(st, n) = Cardinality(W)
  BY DEF Whole, o
<1>6. ASSUME k < Len(st) => n < o[k + 1]
      PROVE  W = 1 .. k
  <2> SUFFICES ASSUME NEW i \in W, i \notin 1 .. k PROVE FALSE
    BY <1>2
  <2>1. k < Len(st) /\ k + 1 \in 0 .. Len(st) /\ i \in k + 1 .. Len(st)
    BY <1>1
  <2>2. o[k + 1] <= o[i]
    BY <2>1, OffsetsGrow DEF o
  <2>3. i \in 0 .. Len(st) /\ o[i] <= n
    OBVIOUS
  <2> QED  BY <1>1, <1>6, <2>1, <2>2, <2>3
<1> HIDE DEF W
<1>7. Whole(st, n) \in k .. Len(st)
  BY <1>1, <1>4, <1>5
<1>8. (k < Len(st) => n < o[k + 1]) => Whole(st, n) = k
  BY <1>3, <1>5, <1>6
<1> QED  BY <1>7, <1>8 DEF o

\* Bytes that hold a frame the session refuses, or one that closes it, close
\* it, and leave the session as that frame found or left it.
LEMMA ClosedByFrame ==
  ASSUME NEW st \in Seq(Frame), NEW k \in 0 .. Len(st), NEW n \in Nat,
         Offset(st)[k] <= n, ~After(st)[k].open
  PROVE  /\ ClosedBy(st, n)
         /\ After(st)[Whole(st, n)].status = After(st)[k].status
         /\ After(st)[Whole(st, n)].served = After(st)[k].served
<1>1. Whole(st, n) \in k .. Len(st)
  BY WholeFrames
<1> QED  BY <1>1, ClosedStays DEF ClosedBy

(***************************************************************************)
(* The inductive invariant.  The buffer holds what was delivered behind    *)
(* the frames handled; a session that waits holds less than a frame; and   *)
(* the session is where the frames handled leave it.                       *)
(***************************************************************************)
Position ==
  /\ given <= Offset(stream)[Len(stream)]
  /\ \/ pc = "wait" /\ closed
     \/ Offset(stream)[handled] + RecvLen = given
  /\ pc = "wait" => readPos = 0
  /\ pc = "wait" /\ ~closed /\ handled < Len(stream) =>
       pending < Required(HeadFrame.wire)

Lateness ==
  /\ AtMostOneLate
  /\ pc = "frame" \/ ~closed => late = 0
  /\ expired => closed

Running ==
  ~expired =>
    /\ pc = "frame" => ~closed
    /\ pc # "wait" \/ ~closed =>
         /\ After(stream)[handled].status = status
         /\ After(stream)[handled].open <=> ~closed
         /\ After(stream)[handled].served = handled

IInv ==
  /\ TypeOK /\ Position /\ Lateness /\ Running
  /\ CutsDoNotMatter /\ GuardSuffices

\* ClosedBy is a truth value.
LEMMA ClosedByType ==
  ASSUME NEW st, NEW n
  PROVE  ClosedBy(st, n) \in BOOLEAN
BY DEF ClosedBy

\* The initial states satisfy it: nothing delivered, nothing handled.
LEMMA InitIInv ==
  Init => IInv
<1> SUFFICES ASSUME Init PROVE IInv
  OBVIOUS
<1>1. stream \in Streams /\ stream \in Seq(Frame) /\ Len(stream) \in Nat
  BY PieceAssumption DEF Init
<1>2. /\ Offset(stream)[0] = 0 /\ Offset(stream)[Len(stream)] \in Nat
      /\ After(stream)[0] = Fresh
  BY <1>1, OffsetEquations, AfterEquations
<1>3. ASSUME 0 < Len(stream)
      PROVE  /\ Required(stream[1].wire) \in Nat /\ 0 < Required(stream[1].wire)
             /\ Offset(stream)[1] = Required(stream[1].wire)
  <2>1. 1 \in 1 .. Len(stream) /\ 1 - 1 = 0
    BY <1>1, <1>3
  <2>2. Required(stream[1].wire) \in Nat /\ 0 < Required(stream[1].wire)
    BY <1>1, <2>1, FrameTypes, RequiredBounds, Sizes, SMT
  <2>3. Offset(stream)[1] = Offset(stream)[0] + Required(stream[1].wire)
    BY <1>1, <2>1, OffsetEquations
  <2> QED  BY <1>2, <2>2, <2>3
<1>4. TypeOK
  <2>1. pending \in 0 .. MaxPendingInput
    BY Sizes, SMT DEF Init
  <2>2. status \in StreamState
    BY DEF Init, StreamState
  <2>3. /\ readPos \in 0 .. pending /\ handled \in 0 .. Len(stream)
        /\ late \in 0 .. handled
    BY <1>1 DEF Init
  <2> QED  BY <1>1, <2>1, <2>2, <2>3 DEF Init, TypeOK
<1>5. Position
  BY <1>1, <1>2, <1>3 DEF Init, Position, RecvLen, HeadFrame
<1>6. /\ After(stream)[0].status = "CHALLENGE"
      /\ After(stream)[0].open
      /\ After(stream)[0].served = 0
  BY <1>2 DEF Fresh
<1>7. Lateness /\ Running
  BY <1>6 DEF Init, Lateness, Running, AtMostOneLate
<1>8. Whole(stream, 0) = 0
  <2>1. 0 \in 0 .. Len(stream) /\ Offset(stream)[0] <= 0 /\ 0 \in Nat
    BY <1>1, <1>2
  <2>2. 0 < Len(stream) => 0 < Offset(stream)[0 + 1]
    BY <1>3
  <2> QED  BY <1>1, <2>1, <2>2, WholeFrames
<1>9. CutsDoNotMatter
  <2>1. ~ClosedBy(stream, 0)
    BY <1>2, <1>6, <1>8 DEF ClosedBy
  <2>2. closed = ClosedBy(stream, given)
    BY <2>1, ClosedByType DEF Init
  <2> QED  BY <1>6, <1>8, <2>2 DEF Init, CutsDoNotMatter
<1> QED  BY <1>4, <1>5, <1>7, <1>9 DEF IInv, GuardSuffices, Init

\* What the invariant says of the frame in front.
LEMMA InFront ==
  ASSUME IInv
  PROVE  /\ stream \in Seq(Frame) /\ Len(stream) \in Nat
         /\ handled \in 0 .. Len(stream)
         /\ given \in Nat /\ RecvLen \in Nat
         /\ \A i \in 0 .. Len(stream) : /\ Offset(stream)[i] \in Nat
                                        /\ After(stream)[i] \in Session
         /\ handled < Len(stream) =>
              /\ handled + 1 \in 1 .. Len(stream)
              /\ HeadFrame = stream[handled + 1]
              /\ HeadFrame.wire \in Wire
              /\ HeadFrame.outcome.next \in StreamState
              /\ HeadFrame.outcome.ok \in BOOLEAN
              /\ Required(HeadFrame.wire) \in 1 .. MaxPendingInput
              /\ Offset(stream)[handled + 1] =
                   Offset(stream)[handled] + Required(HeadFrame.wire)
              /\ After(stream)[handled + 1] =
                   Meets(After(stream)[handled], stream, handled + 1)
         /\ ~(pc = "wait" /\ closed) /\ RecvLen > 0 => handled < Len(stream)
<1>1. /\ stream \in Seq(Frame) /\ Len(stream) \in Nat
      /\ handled \in 0 .. Len(stream) /\ given \in Nat
      /\ pending \in Nat /\ readPos \in 0 .. pending
  BY PieceAssumption, Sizes, SMT DEF IInv, TypeOK
<1>2. RecvLen \in Nat
  BY <1>1 DEF RecvLen
<1>3. \A i \in 0 .. Len(stream) : /\ Offset(stream)[i] \in Nat
                                  /\ After(stream)[i] \in Session
  BY <1>1, OffsetEquations, AfterEquations
<1>4. ASSUME handled < Len(stream)
      PROVE  /\ handled + 1 \in 1 .. Len(stream)
             /\ HeadFrame = stream[handled + 1]
             /\ HeadFrame.wire \in Wire
             /\ HeadFrame.outcome.next \in StreamState
             /\ HeadFrame.outcome.ok \in BOOLEAN
             /\ Required(HeadFrame.wire) \in 1 .. MaxPendingInput
             /\ Offset(stream)[handled + 1] =
                  Offset(stream)[handled] + Required(HeadFrame.wire)
             /\ After(stream)[handled + 1] =
                  Meets(After(stream)[handled], stream, handled + 1)
  <2>1. handled + 1 \in 1 .. Len(stream) /\ (handled + 1) - 1 = handled
    BY <1>1, <1>4
  <2>2. HeadFrame = stream[handled + 1]
    BY DEF HeadFrame
  <2>3. /\ HeadFrame.wire \in Wire
        /\ HeadFrame.outcome.next \in StreamState
        /\ HeadFrame.outcome.ok \in BOOLEAN
    BY <1>1, <2>1, <2>2, FrameTypes
  <2>4. Required(HeadFrame.wire) \in 1 .. MaxPendingInput
    BY <2>3, RequiredBounds
  <2>5. /\ Offset(stream)[handled + 1] =
             Offset(stream)[handled] + Required(HeadFrame.wire)
        /\ After(stream)[handled + 1] =
             Meets(After(stream)[handled], stream, handled + 1)
    BY <1>1, <2>1, <2>2, OffsetEquations, AfterEquations
  <2> QED  BY <2>1, <2>2, <2>3, <2>4, <2>5
<1>5. ASSUME ~(pc = "wait" /\ closed), RecvLen > 0
      PROVE  handled < Len(stream)
  <2>1. /\ given <= Offset(stream)[Len(stream)]
        /\ Offset(stream)[handled] + RecvLen = given
    BY <1>5 DEF IInv, Position
  <2>2. Offset(stream)[handled] \in Nat /\ Offset(stream)[Len(stream)] \in Nat
    BY <1>1, <1>3
  <2> QED  BY <1>1, <1>2, <1>5, <2>1, <2>2
<1> QED  BY <1>1, <1>2, <1>3, <1>4, <1>5

\* A refused frame that is whole in the first n bytes closes the session and
\* leaves the rest of it as it is.
LEMMA Refusal ==
  ASSUME IInv, ~expired, ~closed, handled < Len(stream), NEW n \in Nat,
         Offset(stream)[handled + 1] <= n, ~Served(HeadFrame, status)
  PROVE  /\ ClosedBy(stream, n)
         /\ After(stream)[Whole(stream, n)].status = status
         /\ After(stream)[Whole(stream, n)].served = handled
<1> DEFINE a == After(stream)
<1>1. /\ a[handled].status = status /\ a[handled].served = handled
      /\ a[handled] \in Session
  BY InFront DEF IInv, Running
<1>2. a[handled + 1] = Meets(a[handled], stream, handled + 1)
      /\ HeadFrame = stream[handled + 1]
  BY InFront
<1> HIDE DEF a
<1>3. a[handled + 1] = [a[handled] EXCEPT !.open = FALSE]
  BY <1>1, <1>2 DEF Meets
<1>4. /\ ~a[handled + 1].open
      /\ a[handled + 1].status = status /\ a[handled + 1].served = handled
  BY <1>1, <1>3 DEF Session
<1>5. handled + 1 \in 0 .. Len(stream) /\ stream \in Seq(Frame)
  BY InFront
<1> QED  BY <1>4, <1>5, ClosedByFrame DEF a

\* A piece that does not fit closes a session its frames close as well.
LEMMA Overflow ==
  ASSUME IInv, pc = "wait", ~closed, NEW n \in Nat,
         n <= MaxPiece, ~CanAppendPending(pending, n)
  PROVE  /\ handled < Len(stream)
         /\ Offset(stream)[handled + 1] <= given + n
         /\ ~Served(HeadFrame, status)
<1>1. /\ pending \in 0 .. MaxPendingInput /\ readPos = 0
      /\ Offset(stream)[handled] + RecvLen = given
      /\ handled < Len(stream) => pending < Required(HeadFrame.wire)
  BY DEF IInv, TypeOK, Position
<1>2. RecvLen = pending /\ MaxPendingInput \in Nat /\ pending \in Nat
  BY <1>1, Sizes, SMT DEF RecvLen
<1>3. pending + n > MaxPendingInput
  BY <1>1, <1>2, SMT DEF CanAppendPending
<1>4. pending >= LongestChallenge /\ pending > 0
  BY <1>2, <1>3, PieceAssumption, Sizes, SMT
<1>5. handled < Len(stream)
  BY <1>2, <1>4, InFront
<1>6. /\ HeadFrame.wire \in Wire
      /\ Required(HeadFrame.wire) \in 1 .. MaxPendingInput
      /\ Offset(stream)[handled + 1] =
           Offset(stream)[handled] + Required(HeadFrame.wire)
      /\ Offset(stream)[handled] \in Nat
  BY <1>5, InFront
<1>7. Malformed(HeadFrame.wire, Required(HeadFrame.wire))
  BY <1>1, <1>2, <1>4, <1>5, <1>6, RequiredBounds, Sizes, SMT
<1>8. Offset(stream)[handled + 1] <= given + n
  BY <1>1, <1>2, <1>3, <1>6, SMT
<1> QED  BY <1>5, <1>7, <1>8 DEF Served

\* A call of onData keeps the invariant.
LEMMA OnDataStep ==
  ASSUME IInv, NEW point \in CutPoints(stream), point > given,
         OnData(point - given)
  PROVE  IInv'
<1> DEFINE n == point - given
<1>1. Offset(stream)[Len(stream)] \in Nat /\ given \in Nat
  BY InFront
<1>2. point \in 0 .. Offset(stream)[Len(stream)]
  BY DEF CutPoints
<1>3. n \in Nat /\ given + n = point
  BY <1>1, <1>2
<1> HIDE DEF n
<1>4. /\ pc = "wait" /\ ~closed /\ n <= MaxPiece /\ given' = given + n
      /\ stream' = stream /\ status' = status /\ expired' = expired
      /\ handled' = handled /\ late' = late /\ defence' = defence
  BY DEF OnData, n
<1>5. /\ Offset(stream)[handled] + RecvLen = given /\ readPos = 0
      /\ pending \in 0 .. MaxPendingInput
  BY <1>4 DEF IInv, Position, TypeOK
<1>6. CASE /\ CanAppendPending(pending, n)
           /\ pending' = pending + n /\ readPos' = 0 /\ pc' = "loop"
           /\ closed' = closed
  <2>1. pending' \in 0 .. MaxPendingInput /\ readPos' \in 0 .. pending'
    BY <1>3, <1>5, <1>6, Sizes, SMT DEF CanAppendPending
  <2>2. TypeOK'
    BY <1>1, <1>3, <1>4, <1>6, <2>1 DEF IInv, TypeOK
  <2>3. Offset(stream)[handled] + RecvLen' = given'
    <3>1. Offset(stream)[handled] \in Nat
      BY InFront
    <3>2. pending \in Nat
      BY <1>5, Sizes, SMT
    <3> QED  BY <1>3, <1>4, <1>5, <1>6, <3>1, <3>2 DEF RecvLen
  <2>4. Position'
    BY <1>1, <1>2, <1>3, <1>4, <1>6, <2>3 DEF Position
  <2>5. Lateness' /\ GuardSuffices'
    BY <1>4, <1>6 DEF IInv, Lateness, AtMostOneLate, GuardSuffices
  <2>6. Running' /\ CutsDoNotMatter'
    BY <1>4, <1>6 DEF IInv, Running, CutsDoNotMatter
  <2> QED  BY <2>2, <2>4, <2>5, <2>6 DEF IInv
<1>7. CASE /\ ~CanAppendPending(pending, n)
           /\ Clear /\ closed' = TRUE /\ pc' = pc
  <2>1. TypeOK'
    <3>1. pending' \in 0 .. MaxPendingInput /\ readPos' \in 0 .. pending'
      BY <1>7, Sizes, SMT DEF Clear
    <3> QED  BY <1>1, <1>3, <1>4, <1>7, <3>1 DEF IInv, TypeOK
  <2>2. Position'
    BY <1>1, <1>2, <1>3, <1>4, <1>7 DEF Position, Clear
  <2>3. Lateness' /\ GuardSuffices'
    BY <1>4, <1>7 DEF IInv, Lateness, AtMostOneLate, GuardSuffices
  <2>4. Running'
    BY <1>4, <1>7 DEF Running
  <2>5. ASSUME ~expired
        PROVE  /\ ClosedBy(stream, point)
               /\ After(stream)[Whole(stream, point)].status = status
               /\ After(stream)[Whole(stream, point)].served = handled
    <3>1. /\ handled < Len(stream) /\ Offset(stream)[handled + 1] <= point
          /\ ~Served(HeadFrame, status)
      BY <1>3, <1>4, <1>7, Overflow
    <3>2. point \in Nat
      BY <1>1, <1>3
    <3> QED  BY <1>4, <2>5, <3>1, <3>2, Refusal
  <2>6. CutsDoNotMatter'
    <3> SUFFICES ASSUME ~expired
                 PROVE  CutsDoNotMatter'
      BY <1>4 DEF CutsDoNotMatter
    <3>1. closed' = ClosedBy(stream, point)
      BY <1>7, <2>5, ClosedByType
    <3> QED  BY <1>3, <1>4, <2>5, <3>1 DEF CutsDoNotMatter
  <2> QED  BY <2>1, <2>2, <2>3, <2>4, <2>6 DEF IInv
<1> QED  BY <1>6, <1>7 DEF OnData, n

\* Crunching the buffer loses no byte that was not consumed.
LEMMA CrunchKeeps ==
  ASSUME IInv, Crunch
  PROVE  /\ pending' = RecvLen /\ readPos' = 0 /\ pc' = "wait"
         /\ pending' \in 0 .. MaxPendingInput /\ readPos' \in 0 .. pending'
<1>1. pending \in 0 .. MaxPendingInput /\ readPos \in 0 .. pending
  BY DEF IInv, TypeOK
<1>2. pending' = RecvLen /\ readPos' = 0 /\ pc' = "wait"
  BY <1>1, Sizes, SMT DEF Crunch, RecvLen
<1> QED  BY <1>1, <1>2, Sizes, SMT DEF RecvLen

\* The top of the loop keeps the invariant.
LEMMA WhileOpenStep ==
  ASSUME IInv, WhileOpen
  PROVE  IInv'
<1>1. /\ pc = "loop" /\ stream' = stream /\ given' = given
      /\ status' = status /\ closed' = closed /\ expired' = expired
      /\ handled' = handled /\ late' = late /\ defence' = defence
  BY DEF WhileOpen
<1>2. Offset(stream)[handled] + RecvLen = given
  BY <1>1 DEF IInv, Position
<1>3. CASE closed /\ Crunch
  <2>1. /\ pc' = "wait" /\ readPos' = 0
        /\ pending' \in 0 .. MaxPendingInput /\ readPos' \in 0 .. pending'
    BY <1>3, CrunchKeeps
  <2>2. TypeOK' /\ Position' /\ Lateness' /\ GuardSuffices' /\ Running'
    BY <1>1, <1>3, <2>1 DEF IInv, TypeOK, Position, Lateness, AtMostOneLate,
       GuardSuffices, Running
  <2>3. ASSUME ~expired
        PROVE  /\ ClosedBy(stream, given)
               /\ After(stream)[Whole(stream, given)].status = status
               /\ After(stream)[Whole(stream, given)].served = handled
    <3>1. /\ After(stream)[handled].status = status
          /\ ~After(stream)[handled].open
          /\ After(stream)[handled].served = handled
      BY <1>1, <1>3, <2>3 DEF IInv, Running
    <3>2. /\ stream \in Seq(Frame) /\ handled \in 0 .. Len(stream)
          /\ given \in Nat /\ Offset(stream)[handled] \in Nat /\ RecvLen \in Nat
      BY InFront
    <3>3. Offset(stream)[handled] <= given
      BY <1>2, <3>2
    <3> QED  BY <3>1, <3>2, <3>3, ClosedByFrame
  <2>4. CutsDoNotMatter'
    <3> SUFFICES ASSUME ~expired
                 PROVE  CutsDoNotMatter'
      BY <1>1 DEF CutsDoNotMatter
    <3>1. closed' = ClosedBy(stream, given)
      BY <1>1, <1>3, <2>3, ClosedByType DEF IInv, TypeOK
    <3> QED  BY <1>1, <2>3, <3>1 DEF CutsDoNotMatter
  <2> QED  BY <2>2, <2>4 DEF IInv
<1>4. CASE ~closed /\ pc' = "frame" /\ pending' = pending /\ readPos' = readPos
  <2>1. TypeOK' /\ Position' /\ Lateness' /\ GuardSuffices'
    BY <1>1, <1>2, <1>4 DEF IInv, TypeOK, Position, RecvLen, Lateness,
       AtMostOneLate, GuardSuffices
  <2>2. Running' /\ CutsDoNotMatter'
    BY <1>1, <1>4 DEF IInv, Running, CutsDoNotMatter
  <2> QED  BY <2>1, <2>2 DEF IInv
<1> QED  BY <1>3, <1>4 DEF WhileOpen

\* Returning with an incomplete frame keeps the invariant: no whole frame is
\* left in the buffer.
LEMMA IncompleteFrameStep ==
  ASSUME IInv, IncompleteFrame
  PROVE  IInv'
<1>1. /\ pc = "frame" /\ stream' = stream /\ given' = given
      /\ status' = status /\ closed' = closed /\ expired' = expired
      /\ handled' = handled /\ late' = late /\ defence' = defence
      /\ Decision = "Incomplete" /\ Crunch
  BY DEF IncompleteFrame
<1>2. /\ Offset(stream)[handled] + RecvLen = given
      /\ given <= Offset(stream)[Len(stream)]
  BY <1>1 DEF IInv, Position
<1>3. /\ pending' = RecvLen /\ readPos' = 0 /\ pc' = "wait"
      /\ pending' \in 0 .. MaxPendingInput /\ readPos' \in 0 .. pending'
  BY <1>1, CrunchKeeps
<1>4. /\ stream \in Seq(Frame) /\ Len(stream) \in Nat /\ given \in Nat
      /\ handled \in 0 .. Len(stream)
      /\ Offset(stream)[handled] \in Nat /\ RecvLen \in Nat
  BY InFront
<1>5. RecvLen # 0 => /\ ~Unauthorized(status, HeadFrame.wire)
                     /\ ~Malformed(HeadFrame.wire, RecvLen)
  BY <1>1, <1>4 DEF Decision, InspectFrame
<1>6. ASSUME handled < Len(stream)
      PROVE  RecvLen < Required(HeadFrame.wire)
  <2>1. Required(HeadFrame.wire) \in 1 .. MaxPendingInput
    BY <1>6, InFront
  <2>2. CASE RecvLen = 0
    BY <2>1, <2>2, Sizes, SMT
  <2>3. CASE RecvLen # 0
    BY <1>1, <2>3 DEF Decision, InspectFrame
  <2> QED  BY <2>2, <2>3
<1>7. TypeOK' /\ Lateness' /\ GuardSuffices'
  BY <1>1, <1>3 DEF IInv, TypeOK, Lateness, AtMostOneLate, GuardSuffices
<1>8. Position'
  <2>1. RecvLen' = RecvLen
    BY <1>3, <1>4 DEF RecvLen
  <2>2. HeadFrame' = HeadFrame
    BY <1>1 DEF HeadFrame
  <2> QED  BY <1>1, <1>2, <1>3, <1>6, <2>1, <2>2 DEF Position
<1>9. Running'
  BY <1>1, <1>3 DEF IInv, Running
<1>10. CutsDoNotMatter'
  <2> SUFFICES ASSUME ~expired PROVE CutsDoNotMatter'
    BY <1>1 DEF CutsDoNotMatter
  <2>1. /\ ~closed
        /\ After(stream)[handled].status = status
        /\ After(stream)[handled].open
        /\ After(stream)[handled].served = handled
    BY <1>1 DEF IInv, Running
  <2>2. Whole(stream, given) = handled
    <3>1. Offset(stream)[handled] <= given
      BY <1>2, <1>4
    <3>2. handled < Len(stream) => given < Offset(stream)[handled + 1]
      <4> SUFFICES ASSUME handled < Len(stream)
                   PROVE  given < Offset(stream)[handled + 1]
        OBVIOUS
      <4>1. /\ Offset(stream)[handled + 1] =
                 Offset(stream)[handled] + Required(HeadFrame.wire)
            /\ Required(HeadFrame.wire) \in 1 .. MaxPendingInput
        BY InFront
      <4> QED  BY <1>2, <1>4, <1>6, <4>1, Sizes, SMT
    <3> QED  BY <1>4, <3>1, <3>2, WholeFrames
  <2>3. ~ClosedBy(stream, given)
    <3>1. given > Offset(stream)[handled] => RecvLen # 0
      BY <1>2, <1>4
    <3>2. given - Offset(stream)[handled] = RecvLen
      BY <1>2, <1>4
    <3> QED  BY <1>5, <2>1, <2>2, <3>1, <3>2 DEF ClosedBy, HeadFrame
  <2>4. closed' = ClosedBy(stream, given)
    BY <1>1, <2>1, <2>3, ClosedByType DEF IInv, TypeOK
  <2> QED  BY <1>1, <2>1, <2>2, <2>4 DEF CutsDoNotMatter
<1> QED  BY <1>7, <1>8, <1>9, <1>10 DEF IInv

\* Refusing a frame keeps the invariant: the bytes delivered close the session.
LEMMA RejectFrameStep ==
  ASSUME IInv, RejectFrame
  PROVE  IInv'
<1>1. /\ pc = "frame" /\ stream' = stream /\ given' = given
      /\ status' = status /\ closed' = TRUE /\ expired' = expired
      /\ handled' = handled /\ late' = late /\ defence' = defence
      /\ pc' = "wait" /\ pending' = 0 /\ readPos' = 0
      /\ Decision = "Reject"
  BY DEF RejectFrame, Clear
<1>2. /\ Offset(stream)[handled] + RecvLen = given
      /\ given <= Offset(stream)[Len(stream)]
  BY <1>1 DEF IInv, Position
<1>3. /\ stream \in Seq(Frame) /\ Len(stream) \in Nat /\ given \in Nat
      /\ handled \in 0 .. Len(stream)
      /\ Offset(stream)[handled] \in Nat /\ RecvLen \in Nat
  BY InFront
<1>4. /\ RecvLen > 0
      /\ \/ Unauthorized(status, HeadFrame.wire)
         \/ Malformed(HeadFrame.wire, RecvLen)
  BY <1>1, <1>3 DEF Decision, InspectFrame
<1>5. handled < Len(stream)
  BY <1>1, <1>4, InFront
<1>6. /\ HeadFrame.wire \in Wire
      /\ Required(HeadFrame.wire) \in 1 .. MaxPendingInput
      /\ Offset(stream)[handled + 1] =
           Offset(stream)[handled] + Required(HeadFrame.wire)
  BY <1>5, InFront
<1>7. Required(HeadFrame.wire) \in Nat
  BY <1>6, Sizes, SMT
<1>8. TypeOK' /\ Position' /\ Lateness' /\ GuardSuffices' /\ Running'
  <2>1. pending' \in 0 .. MaxPendingInput /\ readPos' \in 0 .. pending'
    BY <1>1, Sizes, SMT
  <2> QED
    BY <1>1, <1>2, <2>1 DEF IInv, TypeOK, Position, Lateness, AtMostOneLate,
       GuardSuffices, Running
<1>9. ASSUME ~expired
      PROVE  /\ ClosedBy(stream, given)
             /\ After(stream)[Whole(stream, given)].status = status
             /\ After(stream)[Whole(stream, given)].served = handled
  <2>1. /\ ~closed
        /\ After(stream)[handled].status = status
        /\ After(stream)[handled].open
        /\ After(stream)[handled].served = handled
    BY <1>1, <1>9 DEF IInv, Running
  <2>2. CASE RecvLen >= Required(HeadFrame.wire)
    <3>1. ~Served(HeadFrame, status)
      BY <1>3, <1>4, <1>6, <2>2, WholeFrameDefects DEF Served
    <3>2. Offset(stream)[handled + 1] <= given
      BY <1>2, <1>3, <1>6, <1>7, <2>2
    <3> QED  BY <1>3, <1>5, <1>9, <2>1, <3>1, <3>2, Refusal
  <2>3. CASE RecvLen < Required(HeadFrame.wire)
    <3>1. Offset(stream)[handled] <= given /\ given > Offset(stream)[handled]
      BY <1>2, <1>3, <1>4
    <3>2. given < Offset(stream)[handled + 1]
      BY <1>2, <1>3, <1>6, <1>7, <2>3
    <3>3. Whole(stream, given) = handled
      BY <1>3, <3>1, <3>2, WholeFrames
    <3>4. given - Offset(stream)[handled] = RecvLen
      BY <1>2, <1>3
    <3> QED  BY <1>4, <2>1, <3>1, <3>3, <3>4 DEF ClosedBy, HeadFrame
  <2> QED  BY <1>3, <1>7, <2>2, <2>3
<1>10. CutsDoNotMatter'
  <2> SUFFICES ASSUME ~expired PROVE CutsDoNotMatter'
    BY <1>1 DEF CutsDoNotMatter
  <2>1. closed' = ClosedBy(stream, given)
    BY <1>1, <1>9, ClosedByType
  <2> QED  BY <1>1, <1>9, <2>1 DEF CutsDoNotMatter
<1> QED  BY <1>8, <1>10 DEF IInv

\* Handling a frame keeps the invariant: the state compared in the dispatch
\* table is the one the guard compared, the handler takes the frame and no
\* more, and the session becomes what the frame makes of it.
LEMMA HandleFrameStep ==
  ASSUME IInv, HandleFrame
  PROVE  IInv'
<1> DEFINE w == HeadFrame.wire
           ok == HeadFrame.outcome.ok
           cancel == w.cmd = "CMD_XFER_CANCEL"
<1>1. /\ pc = "frame" /\ Decision = "Complete"
      /\ stream' = stream /\ given' = given /\ expired' = expired
  BY DEF HandleFrame
<1>2. /\ Offset(stream)[handled] + RecvLen = given
      /\ given <= Offset(stream)[Len(stream)]
      /\ late = 0 /\ ~defence
  BY <1>1 DEF IInv, Position, Lateness, GuardSuffices
<1>3. /\ stream \in Seq(Frame) /\ Len(stream) \in Nat /\ given \in Nat
      /\ handled \in 0 .. Len(stream)
      /\ Offset(stream)[handled] \in Nat /\ RecvLen \in Nat
  BY InFront
<1>4. /\ RecvLen > 0
      /\ ~Unauthorized(status, w) /\ ~Malformed(w, RecvLen)
      /\ ~(RecvLen < Required(w))
  BY <1>1, <1>3 DEF Decision, InspectFrame
<1>5. handled < Len(stream)
  BY <1>1, <1>4, InFront
<1>6. /\ w \in Wire /\ ok \in BOOLEAN
      /\ HeadFrame.outcome.next \in StreamState
      /\ Required(w) \in 1 .. MaxPendingInput
      /\ handled + 1 \in 1 .. Len(stream) /\ HeadFrame = stream[handled + 1]
      /\ Offset(stream)[handled + 1] = Offset(stream)[handled] + Required(w)
      /\ After(stream)[handled + 1] =
           Meets(After(stream)[handled], stream, handled + 1)
      /\ After(stream)[handled + 1] \in Session
  BY <1>5, InFront
<1>7. Required(w) \in Nat /\ RecvLen >= Required(w)
  BY <1>3, <1>4, <1>6, Sizes, SMT
<1>8. w.cmd \in Command /\ HandlerStatus[w.cmd] = status
  <2>1. w.cmd \in Command \cup {Unknown}
    BY <1>6, SMT DEF Wire
  <2>2. w.cmd \in Command /\ ExpectedState[w.cmd] = status
    BY <1>4, <2>1 DEF Unauthorized
  <2> QED  BY <2>2, TablesAgree
<1>9. Consumed(w) = Required(w)
  BY <1>6, <1>8, HandlerIsExact
<1>10. Served(HeadFrame, status)
  BY <1>3, <1>4, <1>6, <1>7, WholeFrameDefects DEF Served
<1>11. /\ status' = HeadFrame.outcome.next
       /\ handled' = handled + 1
       /\ late' = IF closed THEN 1 ELSE 0
       /\ ~defence' /\ defence' \in BOOLEAN
       /\ closed' <=> closed \/ ~ok \/ cancel
       /\ closed' \in BOOLEAN
       /\ \/ /\ ok
             /\ readPos' = readPos + Required(w) /\ pc' = "loop"
             /\ pending' = pending
          \/ /\ ~ok
             /\ pending' = 0 /\ readPos' = 0 /\ pc' = "wait"
  <2> DEFINE expected == HandlerStatus[w.cmd] = status
             exact == Consumed(w) = Required(w)
             served == expected /\ ok /\ exact
  <2>1. /\ status' = IF expected THEN HeadFrame.outcome.next ELSE status
        /\ handled' = IF expected THEN handled + 1 ELSE handled
        /\ late' = IF expected /\ closed THEN late + 1 ELSE late
        /\ defence' = (defence \/ ~expected \/ (ok /\ ~exact))
        /\ closed' = (closed \/ ~served \/ cancel)
        /\ \/ /\ served
              /\ readPos' = readPos + Consumed(w) /\ pc' = "loop"
              /\ pending' = pending
           \/ /\ ~served
              /\ pending' = 0 /\ readPos' = 0 /\ pc' = "wait"
    BY DEF HandleFrame, Clear
  <2>2. expected /\ exact
    BY <1>8, <1>9
  <2> HIDE DEF expected, exact, ok, cancel
  <2>3. /\ status' = HeadFrame.outcome.next /\ handled' = handled + 1
        /\ late' = IF closed THEN 1 ELSE 0
    BY <1>2, <2>1, <2>2
  <2>4. /\ ~defence' /\ defence' \in BOOLEAN
        /\ closed' <=> closed \/ ~ok \/ cancel
        /\ closed' \in BOOLEAN
    BY <1>2, <2>1, <2>2
  <2> QED  BY <1>9, <2>1, <2>2, <2>3, <2>4
<1> HIDE DEF w, ok, cancel
<1>12. pending \in 0 .. MaxPendingInput /\ readPos \in 0 .. pending
  BY DEF IInv, TypeOK
<1>13. TypeOK'
  <2>1. pending' \in 0 .. MaxPendingInput /\ readPos' \in 0 .. pending'
    BY <1>7, <1>11, <1>12, Sizes, SMT DEF RecvLen
  <2>2. /\ handled' \in 0 .. Len(stream) /\ late' \in 0 .. handled'
        /\ closed' \in BOOLEAN /\ defence' \in BOOLEAN
        /\ pc' \in {"wait", "loop", "frame"}
    BY <1>3, <1>5, <1>11
  <2>3. stream' \in Streams /\ given' \in Nat /\ expired' \in BOOLEAN
    BY <1>1 DEF IInv, TypeOK
  <2> QED  BY <1>1, <1>6, <1>11, <2>1, <2>2, <2>3 DEF TypeOK
<1>14. Position'
  <2>1. CASE ok
    <3>1. RecvLen' = RecvLen - Required(w)
      BY <1>7, <1>11, <1>12, <2>1, Sizes, SMT DEF RecvLen
    <3>2. Offset(stream)[handled'] + RecvLen' = given
      BY <1>2, <1>3, <1>6, <1>7, <1>11, <3>1, SMT
    <3> QED  BY <1>1, <1>2, <1>11, <2>1, <3>2 DEF Position
  <2>2. CASE ~ok
    BY <1>1, <1>2, <1>11, <2>2 DEF Position
  <2> QED  BY <2>1, <2>2
<1>15. Lateness' /\ GuardSuffices'
  BY <1>1, <1>11 DEF IInv, Lateness, AtMostOneLate, GuardSuffices
<1>16. ASSUME ~expired
       PROVE  /\ ~closed
              /\ After(stream)[handled + 1].status = status'
              /\ After(stream)[handled + 1].open <=> ~closed'
              /\ After(stream)[handled + 1].served = handled'
  <2>1. /\ ~closed
        /\ After(stream)[handled].status = status
        /\ After(stream)[handled].open
        /\ After(stream)[handled].served = handled
    BY <1>1, <1>16 DEF IInv, Running
  <2>2. After(stream)[handled + 1] =
          [status |-> HeadFrame.outcome.next, open |-> ok /\ ~cancel,
           served |-> handled + 1]
    BY <1>6, <1>10, <2>1 DEF Meets, ok, cancel, w
  <2>3. After(stream)[handled + 1].open <=> ok /\ ~cancel
    <3> DEFINE stays == ok /\ ~cancel
    <3>1. stays \in BOOLEAN
      OBVIOUS
    <3> HIDE DEF stays
    <3>2. After(stream)[handled + 1].open = stays
      BY <2>2 DEF stays
    <3> QED  BY <3>1, <3>2 DEF stays
  <2> QED  BY <1>11, <2>1, <2>2, <2>3
<1>17. Running'
  BY <1>1, <1>11, <1>16 DEF Running
<1>18. CutsDoNotMatter'
  <2> SUFFICES ASSUME ~expired, ~ok PROVE CutsDoNotMatter'
    BY <1>1, <1>11 DEF CutsDoNotMatter
  <2>1. Offset(stream)[handled + 1] <= given /\ handled + 1 \in 0 .. Len(stream)
    BY <1>2, <1>3, <1>6, <1>7
  <2>2. ~After(stream)[handled + 1].open
    BY <1>11, <1>16
  <2>3. /\ ClosedBy(stream, given)
        /\ After(stream)[Whole(stream, given)].status = status'
        /\ After(stream)[Whole(stream, given)].served = handled'
    BY <1>3, <1>16, <2>1, <2>2, ClosedByFrame
  <2>4. closed' = ClosedBy(stream, given)
    BY <1>11, <2>3, ClosedByType
  <2> QED  BY <1>1, <2>3, <2>4 DEF CutsDoNotMatter
<1> QED  BY <1>13, <1>14, <1>15, <1>17, <1>18 DEF IInv

\* The deadline keeps the invariant.
LEMMA ExpireStep ==
  ASSUME IInv, Expire
  PROVE  IInv'
<1>1. /\ ~closed /\ closed' = TRUE /\ expired' = TRUE
      /\ stream' = stream /\ given' = given /\ pc' = pc /\ pending' = pending
      /\ readPos' = readPos /\ status' = status /\ handled' = handled
      /\ late' = late /\ defence' = defence
  BY DEF Expire
<1>2. TypeOK' /\ Lateness' /\ GuardSuffices' /\ Running' /\ CutsDoNotMatter'
  BY <1>1 DEF IInv, TypeOK, Lateness, AtMostOneLate, GuardSuffices, Running,
     CutsDoNotMatter
<1>3. Position'
  BY <1>1 DEF IInv, Position, RecvLen
<1> QED  BY <1>2, <1>3 DEF IInv

\* Every step keeps the invariant.
LEMMA NextIInv ==
  ASSUME IInv, [Next]_vars
  PROVE  IInv'
<1>1. CASE UNCHANGED vars
  <2>1. /\ stream' = stream /\ given' = given /\ pc' = pc
        /\ pending' = pending /\ readPos' = readPos /\ status' = status
        /\ closed' = closed /\ expired' = expired /\ handled' = handled
        /\ late' = late /\ defence' = defence
    BY <1>1 DEF vars
  <2> QED
    BY <2>1 DEF IInv, TypeOK, Position, Lateness, Running, CutsDoNotMatter,
       GuardSuffices, AtMostOneLate, RecvLen, HeadFrame
<1>2. CASE \E point \in CutPoints(stream) :
             point > given /\ OnData(point - given)
  BY <1>2, OnDataStep
<1> QED
  BY <1>1, <1>2, WhileOpenStep, IncompleteFrameStep, RejectFrameStep,
     HandleFrameStep, ExpireStep DEF Next

\* The invariant holds in every reachable state.
LEMMA Invariance ==
  Spec => []IInv
BY InitIInv, NextIInv, PTL DEF Spec

(***************************************************************************)
(* The theorems.                                                           *)
(***************************************************************************)

\* The buffer never holds more than MaxPendingInput, the read position never
\* passes its end, and no frame is handled that the client did not send
\* (AuthSocket.cpp 340-459).
THEOREM StreamTypes ==
  Spec => []TypeOK
<1>1. IInv => TypeOK
  BY DEF IInv
<1> QED  BY <1>1, Invariance, PTL

\* For every stream of frames and every way to cut it into pieces, onData
\* handles the frames, and reaches the state and the verdict, that the bytes
\* delivered so far stand for: the loop, the buffer and the limit on pending
\* input (AuthSocket.cpp 347-459) are invisible.
THEOREM CutsNeverMatter ==
  Spec => []CutsDoNotMatter
<1>1. IInv => CutsDoNotMatter
  BY DEF IInv
<1> QED  BY <1>1, Invariance, PTL

\* No frame passes InspectFrame that the dispatch table refuses or whose
\* handler takes another number of bytes, in any state a stream can bring the
\* session to (AuthSocket.cpp 411-434).
THEOREM GuardAlwaysSuffices ==
  Spec => []GuardSuffices
<1>1. IInv => GuardSuffices
  BY DEF IInv
<1> QED  BY <1>1, Invariance, PTL

\* However many frames the buffer holds when the deadline closes the session,
\* at most one of them is handled (AuthSocket.cpp 379).
THEOREM LateFrames ==
  Spec => []AtMostOneLate
<1>1. IInv => AtMostOneLate
  BY DEF IInv, Lateness
<1> QED  BY <1>1, Invariance, PTL
=============================================================================
