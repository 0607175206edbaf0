------------------------ MODULE SyncTransport_proofs ------------------------
(***************************************************************************)
(* Proofs about a sync run and its import, for any projects, artifacts and *)
(* bounds.                                                                 *)
(*                                                                         *)
(* The power lease: whatever the import does, the lease ends with the run  *)
(* and with the exit of the application, and a timeout of the platform     *)
(* that hits it is seen by its watcher.                                    *)
(*                                                                         *)
(* The import: its types and bounds hold, received files fit the budget    *)
(* and are gone at the end, every project is reported once, and what is    *)
(* applied has been staged.  The argument follows a project through the    *)
(* books of the session (it is to be discovered, awaited, ready or known   *)
(* to be lost), through the tasks to be enqueued, the queue of the lane    *)
(* and its reports; and a file through its stream, the disk and the lane.  *)
(* Of what is applied the order is the point: the tasks in the lane keep   *)
(* the order of the books' ready projects, so a project that still waits   *)
(* is in the cleanup context of every project that is applied before it,   *)
(* and what it needs is not cleaned up.                                    *)
(***************************************************************************)
EXTENDS SyncTransport, ListLemmas, FiniteSetTheorems

(* Before the run waits for its lease, and before it holds it. *)
Unleased == {"new", "reserve", "acquire"}

LeaseTyped ==
  /\ phase \in {"new", "reserve", "acquire", "insert", "connect", "attach", "exchange",
                "import", "serve", "finish", "discard", "release", "over"}
  /\ lease \in [baseline : Nat, guard : BOOLEAN, inTable : BOOLEAN]
  /\ held \in 0..1 /\ epoch \in Nat /\ overran \in BOOLEAN
  /\ exit \in {"no", "flagged", "drained", "power"}

(* The thread holds the lease itself until it is in the table, and it is   *)
(* there from then to the end of the run or the draining of the table; it  *)
(* is counted while it is in either place, unless the power state was      *)
(* cleared meanwhile.                                                      *)
LeaseInv ==
  /\ lease.guard <=> phase = "insert"
  /\ lease.inTable => /\ phase \notin Unleased \union {"insert", "over"}
                      /\ exit \in {"no", "flagged"}
  /\ held = 1 => lease.guard \/ lease.inTable
  /\ lease.guard \/ lease.inTable => held = 1 \/ exit = "power"

(* A timeout that hits the lease is later than the epoch that the run read *)
(* before it acquired it.                                                  *)
EpochInv ==
  /\ lease.baseline <= epoch
  /\ phase \in Unleased => ~overran
  /\ overran => lease.baseline < epoch

IInv == LeaseTyped /\ LeaseInv /\ EpochInv

-----------------------------------------------------------------------------
(* Steps that leave the lease alone.                                       *)

(* The phases in which the thread works, between its lease and its result. *)
Working == {"connect", "attach", "exchange", "import", "serve", "finish", "discard"}

(* The steps of the lease, of the exit and of the platform. *)
LeaseStep ==
  \/ Register \/ ReadEpoch \/ Acquire \/ Insert \/ Release
  \/ PlatformTimeout \/ Exit

(* Every other step leaves the lease as it is, and moves the thread at     *)
(* most from one working phase to the next, or on to its release.          *)
LEMMA OtherSteps ==
  ASSUME [Next]_vars
  PROVE  \/ LeaseStep
         \/ UNCHANGED <<phase, lease, held, epoch, overran, exit>>
         \/ /\ phase \in Working /\ phase' \in Working \union {"release"}
            /\ UNCHANGED <<lease, held, epoch, overran, exit>>
<1> DEFINE Goal == \/ LeaseStep
                   \/ UNCHANGED <<phase, lease, held, epoch, overran, exit>>
                   \/ /\ phase \in Working /\ phase' \in Working \union {"release"}
                      /\ UNCHANGED <<lease, held, epoch, overran, exit>>
<1> USE DEF runVars, powerVars
<1>a. \A x \in {"connect", "attach", "exchange", "import", "serve", "finish", "discard"} :
        x \in Working
  BY DEF Working
<1>1. ASSUME Connect PROVE Goal
  BY <1>1, <1>a DEF Connect, Failed, Ends
<1>2. ASSUME Attach PROVE Goal
  BY <1>2, <1>a DEF Attach
<1>3. ASSUME Exchange PROVE Goal
  BY <1>3, <1>a DEF Exchange, Failed, Ends
<1>4. ASSUME ImportDone PROVE Goal
  BY <1>4, <1>a DEF ImportDone
<1>5. ASSUME Serve PROVE Goal
  BY <1>5, <1>a DEF Serve, Failed, Ends
<1>6. ASSUME Finish PROVE Goal
  BY <1>6, <1>a DEF Finish, Ends
<1>7. ASSUME Importing \/ Beside PROVE Goal
  BY <1>7 DEF Importing, Beside
<1>8. ASSUME WatchTimeout \/ LifecycleEvent \/ Tell \/ AbortConnection \/ Disconnect PROVE Goal
  BY <1>8 DEF WatchTimeout, LifecycleEvent, Tell, AbortConnection, Disconnect
<1>9. ASSUME Over \/ UNCHANGED vars PROVE Goal
  BY <1>9 DEF Over, vars
<1>10. ASSUME LeaseStep PROVE Goal
  BY <1>10
<1> SUFFICES Goal
  OBVIOUS
<1> HIDE DEF Goal
<1> QED
  BY <1>1, <1>2, <1>3, <1>4, <1>5, <1>6, <1>7, <1>8, <1>9, <1>10 DEF Next, LeaseStep

-----------------------------------------------------------------------------
(* The invariant.                                                          *)

(* A decrement of the native count stays within its two values. *)
LEMMA MinusBelow ==
  ASSUME NEW n \in 0..1
  PROVE  Minus(n) = 0
BY DEF Minus

(* The fields of a lease that is given as a record. *)
LEMMA NewLease ==
  ASSUME NEW b \in Nat, NEW g \in BOOLEAN, NEW t \in BOOLEAN,
         lease' = [baseline |-> b, guard |-> g, inTable |-> t]
  PROVE  /\ lease' \in [baseline : Nat, guard : BOOLEAN, inTable : BOOLEAN]
         /\ lease'.baseline = b /\ lease'.guard = g /\ lease'.inTable = t
OBVIOUS

(* A step of the run that takes, moves or ends its lease keeps the invariant. *)
LEMMA LeaseStepKeeps ==
  ASSUME IInv, LeaseStep
  PROVE  IInv'
<1> USE DEF IInv, LeaseTyped, LeaseInv, EpochInv, Unleased
<1>a. /\ lease = [baseline |-> lease.baseline, guard |-> lease.guard, inTable |-> lease.inTable]
      /\ lease.baseline \in Nat /\ lease.guard \in BOOLEAN /\ lease.inTable \in BOOLEAN
  OBVIOUS
<1>1. CASE Register
  BY <1>1 DEF Register, Go, powerVars
<1>2. CASE ReadEpoch
  <2>1. lease' = [baseline |-> epoch, guard |-> lease.guard, inTable |-> lease.inTable]
    BY <1>2, <1>a DEF ReadEpoch
  <2> QED BY <1>2, <1>a, <2>1 DEF ReadEpoch, Go
<1>3. CASE Acquire
  <2>1. lease' = [baseline |-> lease.baseline, guard |-> TRUE, inTable |-> FALSE]
    BY <1>3, <1>a DEF Acquire, Go
  <2>2. held = 0 /\ held' = 1
    BY <1>3 DEF Acquire, Go
  <2>3. /\ phase = "acquire" /\ phase' = "insert" /\ UNCHANGED <<epoch, overran, exit>>
    BY <1>3 DEF Acquire, Go
  <2> QED BY <1>a, <2>1, <2>2, <2>3, NewLease
<1>4. CASE Insert
  <2>1. lease' = [baseline |-> lease.baseline, guard |-> FALSE, inTable |-> exit = "no"]
    BY <1>4, <1>a DEF Insert
  <2>2. held' = IF exit = "no" THEN held ELSE 0
    BY <1>4, MinusBelow DEF Insert
  <2>3. phase = "insert" /\ phase' = "connect" /\ UNCHANGED <<epoch, overran, exit>>
    BY <1>4 DEF Insert, Go
  <2>4. exit = "no" => held = 1
    BY <2>3
  <2> QED BY <1>a, <2>1, <2>2, <2>3, <2>4, NewLease
<1>5. CASE Release
  <2>1. lease' = [baseline |-> lease.baseline, guard |-> FALSE, inTable |-> FALSE]
    BY <1>5, <1>a DEF Release, Go
  <2>2. held' = 0
    BY <1>5, MinusBelow DEF Release, Go
  <2>3. phase = "release" /\ phase' = "over" /\ UNCHANGED <<epoch, overran, exit>>
    BY <1>5 DEF Release, Go
  <2> QED BY <1>a, <2>1, <2>2, <2>3, NewLease
<1>6. CASE PlatformTimeout
  BY <1>6 DEF PlatformTimeout, runVars
<1>7. CASE Exit
  <2>1. CASE exit = "no" /\ exit' = "flagged" /\ UNCHANGED <<lease, held>>
    BY <1>7, <2>1 DEF Exit, runVars
  <2>2. CASE /\ exit = "flagged" /\ exit' = "drained"
             /\ lease' = [lease EXCEPT !.inTable = FALSE]
             /\ held' = IF lease.inTable THEN Minus(held) ELSE held
    <3>1. lease' = [baseline |-> lease.baseline, guard |-> lease.guard, inTable |-> FALSE]
      BY <2>2, <1>a
    <3>2. held' = IF lease.inTable THEN 0 ELSE held
      BY <2>2, MinusBelow
    <3>3. UNCHANGED <<phase, epoch, overran>>
      BY <1>7 DEF Exit, runVars
    <3>4. held' \in 0..1 /\ (held' = 1 => lease.guard) /\ (lease.guard => held' = held)
      BY <3>2
    <3>5. /\ lease' \in [baseline : Nat, guard : BOOLEAN, inTable : BOOLEAN]
          /\ lease'.baseline = lease.baseline /\ lease'.guard = lease.guard /\ ~lease'.inTable
      BY <1>a, <3>1, NewLease
    <3> QED BY <2>2, <3>3, <3>4, <3>5
  <2>3. CASE exit = "drained" /\ exit' = "power" /\ held' = 0 /\ UNCHANGED lease
    BY <1>7, <2>3 DEF Exit, runVars
  <2> QED BY <1>7, <2>1, <2>2, <2>3 DEF Exit
<1> QED
  BY <1>1, <1>2, <1>3, <1>4, <1>5, <1>6, <1>7 DEF LeaseStep

(* The invariant holds at the start and after every step. *)
LEMMA Inductive == Spec => []IInv
<1>1. Init => IInv
  <2> SUFFICES ASSUME Init PROVE IInv
    OBVIOUS
  <2>1. /\ lease = [baseline |-> 0, guard |-> FALSE, inTable |-> FALSE]
        /\ phase = "new" /\ held = 0 /\ epoch = 0 /\ overran = FALSE /\ exit = "no"
    BY DEF Init
  <2>2. /\ lease \in [baseline : Nat, guard : BOOLEAN, inTable : BOOLEAN]
        /\ lease.baseline = 0 /\ ~lease.guard /\ ~lease.inTable
    BY <2>1
  <2>3. held \in 0..1 /\ epoch \in Nat
    BY <2>1
  <2>4. LeaseTyped
    BY <2>1, <2>2, <2>3, Zenon DEF LeaseTyped
  <2> QED BY <2>1, <2>2, <2>4 DEF IInv, LeaseInv, EpochInv, Unleased
<1>2. IInv /\ [Next]_vars => IInv'
  <2> SUFFICES ASSUME IInv, [Next]_vars
               PROVE  IInv'
    OBVIOUS
  <2>1. CASE LeaseStep
    BY <2>1, LeaseStepKeeps
  <2>2. CASE UNCHANGED <<phase, lease, held, epoch, overran, exit>>
    BY <2>2 DEF IInv, LeaseTyped, LeaseInv, EpochInv
  <2>3. CASE /\ phase \in Working /\ phase' \in Working \union {"release"}
             /\ UNCHANGED <<lease, held, epoch, overran, exit>>
    BY <2>3 DEF IInv, LeaseTyped, LeaseInv, EpochInv, Working, Unleased
  <2> QED BY <2>1, <2>2, <2>3, OtherSteps
<1> QED BY <1>1, <1>2, PTL DEF Spec

-----------------------------------------------------------------------------
(* The theorems.                                                           *)

(* The lease of a run is dropped with it, and the exit of the application  *)
(* ends every lease, also one acquired while the table was drained         *)
(* (ActiveTransferReservations of sync_transport.rs).                      *)
THEOREM LeaseEnds == Spec => []NoLeaseOutlives
<1>1. IInv => NoLeaseOutlives
  BY DEF IInv, LeaseTyped, LeaseInv, NoLeaseOutlives
<1> QED BY <1>1, Inductive, PTL

(* A timeout of the platform that hits the lease of a run is later than    *)
(* the epoch its watcher compares with (watch_timeout).                    *)
THEOREM WatcherSeesTimeout == Spec => []TimeoutNoticed
<1>1. IInv => TimeoutNoticed
  BY DEF IInv, LeaseTyped, EpochInv, TimeoutNoticed
<1> QED BY <1>1, Inductive, PTL

-----------------------------------------------------------------------------
(* Sums over finite sets, and the credit that fits a budget.               *)

(* What holds of a part of a finite set when it holds of all smaller parts, *)
(* holds of every part: by the least counterexample, for the prover cannot  *)
(* instantiate a rule of induction.                                         *)
LEMMA FiniteInduction ==
  ASSUME NEW S, IsFiniteSet(S), NEW Good,
         \A T \in SUBSET S : (\A U \in SUBSET T : U # T => U \in Good) => T \in Good
  PROVE  \A T \in SUBSET S : T \in Good
<1> DEFINE Bad == (SUBSET S) \ Good
<1>1. IsWellFoundedOn(StrictSubsetOrdering(S), SUBSET S)
  BY FS_StrictSubsetOrderingWellFounded, FS_FiniteSubsetsOfFinite
<1>2. SUFFICES ASSUME Bad # {} PROVE FALSE
  OBVIOUS
<1>3. PICK T \in Bad : \A U \in Bad : <<U, T>> \notin StrictSubsetOrdering(S)
  <2>1. Bad \subseteq SUBSET S
    OBVIOUS
  <2> HIDE DEF Bad
  <2> QED BY <1>1, <1>2, <2>1, WFMin
<1>4. ASSUME NEW U \in SUBSET T, U # T PROVE U \in Good
  BY <1>3, <1>4 DEF StrictSubsetOrdering
<1> QED BY <1>3, <1>4

(* A choice of an element of every part of a set, and a recursion that      *)
(* follows it.                                                              *)
Picks(pick, S) == /\ pick \in [(SUBSET S) \ {{}} -> S]
                  /\ \A s \in (SUBSET S) \ {{}} : pick[s] \in s

Follows(g, S, base, pick, grow) ==
  \A s \in SUBSET S : g[s] = IF s = {} THEN base ELSE grow[<<pick[s], g[s \ {pick[s]}]>>]

(* A recursion over the parts of a finite set, an element at a time, is a   *)
(* function.                                                                *)
LEMMA SetRecursion ==
  ASSUME NEW S, IsFiniteSet(S), NEW V, NEW base \in V, NEW pick, Picks(pick, S),
         NEW grow \in [S \X V -> V]
  PROVE  \E g \in [SUBSET S -> V] : Follows(g, S, base, pick, grow)
<1> USE DEF Picks
<1> DEFINE Sol(g, s) == /\ g \in [SUBSET s -> V]
                        /\ \A t \in SUBSET s :
                             g[t] = IF t = {} THEN base
                                    ELSE grow[<<pick[t], g[t \ {pick[t]}]>>]
           Same(t) == \A s1, s2 \in SUBSET S : t \subseteq s1 /\ t \subseteq s2 =>
                        \A g, h : Sol(g, s1) /\ Sol(h, s2) => g[t] = h[t]
           Agree == {t \in SUBSET S : Same(t)}
<1>1. \A t \in SUBSET S : t \in Agree
  <2>1. ASSUME NEW t \in SUBSET S, \A u \in SUBSET t : u # t => u \in Agree
        PROVE  Same(t)
    <3>1. ASSUME NEW s1 \in SUBSET S, NEW s2 \in SUBSET S, t \subseteq s1, t \subseteq s2,
                 NEW g, NEW h, Sol(g, s1), Sol(h, s2)
          PROVE  g[t] = h[t]
      <4>1. CASE t = {}
        BY <3>1, <4>1
      <4>2. CASE t # {}
        <5> DEFINE u == t \ {pick[t]}
        <5>1. u \in SUBSET t /\ u # t /\ u \subseteq s1 /\ u \subseteq s2 /\ u \in SUBSET S
          BY <3>1, <4>2
        <5>2. Same(u)
          BY <2>1, <5>1, Zenon
        <5>3. g[u] = h[u]
          <6> HIDE DEF Sol, u
          <6> QED BY <3>1, <5>1, <5>2
        <5>4. g[t] = grow[<<pick[t], g[u]>>] /\ h[t] = grow[<<pick[t], h[u]>>]
          BY <3>1, <4>2
        <5> QED BY <5>3, <5>4
      <4> QED BY <4>1, <4>2
    <3> HIDE DEF Sol
    <3> QED BY <3>1, Zenon
  <2>2. \A t \in SUBSET S : (\A u \in SUBSET t : u # t => u \in Agree) => t \in Agree
    <3> HIDE DEF Same
    <3> QED BY <2>1
  <2> HIDE DEF Agree
  <2> QED BY <2>2, FiniteInduction
<1> DEFINE Solved == {s \in SUBSET S : \E g \in [SUBSET s -> V] : Sol(g, s)}
<1>2. \A s \in SUBSET S : s \in Solved
  <2>1. ASSUME NEW s \in SUBSET S, \A t \in SUBSET s : t # s => t \in Solved
        PROVE  s \in Solved
    <3>1. PICK ch : ch = [t \in SUBSET s |-> CHOOSE g \in [SUBSET t -> V] : Sol(g, t)]
      OBVIOUS
    <3>2. \A t \in SUBSET s : t # s => ch[t] \in [SUBSET t -> V] /\ Sol(ch[t], t)
      BY <2>1, <3>1
    <3>3. PICK part : part = [t \in SUBSET s |-> ch[t][t]]
      OBVIOUS
    <3>4. PICK g : g = [t \in SUBSET s |-> IF t = {} THEN base
                           ELSE grow[<<pick[t], part[t \ {pick[t]}]>>]]
      OBVIOUS
    <3>5. ASSUME NEW t \in SUBSET s, t # s PROVE part[t] \in V
      <4>1. ch[t] \in [SUBSET t -> V] /\ t \in SUBSET t
        BY <3>2, <3>5
      <4>2. ch[t][t] \in V
        BY <4>1, Zenon
      <4> QED BY <3>3, <4>2
    <3>6. \A t \in SUBSET s : t # {} => t \ {pick[t]} \in SUBSET s /\ t \ {pick[t]} # s
      OBVIOUS
    <3>7. g \in [SUBSET s -> V]
      BY <3>4, <3>5, <3>6
    <3>8. ASSUME NEW t \in SUBSET s, t # s PROVE g[t] = part[t]
      <4>1. CASE t = {}
        BY <3>2, <3>3, <3>4, <3>8, <4>1
      <4>2. CASE t # {}
        <5> DEFINE u == t \ {pick[t]}
        <5>1. u \in SUBSET t /\ u # s /\ u \in SUBSET s /\ u \in SUBSET S /\ t \in SUBSET S
          BY <3>6, <4>2, <3>8
        <5>2. Sol(ch[t], t) /\ Sol(ch[u], u)
          BY <3>2, <3>8, <5>1
        <5>3. ch[t][u] = ch[u][u]
          <6>1. Same(u)
            BY <1>1, <5>1, Zenon
          <6> HIDE DEF Sol, u
          <6> QED BY <5>1, <5>2, <6>1
        <5>4. ch[t][t] = grow[<<pick[t], ch[t][u]>>]
          BY <5>2, <4>2
        <5> QED BY <3>3, <3>4, <4>2, <5>1, <5>3, <5>4
      <4> QED BY <4>1, <4>2
    <3>9. Sol(g, s)
      <4>1. ASSUME NEW t \in SUBSET s
            PROVE  g[t] = IF t = {} THEN base ELSE grow[<<pick[t], g[t \ {pick[t]}]>>]
        BY <3>4, <3>6, <3>8
      <4> QED BY <3>7, <4>1
    <3> HIDE DEF Sol
    <3> QED BY <3>7, <3>9
  <2> HIDE DEF Solved
  <2> QED BY <2>1, FiniteInduction
<1>3. PICK g \in [SUBSET S -> V] : Sol(g, S)
  BY <1>2
<1>4. Follows(g, S, base, pick, grow)
  BY <1>3 DEF Follows
<1> QED BY <1>4

(* The sums of the parts of a set, an element at a time. *)
Sums(w, S, g) ==
  /\ g \in [SUBSET S -> Nat]
  /\ \A s \in SUBSET S : g[s] = IF s = {} THEN 0
                                ELSE w[CHOOSE x \in s : TRUE] + g[s \ {CHOOSE x \in s : TRUE}]

(* The weight of a set of files is such a recursion. *)
LEMMA WeightIs ==
  ASSUME NEW S, IsFiniteSet(S), NEW w \in [S -> Nat], NEW T \in SUBSET S
  PROVE  \E g : Sums(w, T, g) /\ Weight(w, T) = g[T]
<1> DEFINE Eq(g) == g = [s \in SUBSET T |-> IF s = {} THEN 0
                                 ELSE w[CHOOSE x \in s : TRUE] + g[s \ {CHOOSE x \in s : TRUE}]]
<1>0. IsFiniteSet(T) /\ 0 \in Nat
  BY FS_Subset
<1>1. PICK pick : pick = [s \in (SUBSET T) \ {{}} |-> CHOOSE x \in s : TRUE]
  OBVIOUS
<1>2. PICK grow : grow = [p \in T \X Nat |-> w[p[1]] + p[2]]
  OBVIOUS
<1>a. pick \in [(SUBSET T) \ {{}} -> T] /\ \A s \in (SUBSET T) \ {{}} : pick[s] \in s
  <2>1. \A s \in (SUBSET T) \ {{}} : (CHOOSE x \in s : TRUE) \in s
    OBVIOUS
  <2> QED BY <1>1, <2>1
<1>b. grow \in [T \X Nat -> Nat]
  BY <1>2
<1>c. \A x \in T, n \in Nat : grow[<<x, n>>] = w[x] + n
  BY <1>2
<1>3. PICK g \in [SUBSET T -> Nat] :
          \A s \in SUBSET T : g[s] = IF s = {} THEN 0
                                      ELSE grow[<<pick[s], g[s \ {pick[s]}]>>]
  <2>1. Picks(pick, T)
    BY <1>a DEF Picks
  <2>2. PICK g \in [SUBSET T -> Nat] : Follows(g, T, 0, pick, grow)
    BY <1>0, <1>b, <2>1, SetRecursion
  <2> QED BY <2>2 DEF Follows
<1>4. ASSUME NEW s \in SUBSET T
      PROVE  g[s] = IF s = {} THEN 0 ELSE w[CHOOSE x \in s : TRUE] + g[s \ {CHOOSE x \in s : TRUE}]
  <2>1. CASE s = {}
    BY <1>3, <2>1
  <2>2. CASE s # {}
    <3>1. pick[s] = (CHOOSE x \in s : TRUE) /\ pick[s] \in T
      BY <2>2, <1>1, <1>a
    <3>2. g[s \ {pick[s]}] \in Nat
      BY <1>3
    <3>3. g[s] = grow[<<pick[s], g[s \ {pick[s]}]>>]
      BY <1>3, <2>2
    <3>4. grow[<<pick[s], g[s \ {pick[s]}]>>] = w[pick[s]] + g[s \ {pick[s]}]
      BY <3>1, <3>2, <1>c
    <3> QED BY <2>2, <3>1, <3>3, <3>4
  <2> QED BY <2>1, <2>2
<1>5. Eq(g)
  BY <1>3, <1>4
<1>6. PICK h : h = (CHOOSE iter : Eq(iter))
  OBVIOUS
<1>7. Weight(w, T) = h[T]
  BY <1>6 DEF Weight, MapThenSumSet, MapThenFoldSet
<1>8. Eq(h)
  <2> HIDE DEF Eq
  <2> QED BY <1>5, <1>6
<1>9. Sums(w, T, h)
  <2> DEFINE Good == {s \in SUBSET T : h[s] \in Nat}
  <2>1. ASSUME NEW s \in SUBSET T, \A u \in SUBSET s : u # s => u \in Good PROVE s \in Good
    <3>1. CASE s = {}
      BY <1>8, <3>1
    <3>2. CASE s # {}
      <4> DEFINE c == CHOOSE x \in s : TRUE
      <4>1. c \in s
        BY <3>2
      <4>2. s \ {c} \in Good
        BY <2>1, <4>1
      <4>3. h[s] = w[c] + h[s \ {c}]
        BY <1>8, <3>2
      <4>4. w[c] \in Nat /\ h[s \ {c}] \in Nat
        <5> HIDE DEF c
        <5> QED BY <4>1, <4>2
      <4> HIDE DEF c
      <4> QED BY <4>3, <4>4
    <3> QED BY <3>1, <3>2
  <2>2. \A s \in SUBSET T : s \in Good
    <3> HIDE DEF Good
    <3> QED BY <1>0, <2>1, FiniteInduction
  <2>3. h \in [SUBSET T -> Nat]
    BY <1>8, <2>2
  <2>4. \A s \in SUBSET T : h[s] = IF s = {} THEN 0
                                ELSE w[CHOOSE x \in s : TRUE] + h[s \ {CHOOSE x \in s : TRUE}]
    BY <1>8
  <2> QED BY <2>3, <2>4 DEF Sums
<1> QED BY <1>7, <1>9

(* Two such recursions agree where both are defined. *)
LEMMA SumsAgree ==
  ASSUME NEW S, IsFiniteSet(S), NEW w \in [S -> Nat], NEW T \in SUBSET S, NEW U \in SUBSET S,
         NEW g, Sums(w, T, g), NEW h, Sums(w, U, h), NEW s \in SUBSET T, s \in SUBSET U
  PROVE  g[s] = h[s]
<1> DEFINE Good == {t \in SUBSET s : g[t] = h[t]}
<1>1. ASSUME NEW t \in SUBSET s, \A u \in SUBSET t : u # t => u \in Good PROVE t \in Good
  <2>1. t \in SUBSET T /\ t \in SUBSET U
    OBVIOUS
  <2>2. CASE t = {}
    BY <2>1, <2>2 DEF Sums
  <2>3. CASE t # {}
    <3> DEFINE c == CHOOSE x \in t : TRUE
    <3>1. c \in t
      BY <2>3
    <3>2. t \ {c} \in Good
      BY <1>1, <3>1
    <3>3. g[t] = w[c] + g[t \ {c}] /\ h[t] = w[c] + h[t \ {c}]
      BY <2>1, <2>3 DEF Sums
    <3> HIDE DEF c
    <3> QED BY <3>2, <3>3
  <2> QED BY <2>2, <2>3
<1>2. IsFiniteSet(s)
  BY FS_Subset
<1>3. \A t \in SUBSET s : t \in Good
  <2> HIDE DEF Good
  <2> QED BY <1>1, <1>2, FiniteInduction
<1> QED BY <1>3

(* A weight is a number, that of no file is none, and a file adds its own. *)
LEMMA WeightOfOne ==
  ASSUME NEW S, IsFiniteSet(S), NEW w \in [S -> Nat]
  PROVE  /\ Weight(w, {}) = 0
         /\ \A T \in SUBSET S : Weight(w, T) \in Nat
         /\ \A T \in SUBSET S : \A x \in T : Weight(w, T) = w[x] + Weight(w, T \ {x})
<1>1. Weight(w, {}) = 0
  <2>1. {} \in SUBSET S
    OBVIOUS
  <2>2. PICK g : Sums(w, {}, g) /\ Weight(w, {}) = g[{}]
    BY <2>1, WeightIs
  <2>3. {} \in SUBSET {}
    OBVIOUS
  <2> QED BY <2>2, <2>3 DEF Sums
<1>2. \A T \in SUBSET S : Weight(w, T) \in Nat
  <2> SUFFICES ASSUME NEW T \in SUBSET S PROVE Weight(w, T) \in Nat
    OBVIOUS
  <2>1. PICK g : Sums(w, T, g) /\ Weight(w, T) = g[T]
    BY WeightIs
  <2> QED BY <2>1 DEF Sums
<1>3. ASSUME NEW T \in SUBSET S, T # {}
      PROVE  \E c \in T : Weight(w, T) = w[c] + Weight(w, T \ {c})
  <2>1. PICK g : Sums(w, T, g) /\ Weight(w, T) = g[T]
    BY WeightIs
  <2>2. PICK c : c = CHOOSE x \in T : TRUE
    OBVIOUS
  <2>3. c \in T
    BY <1>3, <2>2
  <2>4. T \ {c} \in SUBSET S
    OBVIOUS
  <2>5. PICK h : Sums(w, T \ {c}, h) /\ Weight(w, T \ {c}) = h[T \ {c}]
    BY <2>4, WeightIs
  <2>6. g[T \ {c}] = h[T \ {c}]
    BY <2>1, <2>4, <2>5, SumsAgree
  <2>7. g[T] = w[c] + g[T \ {c}]
    BY <1>3, <2>1, <2>2 DEF Sums
  <2> QED BY <2>1, <2>3, <2>5, <2>6, <2>7
<1> DEFINE Good == {T \in SUBSET S : \A x \in T : Weight(w, T) = w[x] + Weight(w, T \ {x})}
<1>4. ASSUME NEW T \in SUBSET S, \A U \in SUBSET T : U # T => U \in Good PROVE T \in Good
  <2> SUFFICES ASSUME NEW x \in T PROVE Weight(w, T) = w[x] + Weight(w, T \ {x})
    OBVIOUS
  <2>1. PICK c \in T : Weight(w, T) = w[c] + Weight(w, T \ {c})
    BY <1>3
  <2>2. CASE c = x
    BY <2>1, <2>2
  <2>3. CASE c # x
    <3>1. T \ {c} \in Good /\ T \ {x} \in Good
      BY <1>4
    <3>2. /\ Weight(w, T \ {c}) = w[x] + Weight(w, (T \ {c}) \ {x})
          /\ Weight(w, T \ {x}) = w[c] + Weight(w, (T \ {x}) \ {c})
      BY <2>3, <3>1
    <3>3. (T \ {c}) \ {x} = (T \ {x}) \ {c} /\ (T \ {x}) \ {c} \in SUBSET S
      OBVIOUS
    <3>4. Weight(w, (T \ {x}) \ {c}) \in Nat /\ w[x] \in Nat /\ w[c] \in Nat
      BY <1>2, <3>3
    <3> QED BY <2>1, <3>2, <3>3, <3>4
  <2> QED BY <2>2, <2>3
<1>5. \A T \in SUBSET S : T \in Good
  <2> HIDE DEF Good
  <2> QED BY <1>4, FiniteInduction
<1> QED BY <1>1, <1>2, <1>5

(* Fewer files weigh no more, and the weight of a union is at most the sum. *)
LEMMA WeightBounds ==
  ASSUME NEW S, IsFiniteSet(S), NEW w \in [S -> Nat], NEW A \in SUBSET S, NEW B \in SUBSET S
  PROVE  /\ Weight(w, {}) = 0 /\ Weight(w, A) \in Nat
         /\ A \subseteq B => Weight(w, A) <= Weight(w, B)
         /\ Weight(w, A \union B) <= Weight(w, A) + Weight(w, B)
<1>1. /\ Weight(w, {}) = 0
      /\ \A T \in SUBSET S : Weight(w, T) \in Nat
      /\ \A T \in SUBSET S : \A x \in T : Weight(w, T) = w[x] + Weight(w, T \ {x})
  BY WeightOfOne
<1>2. \A x \in S : w[x] \in Nat
  OBVIOUS
<1> HIDE DEF Weight
<1> DEFINE Larger == {T \in SUBSET S : A \subseteq T => Weight(w, A) <= Weight(w, T)}
<1>3. ASSUME NEW T \in SUBSET S, \A U \in SUBSET T : U # T => U \in Larger PROVE T \in Larger
  <2> SUFFICES ASSUME A \subseteq T, A # T PROVE Weight(w, A) <= Weight(w, T)
    BY <1>1
  <2>1. PICK x \in T : x \notin A
    OBVIOUS
  <2>2. Weight(w, A) <= Weight(w, T \ {x})
    <3>1. T \ {x} \in Larger /\ A \subseteq T \ {x}
      BY <1>3, <2>1
    <3> QED BY <3>1
  <2>3. Weight(w, T) = w[x] + Weight(w, T \ {x}) /\ T \ {x} \in SUBSET S
    BY <1>1
  <2> QED BY <1>1, <1>2, <2>2, <2>3
<1>4. \A T \in SUBSET S : T \in Larger
  <2> HIDE DEF Larger
  <2> QED BY <1>3, FiniteInduction
<1> DEFINE Under == {T \in SUBSET S : Weight(w, A \union T) <= Weight(w, A) + Weight(w, T)}
<1>5. ASSUME NEW T \in SUBSET S, \A U \in SUBSET T : U # T => U \in Under PROVE T \in Under
  <2>1. CASE T = {}
    <3>1. A \union T = A
      BY <2>1
    <3> QED BY <1>1, <2>1, <3>1
  <2>2. ASSUME NEW x \in T PROVE T \in Under
    <3>1. T \ {x} \in Under /\ T \ {x} \in SUBSET S
      BY <1>5
    <3>2. Weight(w, A \union (T \ {x})) <= Weight(w, A) + Weight(w, T \ {x})
      BY <3>1
    <3>3. Weight(w, T) = w[x] + Weight(w, T \ {x})
      BY <1>1
    <3>4. /\ Weight(w, A) \in Nat /\ Weight(w, T \ {x}) \in Nat /\ w[x] \in Nat
          /\ Weight(w, A \union (T \ {x})) \in Nat
      BY <1>1, <3>1
    <3>5. CASE x \in A
      <4>1. A \union T = A \union (T \ {x})
        BY <3>5
      <4>2. Weight(w, A \union T) = Weight(w, A \union (T \ {x}))
        BY <4>1
      <4>3. Weight(w, A \union T) <= Weight(w, A) + Weight(w, T)
        BY <3>2, <3>3, <3>4, <4>2
      <4> QED BY <4>3
    <3>6. CASE x \notin A
      <4>1. (A \union T) \ {x} = A \union (T \ {x}) /\ x \in A \union T /\ A \union T \in SUBSET S
        BY <3>6
      <4>2. Weight(w, A \union T) = w[x] + Weight(w, A \union (T \ {x}))
        BY <1>1, <4>1
      <4> QED BY <3>2, <3>3, <3>4, <4>2
    <3> QED BY <3>5, <3>6
  <2> QED BY <2>1, <2>2
<1>6. \A T \in SUBSET S : T \in Under
  <2> HIDE DEF Under
  <2> QED BY <1>5, FiniteInduction
<1> QED BY <1>1, <1>4, <1>6

(* A finite set of numbers that is not empty has a largest one. *)
LEMMA MaxIsIn ==
  ASSUME NEW S \in SUBSET Nat, IsFiniteSet(S), S # {}
  PROVE  Max(S) \in S
<1> DEFINE Good == {T \in SUBSET S : T # {} => \E x \in T : \A y \in T : x >= y}
<1>1. ASSUME NEW T \in SUBSET S, \A U \in SUBSET T : U # T => U \in Good PROVE T \in Good
  <2> SUFFICES ASSUME NEW z \in T PROVE \E x \in T : \A y \in T : x >= y
    OBVIOUS
  <2>1. T \ {z} \in Good
    BY <1>1
  <2>2. CASE T \ {z} = {}
    <3>1. \A y \in T : y = z /\ z \in Nat
      BY <2>2
    <3> QED BY <3>1
  <2>3. CASE T \ {z} # {}
    <3>1. PICK x \in T \ {z} : \A y \in T \ {z} : x >= y
      BY <2>1, <2>3
    <3>2. x \in Nat /\ z \in Nat /\ \A y \in T : y \in Nat /\ (y = z \/ y \in T \ {z})
      OBVIOUS
    <3>3. CASE x >= z
      <4>1. \A y \in T : x >= y
        BY <3>1, <3>2, <3>3
      <4> QED BY <4>1
    <3>4. CASE ~(x >= z)
      <4>1. \A y \in T : z >= y
        BY <3>1, <3>2, <3>4
      <4> QED BY <4>1
    <3> QED BY <3>3, <3>4
  <2> QED BY <2>2, <2>3
<1>2. S \in Good
  <2> HIDE DEF Good
  <2> QED BY <1>1, FiniteInduction
<1> QED BY <1>2 DEF Max

(* The artifacts are those of the requests. *)
LEMMA FilesAreFinite == IsFiniteSet(Files)
<1>1. Requests \in Seq(Files)
  BY RequestsAreOfProjects DEF RequestsAreOfProjects
<1>2. Len(Requests) \in Nat /\ DOMAIN Requests = 1..Len(Requests)
  BY <1>1
<1>3. IsFiniteSet(1..Len(Requests))
  BY <1>2, FS_Interval
<1>4. Requests \in Surjection(1..Len(Requests), Files)
  <2>1. Requests \in [1..Len(Requests) -> Files]
    BY <1>1
  <2>2. \A f \in Files : \E i \in 1..Len(Requests) : Requests[i] = f
    BY <1>2 DEF Files, Range
  <2> QED BY <2>1, <2>2 DEF Surjection
<1> QED BY <1>3, <1>4, FS_Surjection

(* Credit is granted for the first artifacts of the queue, and only as far *)
(* as they fit the budget beside what is active and what is to be staged.  *)
LEMMA GrantFits ==
  ASSUME size \in [Files -> Nat], NEW q \in Seq(Files), NEW active \in SUBSET Files,
         NEW staging \in SUBSET Files,
         Bytes(active \union staging) <= ByteBudget
  PROVE  LET g == Grantable(q, active, staging)
         IN /\ g.give \in SUBSET Files /\ g.rest \in Seq(Files) /\ g.fails \in BOOLEAN
            /\ Bytes((active \union g.give) \union staging) <= ByteBudget
<1> DEFINE fits(n) == /\ Cardinality(active) + n <= StreamCap
                      /\ Bytes(active) + Bytes(staging) + Bytes(Range(SubSeq(q, 1, n)))
                           <= ByteBudget
           S == {k \in 0..Len(q) : fits(k)} \union {0}
           give == Range(SubSeq(q, 1, Max(S)))
           rest == SubSeq(q, Max(S) + 1, Len(q))
           g == Grantable(q, active, staging)
<1>1. /\ g.give = give /\ g.rest = rest
      /\ g.fails = (active = {} /\ q # <<>> /\ size[Head(q)] > ByteBudget)
  BY DEF Grantable
<1>2. Max(S) \in S
  <2>1. S \in SUBSET Nat /\ S # {} /\ Len(q) \in Nat /\ S \subseteq 0..Len(q)
    OBVIOUS
  <2>2. IsFiniteSet(S)
    <3>1. IsFiniteSet(0..Len(q))
      BY <2>1, FS_Interval
    <3> HIDE DEF S
    <3> QED BY <2>1, <3>1, FS_Subset
  <2> HIDE DEF S
  <2> QED BY <2>1, <2>2, MaxIsIn
<1>3. PICK n : n = Max(S)
  OBVIOUS
<1>4. n \in 0..Len(q) /\ (fits(n) \/ n = 0)
  BY <1>2, <1>3
<1>5. give = Range(SubSeq(q, 1, n)) /\ rest = SubSeq(q, n + 1, Len(q))
  BY <1>3
<1> HIDE DEF S
<1>6. give \in SUBSET Files /\ rest \in Seq(Files)
  <2>1. /\ rest \in Seq(Files) /\ SubSeq(q, 1, n) \in Seq(Files)
    BY <1>4, <1>5, SplitList
  <2> QED BY <1>5, <2>1, RangeOfSeq
<1>7. IsFiniteSet(Files)
  BY FilesAreFinite
<1>8. Bytes((active \union give) \union staging) <= ByteBudget
  <2>1. CASE n = 0
    <3>1. SubSeq(q, 1, n) = <<>>
      BY <2>1, SubSeqEmpty
    <3>2. give = {}
      BY <1>5, <3>1, EmptyList
    <3>3. (active \union give) \union staging = active \union staging
      BY <3>2
    <3> QED BY <3>3
  <2>2. CASE fits(n)
    <3>1. Bytes(active) + Bytes(staging) + Bytes(give) <= ByteBudget
      BY <1>5, <2>2
    <3> HIDE DEF give, fits
    <3>2. /\ Weight(size, active \union give) <= Weight(size, active) + Weight(size, give)
          /\ Weight(size, active) \in Nat /\ Weight(size, give) \in Nat
          /\ Weight(size, staging) \in Nat
      BY <1>6, <1>7, WeightBounds
    <3>3. /\ active \union give \in SUBSET Files
          /\ (active \union give) \union staging \in SUBSET Files
      BY <1>6
    <3>4. /\ Weight(size, (active \union give) \union staging)
               <= Weight(size, active \union give) + Weight(size, staging)
          /\ Weight(size, active \union give) \in Nat
          /\ Weight(size, (active \union give) \union staging) \in Nat
      BY <1>7, <3>3, WeightBounds
    <3>5. ByteBudget \in Nat
      BY BoundsAreNatural DEF BoundsAreNatural
    <3> HIDE DEF Weight
    <3> QED BY <3>1, <3>2, <3>4, <3>5 DEF Bytes
  <2> QED BY <1>4, <2>1, <2>2
<1> HIDE DEF give, rest
<1> QED BY <1>1, <1>6, <1>8

-----------------------------------------------------------------------------
(* The books of the session.                                               *)

(* The steps before the batch and those after it. *)
Early == {"plan", "discover", "request"}
Late  == {"enqueue", "after"}

(* The projects that have no result yet. *)
Open  == {p \in All : results[p] = 0}

(* Nothing is doubled in the books of the session, and no project is lost. *)
BookIs(b) ==
  /\ IsInjective(b.left) /\ IsInjective(b.ready) /\ IsInjective(b.tombs)
  /\ Range(b.ready) \subseteq Range(Projects) /\ Range(b.tombs) \subseteq Range(Tombstones)
  /\ Range(b.left) \intersect (Range(b.ready) \union Range(b.tombs)) = {}
  /\ Range(b.left) \union Range(b.ready) \union Range(b.tombs) \subseteq Open
  /\ b.done \intersect b.awaited = {}

NoneLost(b) ==
  \A p \in Open \intersect Range(Projects) :
    \/ p \in Range(b.left) \union Range(b.ready)
    \/ p \notin b.spoiled /\ Needs(p) \intersect b.awaited # {}

(* What the books have ready to apply. *)
Offered(b) == Range(b.ready) \union Range(b.tombs)

(* What a project needs is staged, awaited, or known to be lost. *)
StagedFor(p, b) == p \notin b.spoiled => \A f \in Needs(p) \ b.awaited : staged[Content[f]] # {}

(* A step of the books that loses nothing, and one that keeps what is       *)
(* staged.                                                                  *)
BookKept(b, c) ==
  /\ c \in Books /\ c.left = b.left /\ c.tombs = b.tombs
  /\ b.done \subseteq c.done /\ c.awaited \subseteq b.awaited
  /\ BookIs(b) => BookIs(c)
  /\ NoneLost(b) => NoneLost(c)

FetchKept(b, c) == \A p \in Range(Projects) : StagedFor(p, b) => StagedFor(p, c)

(* What the assumptions say of the offers and the requests. *)
LEMMA Offers ==
  /\ Projects \in Seq(All) /\ Tombstones \in Seq(All)
  /\ IsInjective(Projects) /\ IsInjective(Tombstones)
  /\ Range(Projects) \intersect Range(Tombstones) = {}
  /\ Range(Projects) \subseteq All /\ Range(Tombstones) \subseteq All
  /\ Requests \in Seq(Files) /\ Owner \in [Files -> Range(Projects)]
BY OffersAreDistinct, RequestsAreOfProjects DEF OffersAreDistinct, RequestsAreOfProjects, All

(* What becomes ready is added to the books, each project once. *)
LEMMA WithReadyIs ==
  ASSUME NEW b \in Books
  PROVE  LET c == WithReady(b)
         IN /\ c \in Books
            /\ c.left = b.left /\ c.awaited = b.awaited /\ c.spoiled = b.spoiled
            /\ c.done = b.done /\ c.tombs = b.tombs
            /\ Range(c.ready) = Range(b.ready) \union Ready(b)
            /\ IsInjective(b.ready) => IsInjective(c.ready)
<1> DEFINE k == Keep(Projects, Ready(b))
           c == WithReady(b)
<1>1. /\ k \in Seq(All) /\ Range(k) = Range(Projects) \intersect Ready(b) /\ IsInjective(k)
  BY Offers, KeepIs
<1>2. Ready(b) \subseteq Range(Projects) /\ Ready(b) \intersect Range(b.ready) = {}
  BY DEF Ready
<1>3. b.ready \in Seq(All)
  BY DEF Books
<1>4. /\ b.ready \o k \in Seq(All) /\ Range(b.ready \o k) = Range(b.ready) \union Ready(b)
      /\ IsInjective(b.ready) => IsInjective(b.ready \o k)
  <2> HIDE DEF k
  <2> QED BY <1>1, <1>2, <1>3, ConcatList
<1>5. c = [b EXCEPT !.ready = b.ready \o k]
  BY DEF WithReady
<1> HIDE DEF k, c
<1>6. /\ c \in Books /\ c.ready = b.ready \o k
      /\ c.left = b.left /\ c.awaited = b.awaited /\ c.spoiled = b.spoiled
      /\ c.done = b.done /\ c.tombs = b.tombs
  BY <1>4, <1>5 DEF Books
<1> QED BY <1>4, <1>6 DEF c

(* What is ready by then has not been lost, and is ready once. *)
LEMMA WithReadyKeeps ==
  ASSUME NEW b \in Books
  PROVE  /\ BookIs(b) => BookIs(WithReady(b))
         /\ NoneLost(WithReady(b))
         /\ \A p : StagedFor(p, b) => StagedFor(p, WithReady(b))
<1> DEFINE c == WithReady(b)
<1>1. /\ c \in Books
      /\ c.left = b.left /\ c.awaited = b.awaited /\ c.spoiled = b.spoiled
      /\ c.done = b.done /\ c.tombs = b.tombs
      /\ Range(c.ready) = Range(b.ready) \union Ready(b)
      /\ IsInjective(b.ready) => IsInjective(c.ready)
  BY WithReadyIs
<1> HIDE DEF c
<1>2. \A p \in Ready(b) : /\ p \in Range(Projects) /\ p \notin Range(b.left)
                          /\ p \in Open
  BY Offers DEF Ready, Open
<1>3. ASSUME BookIs(b) PROVE BookIs(c)
  BY <1>1, <1>2, <1>3 DEF BookIs
<1>4. \A p \in Range(Projects) : p \in Open =>
         \/ p \in Range(c.left) \union Range(c.ready)
         \/ p \notin c.spoiled /\ Needs(p) \intersect c.awaited # {}
  BY <1>1 DEF Ready, Open
<1>5. NoneLost(c)
  BY <1>4 DEF NoneLost
<1>6. ASSUME NEW p, StagedFor(p, b) PROVE StagedFor(p, c)
  BY <1>1, <1>6 DEF StagedFor
<1> QED BY <1>3, <1>5, <1>6 DEF c

(* What is said of one artifact loses nothing from the books. *)
LEMMA RecordedIs ==
  ASSUME NEW b \in Books, NEW f \in Files, NEW ok \in BOOLEAN
  PROVE  /\ BookKept(b, Recorded(b, f, ok))
         /\ BookIs(b) => f \notin Recorded(b, f, ok).awaited
         /\ (ok => staged[Content[f]] # {}) => FetchKept(b, Recorded(b, f, ok))
<1>1. CASE f \in b.done
  <2>1. Recorded(b, f, ok) = b
    BY <1>1 DEF Recorded
  <2> QED BY <1>1, <2>1 DEF BookKept, FetchKept, BookIs
<1>2. CASE f \notin b.done
  <2> DEFINE a == [b EXCEPT !.done = @ \union {f}, !.awaited = @ \ {f},
                            !.spoiled = IF ok THEN @ ELSE @ \union {Owner[f]}]
             c == WithReady(a)
  <2>1. Recorded(b, f, ok) = c
    BY <1>2 DEF Recorded
  <2>2. Owner[f] \in All
    BY Offers
  <2>3. /\ a \in Books /\ a.left = b.left /\ a.ready = b.ready /\ a.tombs = b.tombs
        /\ a.done = b.done \union {f} /\ a.awaited = b.awaited \ {f}
        /\ a.spoiled = IF ok THEN b.spoiled ELSE b.spoiled \union {Owner[f]}
    BY <2>2 DEF Books
  <2> HIDE DEF a
  <2>4. /\ c \in Books /\ c.left = b.left /\ c.tombs = b.tombs
        /\ c.done = b.done \union {f} /\ c.awaited = b.awaited \ {f}
    BY <2>3, WithReadyIs
  <2>5. /\ BookIs(a) => BookIs(c)
        /\ NoneLost(c)
        /\ \A p : StagedFor(p, a) => StagedFor(p, c)
    BY <2>3, WithReadyKeeps
  <2>6. BookIs(b) => BookIs(a)
    BY <2>3 DEF BookIs
  <2>7. NoneLost(b) => NoneLost(c)
    BY <2>5
  <2>8. ASSUME ok => staged[Content[f]] # {}, NEW p \in Range(Projects), StagedFor(p, b)
        PROVE  StagedFor(p, a)
    <3> SUFFICES ASSUME p \notin a.spoiled, NEW g \in Needs(p) \ a.awaited
                 PROVE  staged[Content[g]] # {}
      BY DEF StagedFor
    <3>1. p \notin b.spoiled
      BY <2>3
    <3>2. CASE g = f
      <4>1. Owner[f] = p
        BY <3>2 DEF Needs
      <4> QED BY <2>3, <2>8, <3>2, <4>1
    <3>3. CASE g # f
      BY <2>3, <2>8, <3>1, <3>3 DEF StagedFor
    <3> QED BY <3>2, <3>3
  <2>9. (ok => staged[Content[f]] # {}) => FetchKept(b, c)
    BY <2>5, <2>8 DEF FetchKept
  <2> HIDE DEF c
  <2> QED BY <2>1, <2>4, <2>5, <2>6, <2>7, <2>9 DEF BookKept
<1> QED BY <1>1, <1>2

(* What is kept by two steps is kept by both. *)
LEMMA KeptTrans ==
  ASSUME NEW a, NEW b, NEW c
  PROVE  /\ BookKept(a, b) /\ BookKept(b, c) => BookKept(a, c)
         /\ FetchKept(a, b) /\ FetchKept(b, c) => FetchKept(a, c)
         /\ a \in Books => BookKept(a, a) /\ FetchKept(a, a)
BY DEF BookKept, FetchKept

(* Nor does the failure of all that is awaited. *)
LEMMA AllFailedIs ==
  ASSUME NEW b \in Books
  PROVE  /\ BookKept(b, AllFailed(b)) /\ FetchKept(b, AllFailed(b))
         /\ BookIs(b) => AllFailed(b).awaited = {}
<1> DEFINE First(n) == {Requests[i] : i \in 1..n}
           fn == [at \in Books \X Files |->
                    IF at[2] \in b.awaited THEN Recorded(at[1], at[2], FALSE) ELSE at[1]]
           Good == {gt \in Nat \X Books :
                      /\ BookKept(b, gt[2]) /\ FetchKept(b, gt[2])
                      /\ BookIs(b) => gt[2].awaited \intersect First(gt[1]) = {}}
<1>1. /\ Requests \in Seq(Files) /\ Len(Requests) \in Nat /\ First(0) = {}
      /\ DOMAIN Requests = 1..Len(Requests)
      /\ First(Len(Requests)) = Files
  <2>1. Requests \in Seq(Files)
    BY Offers
  <2>2. Len(Requests) \in Nat /\ DOMAIN Requests = 1..Len(Requests)
    BY <2>1
  <2> QED BY <2>1, <2>2 DEF Files, Range
<1>2. <<0, b>> \in Good
  <2> HIDE DEF First
  <2> QED BY <1>1, KeptTrans
<1>3. fn \in [Books \X Files -> Books]
  <2>1. ASSUME NEW c \in Books, NEW f \in Files
        PROVE  (IF f \in b.awaited THEN Recorded(c, f, FALSE) ELSE c) \in Books
    BY RecordedIs DEF BookKept
  <2>2. ASSUME NEW at \in Books \X Files
        PROVE  (IF at[2] \in b.awaited THEN Recorded(at[1], at[2], FALSE) ELSE at[1]) \in Books
    <3>1. at[1] \in Books /\ at[2] \in Files
      OBVIOUS
    <3> QED BY <2>1, <3>1
  <2> QED BY <2>2
<1>4. ASSUME NEW n \in 1..Len(Requests), NEW c \in Books, <<n - 1, c>> \in Good
      PROVE  <<n, fn[<<c, Requests[n]>>]>> \in Good
  <2> DEFINE f == Requests[n]
             d == fn[<<c, f>>]
  <2>1. n \in Nat /\ f \in Files /\ First(n) = First(n - 1) \union {f}
    <3>1. \A i \in 1..n : i \in 1..(n - 1) \/ i = n
      OBVIOUS
    <3>2. \A i \in 1..(n - 1) : i \in 1..n
      OBVIOUS
    <3>3. n \in 1..n /\ n \in Nat
      OBVIOUS
    <3> QED BY <1>1, <3>1, <3>2, <3>3
  <2>2. /\ BookKept(b, c) /\ FetchKept(b, c)
        /\ BookIs(b) => c.awaited \intersect First(n - 1) = {}
    BY <1>4
  <2>3. d = IF f \in b.awaited THEN Recorded(c, f, FALSE) ELSE c
    BY <2>1
  <2> HIDE DEF fn, d, f, First
  <2>4. CASE f \in b.awaited
    <3>1. /\ BookKept(c, d) /\ FetchKept(c, d)
          /\ BookIs(c) => f \notin d.awaited
      BY <2>1, <2>3, <2>4, RecordedIs
    <3>2. BookKept(b, d) /\ FetchKept(b, d)
      BY <2>2, <3>1, KeptTrans
    <3>3. BookIs(b) => d.awaited \intersect First(n) = {}
      BY <2>1, <2>2, <3>1 DEF BookKept
    <3>4. d \in Books
      BY <3>2 DEF BookKept
    <3> QED BY <2>1, <3>2, <3>3, <3>4 DEF d, f
  <2>5. CASE f \notin b.awaited
    <3>1. BookIs(b) => d.awaited \intersect First(n) = {}
      BY <2>1, <2>2, <2>3, <2>5 DEF BookKept
    <3> QED BY <2>1, <2>2, <2>3, <2>5, <3>1 DEF d, f
  <2> QED BY <2>4, <2>5
<1>5. AllFailed(b) = FoldBy(fn, b, Requests)
  BY DEF AllFailed
<1>6. <<Len(Requests), FoldBy(fn, b, Requests)>> \in Good
  <2>0. Requests \in Seq(Files) /\ <<0, b>> \in Good /\ fn \in [Books \X Files -> Books]
    BY <1>1, <1>2, <1>3
  <2> HIDE DEF fn, Good, First
  <2>1. \A n \in 1..Len(Requests), c \in Books :
          <<n - 1, c>> \in Good => <<n, fn[<<c, Requests[n]>>]>> \in Good
    BY <1>4
  <2> QED BY <2>0, <2>1, FoldKeeps
<1>7. /\ BookKept(b, AllFailed(b)) /\ FetchKept(b, AllFailed(b))
      /\ BookIs(b) => AllFailed(b).awaited \intersect First(Len(Requests)) = {}
  <2> HIDE DEF fn, First
  <2> QED BY <1>5, <1>6
<1>8. AllFailed(b).awaited \subseteq Files
  BY <1>7 DEF BookKept, Books
<1> HIDE DEF First
<1> QED BY <1>1, <1>7, <1>8

(* The tasks of the lane and its reports. *)
TaskSet  == [kind : {"stage"}, of : Files] \union [kind : {"apply"}, of : All]
EventSet == [kind : {"staged"}, of : Files, ok : BOOLEAN]
            \union [kind : {"applied"}, of : SUBSET All]

(* The two kinds of reports of the lane. *)
LEMMA EventIs ==
  ASSUME NEW e \in EventSet
  PROVE  /\ e.kind \in {"staged", "applied"}
         /\ e.kind = "staged" => e.of \in Files /\ e.ok \in BOOLEAN
         /\ e.kind = "applied" => e.of \in SUBSET All
BY DEF EventSet

(* The two kinds of its tasks. *)
LEMMA TaskIs ==
  ASSUME NEW t \in TaskSet
  PROVE  /\ t.kind \in {"stage", "apply"}
         /\ t.kind = "stage" => t.of \in Files /\ t = [kind |-> "stage", of |-> t.of]
         /\ t.kind = "apply" => t.of \in All /\ t = [kind |-> "apply", of |-> t.of]
BY DEF TaskSet

(* The reports of the lane lose nothing from the books. *)
LEMMA AllRecordedIs ==
  ASSUME NEW b \in Books, NEW events \in Seq(EventSet)
  PROVE  /\ BookKept(b, AllRecorded(b, events))
         /\ (\A e \in Range(events) : e.kind = "staged" /\ e.ok => staged[Content[e.of]] # {})
              => FetchKept(b, AllRecorded(b, events))
<1> DEFINE D == Range(events)
           Fetched == \A e \in D : e.kind = "staged" /\ e.ok => staged[Content[e.of]] # {}
           fn == [at \in Books \X D |->
                    IF at[2].kind = "staged" THEN Recorded(at[1], at[2].of, at[2].ok) ELSE at[1]]
           Good == {gt \in Nat \X Books : /\ BookKept(b, gt[2])
                                          /\ Fetched => FetchKept(b, gt[2])}
<1>1. /\ events \in Seq(D) /\ Len(events) \in Nat
      /\ \A n \in 1..Len(events) : events[n] \in D
      /\ \A e \in D : e \in EventSet
  <2>1. events \in Seq(D)
    BY SeqOfRange
  <2>2. D \subseteq EventSet
    BY RangeOfSeq
  <2> QED BY <2>1, <2>2
<1>2. <<0, b>> \in Good
  <2> HIDE DEF Fetched
  <2> QED BY KeptTrans
<1>a. ASSUME NEW c \in Books, NEW e \in D
      PROVE  LET d == IF e.kind = "staged" THEN Recorded(c, e.of, e.ok) ELSE c
             IN BookKept(c, d) /\ (Fetched => FetchKept(c, d))
  <2>1. CASE e.kind = "staged"
    <3>1. e.of \in Files /\ e.ok \in BOOLEAN
      BY <1>1, <2>1, EventIs
    <3> QED BY <2>1, <3>1, RecordedIs
  <2>2. CASE e.kind # "staged"
    BY <2>2, KeptTrans
  <2> QED BY <2>1, <2>2
<1>3. fn \in [Books \X D -> Books]
  <2>1. ASSUME NEW at \in Books \X D
        PROVE  (IF at[2].kind = "staged" THEN Recorded(at[1], at[2].of, at[2].ok) ELSE at[1])
                 \in Books
    <3>1. at[1] \in Books /\ at[2] \in D
      OBVIOUS
    <3> HIDE DEF D, Fetched
    <3> QED BY <1>a, <3>1 DEF BookKept
  <2> QED BY <2>1
<1>4. ASSUME NEW n \in 1..Len(events), NEW c \in Books, <<n - 1, c>> \in Good
      PROVE  <<n, fn[<<c, events[n]>>]>> \in Good
  <2> DEFINE e == events[n]
             d == fn[<<c, e>>]
  <2>1. n \in Nat /\ e \in D
    BY <1>1
  <2>2. BookKept(b, c) /\ (Fetched => FetchKept(b, c))
    BY <1>4
  <2>3. d = IF e.kind = "staged" THEN Recorded(c, e.of, e.ok) ELSE c
    BY <2>1
  <2> HIDE DEF fn, d, e, D, Fetched
  <2>4. BookKept(c, d) /\ (Fetched => FetchKept(c, d))
    BY <1>a, <2>1, <2>3
  <2>5. BookKept(b, d) /\ (Fetched => FetchKept(b, d))
    BY <2>2, <2>4, KeptTrans
  <2>6. d \in Books
    BY <2>5 DEF BookKept
  <2> QED BY <2>1, <2>5, <2>6 DEF d, e
<1>5. AllRecorded(b, events) = FoldBy(fn, b, events)
  BY DEF AllRecorded
<1>6. <<Len(events), FoldBy(fn, b, events)>> \in Good
  <2>0. events \in Seq(D) /\ <<0, b>> \in Good /\ fn \in [Books \X D -> Books]
    BY <1>1, <1>2, <1>3
  <2> HIDE DEF fn, Good, D
  <2>1. \A n \in 1..Len(events), c \in Books :
          <<n - 1, c>> \in Good => <<n, fn[<<c, events[n]>>]>> \in Good
    BY <1>4
  <2> QED BY <2>0, <2>1, FoldKeeps
<1>7. BookKept(b, AllRecorded(b, events)) /\ (Fetched => FetchKept(b, AllRecorded(b, events)))
  <2> HIDE DEF fn, Fetched
  <2> QED BY <1>5, <1>6
<1> QED BY <1>7

(* The tasks of the books: one per ready project and deletion, in order. *)
LEMMA TasksAre ==
  ASSUME NEW b \in Books
  PROVE  /\ Tasks(b) \in Seq([kind : {"apply"}, of : All])
         /\ {t.of : t \in Range(Tasks(b))} = Offered(b)
         /\ BookIs(b) => IsInjective(b.ready \o b.tombs) /\ IsInjective(Tasks(b))
         /\ \A x, y : Precedes(Tasks(b), x, y) => Precedes(b.ready \o b.tombs, x.of, y.of)
<1> DEFINE l == b.ready \o b.tombs
           T == [kind : {"apply"}, of : All]
<1>1. b.ready \in Seq(All) /\ b.tombs \in Seq(All)
  BY DEF Books
<1>2. /\ l \in Seq(All) /\ Range(l) = Offered(b)
  BY <1>1, ConcatList DEF Offered
<1>3. /\ Len(l) \in Nat /\ DOMAIN l = 1..Len(l) /\ \A i \in 1..Len(l) : l[i] \in All
  <2> HIDE DEF l
  <2> QED BY <1>2
<1>4. ASSUME BookIs(b) PROVE IsInjective(l)
  <2>1. Range(b.ready) \intersect Range(b.tombs) = {}
    BY <1>4, Offers DEF BookIs
  <2> QED BY <1>1, <1>4, <2>1, ConcatList DEF BookIs
<1>5. Tasks(b) = [i \in 1..Len(l) |-> [kind |-> "apply", of |-> l[i]]]
  BY <1>3 DEF Tasks
<1> HIDE DEF l
<1>6. Tasks(b) \in Seq(T)
  BY <1>3, <1>5
<1>7. DOMAIN Tasks(b) = 1..Len(l) /\ \A i \in 1..Len(l) : Tasks(b)[i].of = l[i]
  BY <1>5
<1>8. {t.of : t \in Range(Tasks(b))} = Offered(b)
  <2>1. Range(Tasks(b)) = {Tasks(b)[i] : i \in 1..Len(l)}
    BY <1>7 DEF Range
  <2>2. Range(l) = {l[i] : i \in 1..Len(l)}
    BY <1>3 DEF Range
  <2>3. \A x \in {t.of : t \in Range(Tasks(b))} : x \in Offered(b)
    BY <1>2, <1>7, <2>1, <2>2
  <2>4. \A x \in Offered(b) : x \in {t.of : t \in Range(Tasks(b))}
    BY <1>2, <1>7, <2>1, <2>2
  <2> QED BY <2>3, <2>4
<1>9. ASSUME IsInjective(l) PROVE IsInjective(Tasks(b))
  BY <1>3, <1>7, <1>9 DEF IsInjective
<1>10. ASSUME NEW x, NEW y, Precedes(Tasks(b), x, y) PROVE Precedes(l, x.of, y.of)
  BY <1>3, <1>7, <1>10 DEF Precedes
<1> QED BY <1>4, <1>6, <1>8, <1>9, <1>10 DEF l

(* Credit that is granted goes to the window and to the inbox of the peer. *)
LEMMA GrantCreditIs ==
  ASSUME size \in [Files -> Nat],
         NEW q \in Seq(Files), NEW active \in SUBSET Files, NEW staging \in SUBSET Files,
         Bytes(active \union staging) <= ByteBudget, GrantCredit(q, active, staging),
         batch \in [ended : BOOLEAN, broken : BOOLEAN],
         peer \in [does : {"idle", "credit", "stream", "over"}, left : SUBSET Files,
                   sending : SUBSET Files, inbox : Seq(SUBSET Files),
                   outbox : {<<>>, <<"end">>, <<"abort">>}]
  PROVE  \E give \in SUBSET Files :
           /\ window' \in [queue : Seq(Files), active : SUBSET Files]
           /\ window'.active = active \union give
           /\ Bytes(window'.active \union staging) <= ByteBudget
           /\ \/ peer' = peer
              \/ peer' = [peer EXCEPT !.inbox = Append(@, give)]
           /\ \E bad \in BOOLEAN : batch' = [batch EXCEPT !.broken = @ \/ bad]
<1> DEFINE g == Grantable(q, active, staging)
           lost == g.give # {} /\ ~Up
<1>1. /\ g.give \in SUBSET Files /\ g.rest \in Seq(Files) /\ g.fails \in BOOLEAN
      /\ Bytes((active \union g.give) \union staging) <= ByteBudget
  BY GrantFits
<1>2. /\ window' = [queue |-> g.rest, active |-> active \union (IF lost THEN {} ELSE g.give)]
      /\ peer' = IF g.give = {} \/ lost THEN peer
                 ELSE [peer EXCEPT !.inbox = Append(@, g.give)]
      /\ batch' = [batch EXCEPT !.broken = @ \/ g.fails \/ lost]
  BY DEF GrantCredit
<1>3. lost \in BOOLEAN
  OBVIOUS
<1> HIDE DEF g, lost
<1>4. \E bad \in BOOLEAN : batch' = [batch EXCEPT !.broken = @ \/ bad]
  <2>1. (g.fails \/ lost) \in BOOLEAN /\ batch' = [batch EXCEPT !.broken = @ \/ (g.fails \/ lost)]
    BY <1>2
  <2> QED BY <2>1
<1>5. CASE lost
  <2>1. window' = [queue |-> g.rest, active |-> active \union {}] /\ peer' = peer
    BY <1>2, <1>5
  <2>2. window'.active = active \union {} /\ window'.active = active
    BY <2>1
  <2>3. window' \in [queue : Seq(Files), active : SUBSET Files]
    BY <1>1, <2>1
  <2> QED BY <1>4, <2>1, <2>2, <2>3
<1>6. CASE ~lost
  <2>1. window' = [queue |-> g.rest, active |-> active \union g.give]
    BY <1>2, <1>6
  <2>2. /\ window'.active = active \union g.give
        /\ window' \in [queue : Seq(Files), active : SUBSET Files]
    BY <1>1, <2>1
  <2> QED BY <1>1, <1>2, <1>4, <1>6, <2>2
<1> QED BY <1>5, <1>6

-----------------------------------------------------------------------------
(* The invariant of the import, part by part.                              *)

(* The types of the records of the import. *)
Windows == [queue : Seq(Files), active : SUBSET Files]
Batches == [ended : BOOLEAN, broken : BOOLEAN]
Streams == [Files -> {"none", "open", "reading", "received", "failed", "unread", "cut",
                      "handled"}]
Peers   == [does : {"idle", "credit", "stream", "over"}, left : SUBSET Files,
            sending : SUBSET Files, inbox : Seq(SUBSET Files),
            outbox : {<<>>, <<"end">>, <<"abort">>}]
Lanes   == [queue : Seq(TaskSet), work : {"idle", "do", "skip", "dead"},
            tasks : Seq(TaskSet), events : Seq(EventSet), off : BOOLEAN]
JobSets == [staging : SUBSET Files, next : Seq([kind : {"apply"}, of : All]),
            queued : SUBSET All, refused : SUBSET All]

(* The variables of the import have their types. *)
ImportTyped ==
  /\ step \in {"plan", "discover", "request", "batch", "drain", "enqueue", "after"}
  /\ size \in [Files -> Nat] /\ book \in Books /\ window \in Windows /\ batch \in Batches
  /\ stream \in Streams /\ peer \in Peers /\ jobs \in JobSets
  /\ scratch \subseteq Files /\ staged \in [Hashes -> SUBSET Files]
  /\ applied \subseteq All /\ missing \subseteq All /\ results \in [All -> Nat]

(* The lane has its types and its bounds; a stage task is in work alone. *)
LaneTyped ==
  /\ lane \in Lanes /\ Len(lane.queue) <= QueueCap /\ Len(lane.tasks) <= ApplyMax
  /\ lane.work = "idle" => lane.tasks = <<>>
  /\ lane.work \in {"do", "skip"} => lane.tasks # <<>>
  /\ \A t \in Range(lane.tasks) : t.kind = "stage" => Len(lane.tasks) = 1

(* So has the run; the platform times out as often as the allowance says. *)
RunTyped ==
  /\ role \in {"initiator", "responder"}
  /\ token \in {"clear", "raised", "told"} /\ conn \in {"none", "up", "down"}
  /\ verdict \in {"none", "ok", "interrupted", "error"}
  /\ faults \in 0..MaxFaults /\ epoch \in 0..faults

(* Which step the import is at in which phase of the run. *)
Flow ==
  /\ phase # "import" => step \in {"plan", "after"}
  /\ phase \in Unleased \union {"insert", "connect", "attach", "exchange"} => step = "plan"
  /\ phase \in {"finish", "discard"} => step = "after"
  /\ phase = "serve" => step = IF role = "initiator" THEN "after" ELSE "plan"
  /\ verdict = "none" <=> phase \notin {"release", "over"}

(* Before the batch nothing has been requested, received or handed over. *)
EarlyInv == step \in Early =>
  /\ lane.queue = <<>> /\ lane.work = "idle" /\ lane.events = <<>> /\ jobs.staging = {}
  /\ peer.does = "idle" /\ peer.sending = {} /\ peer.inbox = <<>>
  /\ stream = [f \in Files |-> "none"] /\ scratch = {} /\ book.done = {}
  /\ ~batch.broken

(* Before it is over, only files go to the lane, and nothing is applied. *)
UnqueuedInv == step \notin Late =>
  /\ \A t \in Range(lane.tasks) \union Range(lane.queue) : t.kind = "stage"
  /\ \A e \in Range(lane.events) : e.kind = "staged"
  /\ jobs.next = <<>> /\ jobs.queued = {} /\ jobs.refused = {} /\ applied = {}

(* The tasks of the lane and of the session, in the order of their turn; the *)
(* files the lane has reported; the projects of a list of tasks.            *)
Work == (lane.tasks \o lane.queue) \o jobs.next
StagedFiles == {e.of : e \in {x \in Range(lane.events) : x.kind = "staged"}}
Of(ts) == {t.of : t \in {x \in Range(ts) : x.kind = "apply"}}

(* A file that the lane has reported is handled, and gone from the disk. *)
EventInv == \A e \in Range(lane.events) :
  e.kind = "staged" => stream[e.of] = "handled" /\ e.of \notin scratch

(* No task is there twice, and a file to be staged counts as such. *)
WorkInv == ~Dead =>
  /\ IsInjective(Work)
  /\ \A t \in Range(Work) : t.kind = "stage" =>
       stream[t.of] = "handled" /\ t.of \in jobs.staging /\ t.of \notin StagedFiles

(* A file on disk is being received or to be staged; later there is none. *)
ScratchInv ==
  /\ scratch \subseteq {f \in Files : stream[f] \in {"reading", "received"}} \union jobs.staging
  /\ step \in Late /\ ~Dead => scratch = {} /\ jobs.staging = {}

(* The artifacts that the peer may still send, or that have just arrived. *)
Arriving == {f \in Files : \/ stream[f] \in {"open", "reading", "received", "failed"}
                           \/ /\ stream[f] = "none"
                              /\ f \in peer.sending \/ \E i \in DOMAIN peer.inbox : f \in peer.inbox[i]}

(* What may arrive has credit, and credit and files to be staged fit the    *)
(* budget.                                                                  *)
CreditInv ==
  /\ Batching => /\ Arriving \subseteq window.active
                 /\ Bytes(window.active \union jobs.staging) <= ByteBudget
  /\ Bytes(scratch) <= ByteBudget

(* The books hold each project without a result once, in one of their       *)
(* places; unless the run is called off none of them is lost.               *)
BookInv == verdict = "none" =>
  /\ BookIs(book)
  /\ step = "plan" => book.left = <<>> /\ book.ready = <<>> /\ book.tombs = <<>> /\ Open = All
  /\ \A p \in All : results[p] \in 0..1
  /\ step # "plan" /\ ~Cancelled => NoneLost(book)
  /\ step \notin {"plan", "discover"} /\ ~Cancelled => book.left = <<>>
  /\ step \in Late /\ ~Cancelled => book.awaited = {}

(* What the books offer is enqueued, refused or still to be enqueued, once. *)
JobsInv == verdict = "none" /\ step \in Late =>
  /\ IsInjective(jobs.next)
  /\ jobs.queued \intersect Of(jobs.next) = {} /\ jobs.refused \intersect Of(jobs.next) = {}
  /\ jobs.queued \intersect jobs.refused = {}
  /\ (jobs.queued \union jobs.refused) \union Of(jobs.next) \subseteq Offered(book)
  /\ ~Cancelled => Offered(book) \subseteq (jobs.queued \union jobs.refused) \union Of(jobs.next)
  /\ step = "after" => jobs.next = <<>>

(* What is enqueued is in the lane, or reported by it, unless it died. *)
ReportInv ==
  /\ \A e \in Range(lane.events) : e.kind = "applied" => e.of \subseteq jobs.queued
  /\ Of(lane.tasks) \union Of(lane.queue) \subseteq jobs.queued
  /\ ~Dead => jobs.queued \subseteq (Reported \union Of(lane.tasks)) \union Of(lane.queue)

(* A run with a verdict has waited for its lane. *)
IdleInv == verdict # "none" => Dead \/ (lane.work = "idle" /\ lane.queue = <<>>)

(* A batch that broke has called off the lane before it applies anything. *)
OffInv ==
  /\ step \in Late /\ batch.broken => lane.off
  /\ batch.broken => applied = {}

(* A project that was discovered needs nothing that is not staged, awaited  *)
(* or known to be lost; a file that was reported as staged is staged.       *)
FetchedInv ==
  /\ verdict = "none" /\ step \notin Late \union {"plan"} =>
       \A p \in Open \intersect Range(Projects) : p \notin Range(book.left) => StagedFor(p, book)
  /\ step \notin Late => \A e \in Range(lane.events) :
                           e.kind = "staged" /\ e.ok => staged[Content[e.of]] # {}

(* Tasks are applied in the order in which their projects became ready. *)
OrderInv == step \in Late /\ ~Dead =>
  \A a, b \in Range(Work) : Precedes(Work, a, b) => Precedes(book.ready \o book.tombs, a.of, b.of)

(* The projects that are still to be applied. *)
Waiting == ((IF lane.work = "do" THEN Of(lane.tasks) ELSE {}) \union Of(lane.queue))
           \union Of(jobs.next)

(* They are not applied, and what they need is staged. *)
WaitingInv == step \in Late /\ ~Dead =>
  /\ applied \intersect Waiting = {}
  /\ \A p \in Waiting \ book.spoiled : \A f \in Needs(p) : staged[Content[f]] # {}

(* The import stands still. *)
ImportKept == UNCHANGED <<step, size, book, window, batch, stream, peer, jobs, scratch, staged,
                          applied, missing, results>>

(* A step beside the import, which may call it off. *)
Aside ==
  /\ ImportKept
  /\ lane' = lane \/ lane' = [lane EXCEPT !.off = TRUE]
  /\ Cancelled => Cancelled'
  /\ verdict' = "none" => verdict = "none"

(* A step of the import. *)
Parts ==
  /\ UNCHANGED <<runVars, powerVars>>
  /\ \/ phase = "import" /\ Session
     \/ Lane
     \/ Peer
     \/ \E f \in Files : Receive(f)

(* A step is beside the import, its end, or a part of it. *)
LEMMA Kinds ==
  ASSUME [Next]_vars
  PROVE  Aside \/ Finish \/ Parts
<1> USE DEF Aside, ImportKept, importVars, runVars, powerVars
<1>1. ASSUME Register \/ ReadEpoch \/ Acquire \/ Insert \/ Release PROVE Aside
  BY <1>1 DEF Register, ReadEpoch, Acquire, Insert, Release, Go, Cancelled
<1>2. ASSUME WatchTimeout \/ LifecycleEvent \/ Tell \/ AbortConnection PROVE Aside
  BY <1>2 DEF WatchTimeout, LifecycleEvent, Tell, AbortConnection, Cancelled
<1>3. ASSUME Disconnect \/ PlatformTimeout \/ Exit PROVE Aside
  BY <1>3 DEF Disconnect, PlatformTimeout, Exit, Cancelled
<1>4. ASSUME Connect PROVE Aside
  BY <1>4 DEF Connect, Failed, Ends, Cancelled
<1>5. ASSUME Attach \/ Exchange PROVE Aside
  BY <1>5 DEF Attach, Exchange, Failed, Ends, Cancelled
<1>6. ASSUME ImportDone PROVE Aside
  BY <1>6 DEF ImportDone, Cancelled
<1>7. ASSUME Serve PROVE Aside
  BY <1>7 DEF Serve, Failed, Ends, Cancelled
<1>8. ASSUME Importing \/ Beside PROVE Parts
  BY <1>8 DEF Importing, Beside, Parts
<1>9. ASSUME Over \/ UNCHANGED vars PROVE Aside
  BY <1>9 DEF Over, vars, Cancelled
<1> HIDE DEF Aside
<1> QED BY <1>1, <1>2, <1>3, <1>4, <1>5, <1>6, <1>7, <1>8, <1>9 DEF Next

-----------------------------------------------------------------------------
(* Kinds of steps, and what the run does.                                  *)

(* Every disturbance is taken from the allowance. *)
Allowed == UNCHANGED faults \/ Fault

(* The parts of the import leave the token, and the connection to its loss. *)
LEMMA PartsAllowed ==
  ASSUME Parts
  PROVE  Allowed /\ UNCHANGED token /\ (conn' = conn \/ conn' = "down")
<1> DEFINE Goal == Allowed /\ UNCHANGED token /\ (conn' = conn \/ conn' = "down")
<1>1. ASSUME Plan \/ Discover \/ SkipBatch PROVE Goal
  BY <1>1 DEF Plan, Discover, SkipBatch, Allowed
<1>2. ASSUME RequestBatch \/ BatchBreaks \/ ReadEnd PROVE Goal
  BY <1>2 DEF RequestBatch, BatchBreaks, ReadEnd, Allowed
<1>3. ASSUME TakeReports \/ CloseBatch \/ EndBatch \/ Enqueue PROVE Goal
  BY <1>3 DEF TakeReports, CloseBatch, EndBatch, Enqueue, Allowed
<1>4. ASSUME NEW f \in Files, AcceptStream(f) \/ HandleReceived(f) \/ HandleFailed(f) PROVE Goal
  BY <1>4 DEF AcceptStream, HandleReceived, HandleFailed, Allowed
<1>5. ASSUME Lane PROVE Goal
  <2>1. ASSUME LaneTake \/ LaneCollect \/ LaneStage \/ LaneReport \/ LaneDies PROVE Goal
    BY <2>1 DEF LaneTake, LaneCollect, LaneStage, LaneReport, LaneDies, Allowed
  <2>2. ASSUME LaneApply PROVE Goal
    BY <2>2 DEF LaneApply, ApplyTasks, Allowed
  <2> HIDE DEF Goal
  <2> QED BY <1>5, <2>1, <2>2 DEF Lane
<1>6. ASSUME PeerCredit \/ PeerJoins \/ PeerAborts PROVE Goal
  BY <1>6 DEF PeerCredit, PeerJoins, PeerAborts, Allowed
<1>7. ASSUME NEW f \in Files, PeerOpens(f) \/ Receive(f) PROVE Goal
  BY <1>7 DEF PeerOpens, Receive, Allowed
<1> HIDE DEF Goal
<1>8. Session => Goal
  BY <1>1, <1>2, <1>3, <1>4 DEF Session
<1>9. Peer => Goal
  BY <1>6, <1>7 DEF Peer
<1>10. Goal
  BY <1>5, <1>7, <1>8, <1>9 DEF Parts
<1> QED BY <1>10 DEF Goal

(* The variables of the run keep their types; an epoch costs a disturbance. *)
LEMMA RunTypedKeeps ==
  ASSUME RunTyped, [Next]_vars
  PROVE  RunTyped'
<1> DEFINE Goal == /\ Allowed /\ UNCHANGED role
                   /\ token' \in {token, "raised", "told"} /\ conn' \in {conn, "up", "down"}
                   /\ verdict' \in {verdict, "ok", "interrupted", "error"}
                   /\ UNCHANGED epoch \/ (Fault /\ epoch' = epoch + 1)
<1> USE DEF importVars, runVars, powerVars, Allowed
<1>1. ASSUME Register \/ ReadEpoch \/ Acquire \/ Insert \/ Release PROVE Goal
  BY <1>1 DEF Register, ReadEpoch, Acquire, Insert, Release, Go
<1>2. ASSUME WatchTimeout \/ LifecycleEvent \/ Tell \/ AbortConnection PROVE Goal
  BY <1>2 DEF WatchTimeout, LifecycleEvent, Tell, AbortConnection
<1>3. ASSUME Disconnect \/ PlatformTimeout \/ Exit PROVE Goal
  BY <1>3 DEF Disconnect, PlatformTimeout, Exit
<1>4. ASSUME Connect PROVE Goal
  BY <1>4 DEF Connect, Failed, Ends
<1>5. ASSUME Attach \/ Exchange PROVE Goal
  BY <1>5 DEF Attach, Exchange, Failed, Ends
<1>6. ASSUME ImportDone PROVE Goal
  BY <1>6 DEF ImportDone
<1>7. ASSUME Serve PROVE Goal
  BY <1>7 DEF Serve, Failed, Ends
<1>8. ASSUME Finish PROVE Goal
  BY <1>8 DEF Finish, Ends
<1>9. ASSUME Parts PROVE Goal
  <2>1. Allowed /\ UNCHANGED token /\ (conn' = conn \/ conn' = "down")
    BY <1>9, PartsAllowed
  <2>2. UNCHANGED <<role, verdict, epoch>>
    BY <1>9 DEF Parts
  <2> QED BY <2>1, <2>2
<1>10. ASSUME Over \/ UNCHANGED vars PROVE Goal
  BY <1>10 DEF Over, vars
<1>11. Importing \/ Beside => Parts
  BY DEF Importing, Beside, Parts
<1>12. Goal
  <2> HIDE DEF Goal
  <2> QED BY <1>1, <1>2, <1>3, <1>4, <1>5, <1>6, <1>7, <1>8, <1>9, <1>10, <1>11 DEF Next
<1>13. faults \in 0..MaxFaults /\ epoch \in 0..faults /\ MaxFaults \in Nat
  BY BoundsAreNatural DEF RunTyped, BoundsAreNatural
<1>14. faults' \in 0..MaxFaults /\ epoch' \in 0..faults'
  BY <1>12, <1>13 DEF Fault
<1> QED BY <1>12, <1>14 DEF RunTyped

(* The phases and the steps of the import follow each other. *)
LEMMA FlowKeeps ==
  ASSUME IInv, RunTyped, Flow, [Next]_vars
  PROVE  Flow'
<1> USE DEF Flow, RunTyped, Unleased, importVars, runVars, powerVars
<1>1. ASSUME Register \/ ReadEpoch \/ Acquire \/ Insert \/ Release PROVE Flow'
  BY <1>1 DEF Register, ReadEpoch, Acquire, Insert, Release, Go
<1>2. ASSUME WatchTimeout \/ LifecycleEvent \/ Tell \/ AbortConnection PROVE Flow'
  BY <1>2 DEF WatchTimeout, LifecycleEvent, Tell, AbortConnection
<1>3. ASSUME Disconnect \/ PlatformTimeout \/ Exit PROVE Flow'
  BY <1>3 DEF Disconnect, PlatformTimeout, Exit
<1>4. ASSUME Connect PROVE Flow'
  BY <1>4 DEF Connect, Failed, Ends
<1>5. ASSUME Attach \/ Exchange PROVE Flow'
  BY <1>5 DEF Attach, Exchange, Failed, Ends
<1>6. ASSUME ImportDone PROVE Flow'
  BY <1>6 DEF ImportDone
<1>7. ASSUME Serve PROVE Flow'
  BY <1>7 DEF Serve, Failed, Ends
<1>8. ASSUME Finish PROVE Flow'
  BY <1>8 DEF Finish, Ends, FinishImport
<1>9. ASSUME Parts PROVE Flow'
  <2>1. ASSUME phase = "import", UNCHANGED runVars PROVE Flow'
    BY <2>1
  <2>2. ASSUME Lane, UNCHANGED runVars PROVE Flow'
    <3>1. UNCHANGED step
      BY <2>2 DEF Lane, LaneTake, LaneCollect, LaneStage, LaneApply, LaneReport, LaneDies
    <3> QED BY <2>2, <3>1
  <2>3. ASSUME Peer, UNCHANGED runVars PROVE Flow'
    BY <2>3 DEF Peer, PeerCredit, PeerJoins, PeerAborts, PeerOpens
  <2>4. ASSUME NEW f \in Files, Receive(f), UNCHANGED runVars PROVE Flow'
    BY <2>4 DEF Receive
  <2>5. UNCHANGED runVars
    BY <1>9 DEF Parts
  <2> HIDE DEF Flow
  <2> QED BY <1>9, <2>1, <2>2, <2>3, <2>4, <2>5 DEF Parts
<1>10. ASSUME Over \/ UNCHANGED vars PROVE Flow'
  BY <1>10 DEF Over, vars
<1>11. Importing \/ Beside => Parts
  BY DEF Importing, Beside, Parts
<1> HIDE DEF Flow
<1> QED BY <1>1, <1>2, <1>3, <1>4, <1>5, <1>6, <1>7, <1>8, <1>9, <1>10, <1>11 DEF Next

-----------------------------------------------------------------------------
(* The write lane.                                                         *)

(* The tasks in work are one stage task or apply tasks only. *)
LEMMA InWork ==
  ASSUME LaneTyped, lane.tasks # <<>>
  PROVE  /\ Head(lane.tasks) \in Range(lane.tasks) /\ Head(lane.tasks) \in TaskSet
         /\ Head(lane.tasks).kind = "stage" => lane.tasks = <<Head(lane.tasks)>>
         /\ Head(lane.tasks).kind = "apply" => \A t \in Range(lane.tasks) : t.kind = "apply"
<1> DEFINE s == lane.tasks
<1>1. s \in Seq(TaskSet) /\ s # <<>>
  BY DEF LaneTyped, Lanes
<1>2. Head(s) \in Range(s) /\ Head(s) \in TaskSet
  BY <1>1, TailList
<1>3. ASSUME NEW t \in Range(s), t.kind = "stage" PROVE s = <<t>>
  <2>1. Len(s) = 1
    BY <1>3 DEF LaneTyped
  <2>2. DOMAIN s = 1..1
    BY <1>1, <2>1
  <2>3. t = s[1]
    BY <1>3, <2>2 DEF Range
  <2> HIDE DEF s
  <2> QED BY <1>1, <2>1, <2>3
<1>4. \A t \in Range(s) : t \in TaskSet
  BY <1>1, RangeOfSeq
<1>5. ASSUME Head(s).kind = "apply", NEW t \in Range(s) PROVE t.kind = "apply"
  <2>1. t.kind \in {"stage", "apply"}
    BY <1>4, TaskIs
  <2>2. CASE t.kind = "stage"
    <3>1. s = <<t>>
      BY <1>3, <2>2
    <3>2. Head(s) = t
      <4> HIDE DEF s
      <4> QED BY <3>1
    <3> QED BY <1>5, <2>2, <3>2
  <2> QED BY <2>1, <2>2
<1>6. Head(s).kind = "stage" => s = <<Head(s)>>
  BY <1>2, <1>3
<1> QED BY <1>2, <1>5, <1>6

(* The head of the queue is in work, behind what was in work. *)
Takes == LaneTake \/ LaneCollect
Taken == /\ lane' \in Lanes /\ lane'.queue = Tail(lane.queue)
         /\ lane'.tasks = Append(lane.tasks, Head(lane.queue))
         /\ lane'.work = "do" /\ lane'.events = lane.events /\ lane'.off = lane.off

(* LaneTake begins with one task, LaneCollect adds an apply task to others. *)
LEMMA TakesIs ==
  ASSUME LaneTyped, Takes
  PROVE  /\ Taken /\ lane.queue # <<>> /\ lane.work \in {"idle", "do"}
         /\ Len(lane.tasks) < ApplyMax
         /\ \/ lane.tasks = <<>>
            \/ /\ lane.tasks # <<>> /\ Head(lane.tasks).kind = "apply"
               /\ Head(lane.queue).kind = "apply"
<1>1. lane \in Lanes /\ lane.queue \in Seq(TaskSet) /\ lane.tasks \in Seq(TaskSet)
  BY DEF LaneTyped, Lanes
<1>2. lane.queue # <<>>
  BY DEF Takes, LaneTake, LaneCollect
<1>3. PICK h, q, t : h = Head(lane.queue) /\ q = Tail(lane.queue) /\ t = Append(lane.tasks, h)
  OBVIOUS
<1>4. h \in TaskSet /\ q \in Seq(TaskSet) /\ t \in Seq(TaskSet)
  <2>1. h \in TaskSet /\ q \in Seq(TaskSet)
    BY <1>1, <1>2, <1>3, TailList
  <2> QED BY <1>1, <1>3, <2>1, AppendList
<1>5. CASE LaneTake
  <2>1. lane.work = "idle" /\ lane.tasks = <<>>
    BY <1>5 DEF LaneTake, LaneTyped
  <2>2. t = <<h>> /\ Len(lane.tasks) = 0 /\ ApplyMax \in Nat \ {0}
    BY <1>3, <1>4, <2>1, CapsArePositive DEF CapsArePositive
  <2>3. lane' = [lane EXCEPT !.queue = q, !.tasks = t, !.work = "do"]
    BY <1>3, <1>5, <2>2 DEF LaneTake
  <2>4. /\ lane' \in Lanes /\ lane'.queue = q /\ lane'.tasks = t /\ lane'.work = "do"
        /\ lane'.events = lane.events /\ lane'.off = lane.off
    BY <1>1, <1>4, <2>3 DEF Lanes
  <2>5. Len(lane.tasks) < ApplyMax
    BY <2>2
  <2> QED BY <1>2, <1>3, <2>1, <2>4, <2>5 DEF Taken
<1>6. CASE LaneCollect
  <2>1. /\ lane.work = "do" /\ Head(lane.tasks).kind = "apply" /\ Len(lane.tasks) < ApplyMax
        /\ Head(lane.queue).kind = "apply"
        /\ lane' = [lane EXCEPT !.queue = q, !.tasks = t]
    BY <1>3, <1>6 DEF LaneCollect
  <2>2. /\ lane' \in Lanes /\ lane'.queue = q /\ lane'.tasks = t /\ lane'.work = "do"
        /\ lane'.events = lane.events /\ lane'.off = lane.off
    BY <1>1, <1>4, <2>1 DEF Lanes
  <2>3. lane.tasks # <<>>
    BY <2>1 DEF LaneTyped
  <2> QED BY <1>2, <1>3, <2>1, <2>2, <2>3 DEF Taken
<1> QED BY <1>5, <1>6 DEF Takes

(* What is taken moves from the queue to the end of the tasks in work. *)
LEMMA TakesTyped ==
  ASSUME LaneTyped, Takes
  PROVE  /\ LaneTyped'
         /\ lane'.tasks \o lane'.queue = lane.tasks \o lane.queue
         /\ Range(lane'.tasks) \union Range(lane'.queue)
              = Range(lane.tasks) \union Range(lane.queue)
<1>1. lane.queue \in Seq(TaskSet) /\ lane.tasks \in Seq(TaskSet) /\ lane.queue # <<>>
  BY TakesIs DEF LaneTyped, Lanes
<1>2. PICK h, q, t : h = Head(lane.queue) /\ q = Tail(lane.queue) /\ t = Append(lane.tasks, h)
  OBVIOUS
<1>3. /\ h \in TaskSet /\ q \in Seq(TaskSet) /\ t \in Seq(TaskSet)
      /\ Range(lane.queue) = Range(q) \union {h} /\ Range(t) = Range(lane.tasks) \union {h}
  <2>1. h \in TaskSet /\ q \in Seq(TaskSet) /\ Range(lane.queue) = Range(q) \union {h}
    BY <1>1, <1>2, TailList
  <2> QED BY <1>1, <1>2, <2>1, AppendList
<1>4. /\ lane' \in Lanes /\ lane'.queue = q /\ lane'.tasks = t /\ lane'.work = "do"
  BY <1>2, TakesIs DEF Taken
<1>5. t \o q = lane.tasks \o lane.queue
  BY <1>1, <1>2, MoveHead
<1>6. /\ Len(q) = Len(lane.queue) - 1 /\ Len(t) = Len(lane.tasks) + 1 /\ t # <<>>
      /\ {Len(lane.queue), Len(lane.tasks), QueueCap, ApplyMax} \subseteq Nat
      /\ Len(lane.queue) <= QueueCap /\ Len(lane.tasks) < ApplyMax
  <2>1. /\ Len(q) = Len(lane.queue) - 1 /\ Len(t) = Len(lane.tasks) + 1
        /\ Len(lane.queue) \in Nat /\ Len(lane.tasks) \in Nat
    BY <1>1, <1>2, <1>3
  <2>2. Len(lane.queue) <= QueueCap /\ Len(lane.tasks) < ApplyMax
    BY TakesIs DEF LaneTyped
  <2>3. t # <<>>
    BY <2>1
  <2> QED BY <2>1, <2>2, <2>3, CapsArePositive DEF CapsArePositive
<1>7. ASSUME NEW x \in Range(t), x.kind = "stage" PROVE Len(t) = 1
  <2>1. CASE lane.tasks = <<>>
    BY <1>6, <2>1
  <2>2. CASE lane.tasks # <<>>
    <3>1. h.kind = "apply" /\ Head(lane.tasks).kind = "apply"
      BY <1>2, <2>2, TakesIs
    <3>2. \A y \in Range(lane.tasks) : y.kind = "apply"
      BY <2>2, <3>1, InWork
    <3> QED BY <1>3, <1>7, <3>1, <3>2
  <2> QED BY <2>1, <2>2
<1>8. Len(q) <= QueueCap /\ Len(t) <= ApplyMax
  BY <1>6
<1>9. LaneTyped'
  BY <1>4, <1>6, <1>7, <1>8 DEF LaneTyped
<1> QED BY <1>3, <1>4, <1>5, <1>9

(* The record of the lane after one of its fields is set. *)
LEMMA LaneSet ==
  ASSUME lane \in Lanes
  PROVE  /\ \A q \in Seq(TaskSet) : lane' = [lane EXCEPT !.queue = q] =>
              /\ lane' \in Lanes /\ lane'.queue = q /\ lane'.tasks = lane.tasks
              /\ lane'.work = lane.work /\ lane'.events = lane.events /\ lane'.off = lane.off
         /\ \A off \in BOOLEAN : lane' = [lane EXCEPT !.off = off] =>
              /\ lane' \in Lanes /\ lane'.queue = lane.queue /\ lane'.tasks = lane.tasks
              /\ lane'.work = lane.work /\ lane'.events = lane.events /\ lane'.off = off
         /\ \A w \in {"idle", "do", "skip", "dead"} : lane' = [lane EXCEPT !.work = w] =>
              /\ lane' \in Lanes /\ lane'.queue = lane.queue /\ lane'.tasks = lane.tasks
              /\ lane'.work = w /\ lane'.events = lane.events /\ lane'.off = lane.off
         /\ \A es \in Seq(EventSet) : lane' = [lane EXCEPT !.events = es] =>
              /\ lane' \in Lanes /\ lane'.queue = lane.queue /\ lane'.tasks = lane.tasks
              /\ lane'.work = lane.work /\ lane'.events = es /\ lane'.off = lane.off
         /\ \A e \in EventSet : LaneDone(e) =>
              /\ lane' \in Lanes /\ lane'.queue = lane.queue /\ lane'.tasks = <<>>
              /\ lane'.work = "idle" /\ lane'.events = Append(lane.events, e)
              /\ lane'.off = lane.off
<1>1. ASSUME NEW q \in Seq(TaskSet), lane' = [lane EXCEPT !.queue = q]
      PROVE  /\ lane' \in Lanes /\ lane'.queue = q /\ lane'.tasks = lane.tasks
             /\ lane'.work = lane.work /\ lane'.events = lane.events /\ lane'.off = lane.off
  BY <1>1 DEF Lanes
<1>2. ASSUME NEW off \in BOOLEAN, lane' = [lane EXCEPT !.off = off]
      PROVE  /\ lane' \in Lanes /\ lane'.queue = lane.queue /\ lane'.tasks = lane.tasks
             /\ lane'.work = lane.work /\ lane'.events = lane.events /\ lane'.off = off
  BY <1>2 DEF Lanes
<1>3. ASSUME NEW w \in {"idle", "do", "skip", "dead"}, lane' = [lane EXCEPT !.work = w]
      PROVE  /\ lane' \in Lanes /\ lane'.queue = lane.queue /\ lane'.tasks = lane.tasks
             /\ lane'.work = w /\ lane'.events = lane.events /\ lane'.off = lane.off
  BY <1>3 DEF Lanes
<1>4. ASSUME NEW es \in Seq(EventSet), lane' = [lane EXCEPT !.events = es]
      PROVE  /\ lane' \in Lanes /\ lane'.queue = lane.queue /\ lane'.tasks = lane.tasks
             /\ lane'.work = lane.work /\ lane'.events = es /\ lane'.off = lane.off
  BY <1>4 DEF Lanes
<1>5. ASSUME NEW e \in EventSet, LaneDone(e)
      PROVE  /\ lane' \in Lanes /\ lane'.queue = lane.queue /\ lane'.tasks = <<>>
             /\ lane'.work = "idle" /\ lane'.events = Append(lane.events, e)
             /\ lane'.off = lane.off
  <2>1. PICK es : es = Append(lane.events, e)
    OBVIOUS
  <2>2. lane.events \in Seq(EventSet)
    BY DEF Lanes
  <2>3. es \in Seq(EventSet) /\ <<>> \in Seq(TaskSet)
    BY <2>1, <2>2
  <2>4. lane' = [lane EXCEPT !.work = "idle", !.tasks = <<>>, !.events = es]
    BY <1>5, <2>1 DEF LaneDone
  <2>5. /\ lane' \in Lanes /\ lane'.queue = lane.queue /\ lane'.tasks = <<>>
        /\ lane'.work = "idle" /\ lane'.events = es /\ lane'.off = lane.off
    BY <2>3, <2>4 DEF Lanes
  <2> QED BY <2>1, <2>5
<1> QED BY <1>1, <1>2, <1>3, <1>4, <1>5

(* A task at the end of the queue, or the switch of the lane, and no more. *)
Queues(t)   == /\ lane' \in Lanes /\ lane'.queue = Append(lane.queue, t)
               /\ lane'.tasks = lane.tasks /\ lane'.work = lane.work
               /\ lane'.events = lane.events /\ lane'.off = lane.off
SameLane    == /\ lane' \in Lanes /\ lane'.queue = lane.queue /\ lane'.tasks = lane.tasks
               /\ lane'.work = lane.work /\ lane'.events = lane.events
               /\ lane.off => lane'.off
Reports(e)  == /\ lane' \in Lanes /\ lane'.queue = lane.queue /\ lane'.tasks = <<>>
               /\ lane'.work = "idle" /\ lane'.events = Append(lane.events, e)
               /\ lane'.off = lane.off
Becomes(w)  == /\ lane' \in Lanes /\ lane'.queue = lane.queue /\ lane'.tasks = lane.tasks
               /\ lane'.work = w /\ lane'.events = lane.events /\ lane'.off = lane.off
Emptied     == /\ lane' \in Lanes /\ lane'.queue = lane.queue /\ lane'.tasks = lane.tasks
               /\ lane'.work = lane.work /\ lane'.events = <<>> /\ lane'.off = lane.off

(* What a step of the session, of a thread or of the peer does to the lane. *)
LEMMA SessionLane ==
  ASSUME LaneTyped, ImportTyped
  PROVE  /\ (Plan \/ Discover \/ SkipBatch \/ RequestBatch \/ BatchBreaks \/ ReadEnd
             \/ CloseBatch \/ EndBatch \/ Peer) => SameLane
         /\ \A f \in Files : AcceptStream(f) \/ HandleFailed(f) \/ Receive(f) => SameLane
         /\ Aside \/ Finish => SameLane
<1>1. lane \in Lanes
  BY DEF LaneTyped
<1>2. \A off \in BOOLEAN : lane' = [lane EXCEPT !.off = off] /\ (lane.off => off) => SameLane
  BY <1>1, LaneSet DEF SameLane
<1>3. lane' = lane => SameLane
  BY <1>1 DEF SameLane
<1>4. lane.off \in BOOLEAN /\ batch.broken \in BOOLEAN
  BY <1>1 DEF ImportTyped, Batches, Lanes
<1>5. \A x : lane' = [lane EXCEPT !.off = @ \/ x] => SameLane
  <2> SUFFICES ASSUME NEW x, lane' = [lane EXCEPT !.off = @ \/ x] PROVE SameLane
    OBVIOUS
  <2>1. PICK off : off = (lane.off \/ x)
    OBVIOUS
  <2>2. lane' = [lane EXCEPT !.off = off] /\ off \in BOOLEAN /\ (lane.off => off)
    BY <2>1
  <2> QED BY <1>2, <2>2
<1>6. lane' = [lane EXCEPT !.off = TRUE] => SameLane
  BY <1>2
<1>7. ASSUME Plan \/ SkipBatch \/ RequestBatch \/ BatchBreaks \/ ReadEnd \/ CloseBatch PROVE SameLane
  BY <1>7, <1>3, <1>6
     DEF Plan, SkipBatch, RequestBatch, BatchBreaks, ReadEnd, CloseBatch
<1>8. ASSUME Discover PROVE SameLane
  BY <1>8, <1>3, <1>5 DEF Discover
<1>9. ASSUME EndBatch PROVE SameLane
  BY <1>9, <1>5 DEF EndBatch
<1>10. ASSUME Peer PROVE SameLane
  BY <1>10, <1>3 DEF Peer, PeerCredit, PeerJoins, PeerAborts, PeerOpens
<1>11. ASSUME NEW f \in Files, AcceptStream(f) \/ HandleFailed(f) \/ Receive(f) PROVE SameLane
  BY <1>11, <1>3 DEF AcceptStream, HandleFailed, Receive
<1>12. ASSUME Aside \/ Finish PROVE SameLane
  BY <1>12, <1>3, <1>6 DEF Aside, Finish, FinishImport
<1> QED BY <1>7, <1>8, <1>9, <1>10, <1>11, <1>12

(* A received file and a task of the books go to the end of the queue. *)
LEMMA QueueLane ==
  ASSUME LaneTyped, ImportTyped
  PROVE  /\ \A f \in Files : HandleReceived(f) =>
              \/ /\ ~Dead /\ Len(lane.queue) < QueueCap /\ Queues([kind |-> "stage", of |-> f])
                 /\ jobs' = [jobs EXCEPT !.staging = @ \union {f}]
                 /\ UNCHANGED <<book, scratch>>
              \/ Dead /\ UNCHANGED <<lane, jobs, peer>>
         /\ Enqueue =>
              \/ /\ ~Dead /\ Len(lane.queue) < QueueCap /\ jobs.next # <<>> /\ UNCHANGED step
                 /\ Queues(Head(jobs.next)) /\ Head(jobs.next) \in [kind : {"apply"}, of : All]
              \/ UNCHANGED lane
         /\ TakeReports => Emptied
<1>1. lane \in Lanes /\ lane.queue \in Seq(TaskSet) /\ <<>> \in Seq(EventSet)
  BY DEF LaneTyped, Lanes
<1>2. ASSUME NEW t \in TaskSet, lane' = [lane EXCEPT !.queue = Append(@, t)] PROVE Queues(t)
  <2>1. PICK q : q = Append(lane.queue, t)
    OBVIOUS
  <2>2. q \in Seq(TaskSet) /\ lane' = [lane EXCEPT !.queue = q]
    BY <1>1, <1>2, <2>1
  <2>3. /\ lane' \in Lanes /\ lane'.queue = q /\ lane'.tasks = lane.tasks
        /\ lane'.work = lane.work /\ lane'.events = lane.events /\ lane'.off = lane.off
    BY <1>1, <2>2, LaneSet
  <2> QED BY <2>1, <2>3 DEF Queues
<1>3. \A f \in Files : [kind |-> "stage", of |-> f] \in TaskSet
  BY DEF TaskSet
<1>4. ASSUME NEW f \in Files, HandleReceived(f)
      PROVE  \/ /\ ~Dead /\ Len(lane.queue) < QueueCap /\ Queues([kind |-> "stage", of |-> f])
                /\ jobs' = [jobs EXCEPT !.staging = @ \union {f}]
                /\ UNCHANGED <<book, scratch>>
             \/ Dead /\ UNCHANGED <<lane, jobs, peer>>
  <2>1. \/ /\ ~Dead /\ Len(lane.queue) < QueueCap
           /\ lane' = [lane EXCEPT !.queue = Append(@, [kind |-> "stage", of |-> f])]
           /\ jobs' = [jobs EXCEPT !.staging = @ \union {f}]
           /\ UNCHANGED <<book, scratch>>
        \/ Dead /\ UNCHANGED <<lane, jobs, peer>>
    BY <1>4 DEF HandleReceived
  <2> QED BY <1>2, <1>3, <2>1
<1>5. ASSUME jobs.next # <<>>
      PROVE  Head(jobs.next) \in [kind : {"apply"}, of : All] /\ Head(jobs.next) \in TaskSet
  <2>1. jobs.next \in Seq([kind : {"apply"}, of : All])
    BY DEF ImportTyped, JobSets
  <2>2. Head(jobs.next) \in [kind : {"apply"}, of : All]
    BY <1>5, <2>1, TailList
  <2> QED BY <2>2 DEF TaskSet
<1>6. ASSUME Enqueue
      PROVE  \/ /\ ~Dead /\ Len(lane.queue) < QueueCap /\ jobs.next # <<>> /\ UNCHANGED step
                /\ Queues(Head(jobs.next)) /\ Head(jobs.next) \in [kind : {"apply"}, of : All]
             \/ UNCHANGED lane
  <2>1. \/ /\ ~Dead /\ Len(lane.queue) < QueueCap /\ jobs.next # <<>> /\ UNCHANGED step
           /\ lane' = [lane EXCEPT !.queue = Append(@, Head(jobs.next))]
        \/ UNCHANGED lane
    BY <1>6 DEF Enqueue
  <2>2. PICK h : h = Head(jobs.next)
    OBVIOUS
  <2> QED BY <1>2, <1>5, <2>1, <2>2
<1>7. ASSUME TakeReports PROVE Emptied
  <2>1. lane' = [lane EXCEPT !.events = <<>>]
    BY <1>7 DEF TakeReports
  <2> QED BY <1>1, <2>1, LaneSet DEF Emptied
<1> QED BY <1>4, <1>6, <1>7

(* What the lane's own steps do to it, to the files and to the stores. *)
LEMMA LaneSteps ==
  ASSUME LaneTyped
  PROVE  /\ LaneStage => /\ Head(lane.tasks).of \in Files /\ Head(lane.tasks).kind = "stage"
                         /\ lane.tasks = <<Head(lane.tasks)>>
                         /\ scratch' = scratch \ {Head(lane.tasks).of}
                         /\ \E ok \in BOOLEAN :
                              /\ Reports([kind |-> "staged", of |-> Head(lane.tasks).of, ok |-> ok])
                              /\ [kind |-> "staged", of |-> Head(lane.tasks).of, ok |-> ok]
                                   \in EventSet
                              /\ staged' = IF ok THEN [staged EXCEPT ![Content[Head(lane.tasks).of]]
                                                         = @ \union {Head(lane.tasks).of}]
                                           ELSE staged
         /\ LaneApply => Becomes("skip") /\ lane.work = "do"
                         /\ \A t \in Range(lane.tasks) : t.kind = "apply"
         /\ LaneDies => Becomes("dead") /\ lane.work \in {"do", "skip"}
         /\ LaneReport => /\ \A t \in Range(lane.tasks) : t.kind = "apply"
                          /\ [kind |-> "applied", of |-> Of(lane.tasks)] \in EventSet
                          /\ Reports([kind |-> "applied", of |-> Of(lane.tasks)])
<1>1. lane \in Lanes
  BY DEF LaneTyped
<1>2. \A e \in EventSet : LaneDone(e) => Reports(e)
  BY <1>1, LaneSet DEF Reports
<1>3. \A w \in {"idle", "do", "skip", "dead"} : lane' = [lane EXCEPT !.work = w] => Becomes(w)
  BY <1>1, LaneSet DEF Becomes
<1>4. lane.work \in {"do", "skip"} => lane.tasks # <<>>
  BY DEF LaneTyped
<1>5. ASSUME LaneStage
      PROVE  /\ Head(lane.tasks).of \in Files /\ Head(lane.tasks).kind = "stage"
             /\ lane.tasks = <<Head(lane.tasks)>>
             /\ scratch' = scratch \ {Head(lane.tasks).of}
             /\ \E ok \in BOOLEAN :
                  /\ Reports([kind |-> "staged", of |-> Head(lane.tasks).of, ok |-> ok])
                  /\ [kind |-> "staged", of |-> Head(lane.tasks).of, ok |-> ok]
                       \in EventSet
                  /\ staged' = IF ok THEN [staged EXCEPT ![Content[Head(lane.tasks).of]]
                                             = @ \union {Head(lane.tasks).of}]
                               ELSE staged
  <2>1. Head(lane.tasks).kind = "stage" /\ lane.work \in {"do", "skip"}
    BY <1>5 DEF LaneStage
  <2>2. Head(lane.tasks) \in TaskSet /\ lane.tasks = <<Head(lane.tasks)>>
    BY <1>4, <2>1, InWork
  <2>3. Head(lane.tasks).of \in Files
    BY <2>1, <2>2, TaskIs
  <2>4. PICK f : f = Head(lane.tasks).of
    OBVIOUS
  <2>5. \A ok \in BOOLEAN : [kind |-> "staged", of |-> f, ok |-> ok] \in EventSet
    BY <2>3, <2>4 DEF EventSet
  <2>6. /\ scratch' = scratch \ {f}
        /\ \/ /\ staged' = [staged EXCEPT ![Content[f]] = @ \union {f}]
              /\ LaneDone([kind |-> "staged", of |-> f, ok |-> TRUE])
           \/ /\ LaneDone([kind |-> "staged", of |-> f, ok |-> FALSE])
              /\ UNCHANGED staged
    BY <1>5, <2>4 DEF LaneStage
  <2>7. \E ok \in BOOLEAN :
          /\ Reports([kind |-> "staged", of |-> f, ok |-> ok])
          /\ [kind |-> "staged", of |-> f, ok |-> ok] \in EventSet
          /\ staged' = IF ok THEN [staged EXCEPT ![Content[f]] = @ \union {f}] ELSE staged
    <3>1. CASE /\ staged' = [staged EXCEPT ![Content[f]] = @ \union {f}]
               /\ LaneDone([kind |-> "staged", of |-> f, ok |-> TRUE])
      BY <3>1, <1>2, <2>5
    <3>2. CASE LaneDone([kind |-> "staged", of |-> f, ok |-> FALSE]) /\ UNCHANGED staged
      BY <3>2, <1>2, <2>5
    <3> QED BY <2>6, <3>1, <3>2
  <2> QED BY <2>1, <2>2, <2>3, <2>4, <2>6, <2>7
<1>6. ASSUME LaneApply
      PROVE  Becomes("skip") /\ lane.work = "do" /\ \A t \in Range(lane.tasks) : t.kind = "apply"
  <2>1. lane.work = "do" /\ Head(lane.tasks).kind = "apply" /\ lane' = [lane EXCEPT !.work = "skip"]
    BY <1>6 DEF LaneApply
  <2> QED BY <1>3, <1>4, <2>1, InWork
<1>7. ASSUME LaneDies PROVE Becomes("dead") /\ lane.work \in {"do", "skip"}
  BY <1>3, <1>7 DEF LaneDies
<1>8. ASSUME LaneReport
      PROVE  /\ \A t \in Range(lane.tasks) : t.kind = "apply"
             /\ [kind |-> "applied", of |-> Of(lane.tasks)] \in EventSet
             /\ Reports([kind |-> "applied", of |-> Of(lane.tasks)])
  <2>1. lane.work = "skip" /\ Head(lane.tasks).kind = "apply"
        /\ LaneDone([kind |-> "applied", of |-> {t.of : t \in Range(lane.tasks)}])
    BY <1>8 DEF LaneReport
  <2>2. \A t \in Range(lane.tasks) : t.kind = "apply"
    BY <1>4, <2>1, InWork
  <2>3. lane.tasks \in Seq(TaskSet)
    BY <1>1 DEF Lanes
  <2>4. \A t \in Range(lane.tasks) : t \in TaskSet
    BY <2>3, RangeOfSeq
  <2>5. {t.of : t \in Range(lane.tasks)} = Of(lane.tasks)
    BY <2>2 DEF Of
  <2>6. {t.of : t \in Range(lane.tasks)} \in SUBSET All
    BY <2>2, <2>4, TaskIs
  <2>7. [kind |-> "applied", of |-> {t.of : t \in Range(lane.tasks)}] \in EventSet
    BY <2>6 DEF EventSet
  <2> QED BY <1>2, <2>1, <2>2, <2>5, <2>7
<1> QED BY <1>5, <1>6, <1>7, <1>8

(* The lane keeps its types, and its queue and its calls their bounds. *)
LEMMA LaneTypedKeeps ==
  ASSUME LaneTyped, ImportTyped, [Next]_vars
  PROVE  LaneTyped'
<1>1. ASSUME SameLane \/ Emptied PROVE LaneTyped'
  BY <1>1 DEF SameLane, Emptied, LaneTyped
<1>2. ASSUME NEW t \in TaskSet, Queues(t), Len(lane.queue) < QueueCap PROVE LaneTyped'
  <2>1. lane.queue \in Seq(TaskSet) /\ Len(lane.queue) \in Nat /\ QueueCap \in Nat
    BY CapsArePositive DEF CapsArePositive, LaneTyped, Lanes
  <2>2. Len(Append(lane.queue, t)) = Len(lane.queue) + 1
    BY <2>1
  <2>3. Len(lane'.queue) <= QueueCap
    BY <1>2, <2>1, <2>2 DEF Queues
  <2> QED BY <1>2, <2>3 DEF Queues, LaneTyped
<1>3. ASSUME NEW e \in EventSet, Reports(e) PROVE LaneTyped'
  <2>1. Len(<<>>) = 0 /\ Range(<<>>) = {} /\ ApplyMax \in Nat
    BY EmptyList, CapsArePositive DEF CapsArePositive
  <2> QED BY <1>3, <2>1 DEF Reports, LaneTyped
<1>4. ASSUME NEW w \in {"skip", "dead"}, lane.work \in {"do", "skip"}, Becomes(w) PROVE LaneTyped'
  BY <1>4 DEF Becomes, LaneTyped
<1>5. ASSUME Lane PROVE LaneTyped'
  <2>1. CASE Takes
    BY <2>1, TakesTyped
  <2>2. CASE LaneStage
    BY <2>2, <1>3, LaneSteps
  <2>3. CASE LaneApply \/ LaneDies
    BY <2>3, <1>4, LaneSteps
  <2>4. CASE LaneReport
    BY <2>4, <1>3, LaneSteps
  <2> QED BY <1>5, <2>1, <2>2, <2>3, <2>4 DEF Lane, Takes
<1>6. \A f \in Files : [kind |-> "stage", of |-> f] \in TaskSet
  BY DEF TaskSet
<1>7. [kind : {"apply"}, of : All] \subseteq TaskSet
  BY DEF TaskSet
<1>8. UNCHANGED lane => SameLane
  BY DEF SameLane, LaneTyped
<1>9. ASSUME NEW f \in Files, HandleReceived(f) PROVE LaneTyped'
  BY <1>9, <1>1, <1>2, <1>6, <1>8, QueueLane
<1>10. ASSUME Enqueue PROVE LaneTyped'
  BY <1>10, <1>1, <1>2, <1>7, <1>8, QueueLane
<1>11. ASSUME Session PROVE LaneTyped'
  <2>1. \A f \in Files : AcceptStream(f) \/ HandleReceived(f) \/ HandleFailed(f) => LaneTyped'
    BY <1>1, <1>9, SessionLane
  <2>2. (Plan \/ Discover \/ SkipBatch \/ RequestBatch \/ BatchBreaks \/ ReadEnd
         \/ TakeReports \/ CloseBatch \/ EndBatch \/ Enqueue) => LaneTyped'
    BY <1>1, <1>10, SessionLane, QueueLane
  <2> QED BY <1>11, <2>1, <2>2 DEF Session
<1>12. ASSUME Parts PROVE LaneTyped'
  <2>1. \A f \in Files : Receive(f) => LaneTyped'
    BY <1>1, SessionLane
  <2>2. Peer => LaneTyped'
    BY <1>1, SessionLane
  <2> QED BY <1>12, <1>5, <1>11, <2>1, <2>2 DEF Parts
<1> QED BY <1>1, <1>12, SessionLane, Kinds

-----------------------------------------------------------------------------
(* The records that the session writes.                                    *)

(* What a step of the session writes into the records of the import. *)
LEMMA JobsSet ==
  ASSUME jobs \in JobSets
  PROVE  /\ \A fs \in SUBSET Files : jobs' = [jobs EXCEPT !.staging = fs] =>
              /\ jobs' \in JobSets /\ jobs'.staging = fs /\ jobs'.next = jobs.next
              /\ jobs'.queued = jobs.queued /\ jobs'.refused = jobs.refused
         /\ \A s \in Seq([kind : {"apply"}, of : All]) : jobs' = [jobs EXCEPT !.next = s] =>
              /\ jobs' \in JobSets /\ jobs'.staging = jobs.staging /\ jobs'.next = s
              /\ jobs'.queued = jobs.queued /\ jobs'.refused = jobs.refused
<1>1. ASSUME NEW fs \in SUBSET Files, jobs' = [jobs EXCEPT !.staging = fs]
      PROVE  /\ jobs' \in JobSets /\ jobs'.staging = fs /\ jobs'.next = jobs.next
             /\ jobs'.queued = jobs.queued /\ jobs'.refused = jobs.refused
  BY <1>1 DEF JobSets
<1>2. ASSUME NEW s \in Seq([kind : {"apply"}, of : All]), jobs' = [jobs EXCEPT !.next = s]
      PROVE  /\ jobs' \in JobSets /\ jobs'.staging = jobs.staging /\ jobs'.next = s
             /\ jobs'.queued = jobs.queued /\ jobs'.refused = jobs.refused
  BY <1>2 DEF JobSets
<1> QED BY <1>1, <1>2

(* The tasks of the books b are to be enqueued. *)
Turns(b) == /\ book' = b /\ step' = "enqueue"
            /\ jobs' \in JobSets /\ jobs'.staging = jobs.staging /\ jobs'.next = Tasks(b)
            /\ jobs'.queued = jobs.queued /\ jobs'.refused = jobs.refused

(* ToEnqueue hands over the tasks of the books. *)
LEMMA ToEnqueueIs ==
  ASSUME ImportTyped, NEW b \in Books, ToEnqueue(b)
  PROVE  Turns(b)
<1>1. jobs \in JobSets
  BY DEF ImportTyped
<1>2. PICK s : s = Tasks(b)
  OBVIOUS
<1>3. s \in Seq([kind : {"apply"}, of : All])
  BY <1>2, TasksAre
<1>4. jobs' = [jobs EXCEPT !.next = s] /\ book' = b /\ step' = "enqueue"
  BY <1>2 DEF ToEnqueue
<1> QED BY <1>1, <1>2, <1>3, <1>4, JobsSet DEF Turns

(* The next task has gone to the lane, or has been refused. *)
LEMMA EnqueueIs ==
  ASSUME ImportTyped, Enqueue
  PROVE  LET h == Head(jobs.next)
         IN /\ step = "enqueue" /\ jobs' \in JobSets /\ jobs'.staging = jobs.staging
            /\ \/ /\ jobs.next # <<>> /\ ~Dead /\ step' = "enqueue" /\ h.of \in All
                  /\ lane' = [lane EXCEPT !.queue = Append(@, h)] /\ Len(lane.queue) < QueueCap
                  /\ jobs'.next = Tail(jobs.next) /\ jobs'.queued = jobs.queued \union {h.of}
                  /\ jobs'.refused = jobs.refused
               \/ /\ jobs.next # <<>> /\ Dead /\ step' = "enqueue" /\ h.of \in All
                  /\ lane' = lane
                  /\ jobs'.next = Tail(jobs.next) /\ jobs'.refused = jobs.refused \union {h.of}
                  /\ jobs'.queued = jobs.queued
               \/ jobs.next = <<>> /\ step' = "after" /\ UNCHANGED <<lane, jobs>>
<1> DEFINE s == jobs.next
<1>1. jobs \in JobSets /\ s \in Seq([kind : {"apply"}, of : All])
  BY DEF ImportTyped, JobSets
<1>2. ASSUME s # <<>>
      PROVE  /\ Tail(s) \in Seq([kind : {"apply"}, of : All]) /\ Head(s).of \in All
  <2> HIDE DEF s
  <2>1. Head(s) \in [kind : {"apply"}, of : All] /\ Tail(s) \in Seq([kind : {"apply"}, of : All])
    BY <1>1, <1>2, TailList
  <2> QED BY <2>1
<1>3. PICK h, t : h = Head(s).of /\ t = Tail(s)
  OBVIOUS
<1>4. CASE /\ s # <<>> /\ ~Dead /\ Len(lane.queue) < QueueCap
           /\ lane' = [lane EXCEPT !.queue = Append(@, Head(s))]
           /\ jobs' = [jobs EXCEPT !.next = Tail(@), !.queued = @ \union {Head(s).of}]
           /\ UNCHANGED step
  <2>1. h \in All /\ t \in Seq([kind : {"apply"}, of : All])
    BY <1>2, <1>3, <1>4
  <2>2. jobs' = [jobs EXCEPT !.next = t, !.queued = @ \union {h}]
    BY <1>3, <1>4
  <2>3. /\ jobs' \in JobSets /\ jobs'.staging = jobs.staging /\ jobs'.next = t
        /\ jobs'.queued = jobs.queued \union {h} /\ jobs'.refused = jobs.refused
    <3> HIDE DEF s
    <3> QED BY <1>1, <2>1, <2>2 DEF JobSets
  <2>4. step = "enqueue"
    BY DEF Enqueue
  <2> QED BY <1>3, <1>4, <2>1, <2>3, <2>4
<1>5. CASE /\ s # <<>> /\ Dead
           /\ jobs' = [jobs EXCEPT !.next = Tail(@), !.refused = @ \union {Head(s).of}]
           /\ UNCHANGED <<step, lane>>
  <2>1. h \in All /\ t \in Seq([kind : {"apply"}, of : All])
    BY <1>2, <1>3, <1>5
  <2>2. jobs' = [jobs EXCEPT !.next = t, !.refused = @ \union {h}]
    BY <1>3, <1>5
  <2>3. /\ jobs' \in JobSets /\ jobs'.staging = jobs.staging /\ jobs'.next = t
        /\ jobs'.refused = jobs.refused \union {h} /\ jobs'.queued = jobs.queued
    <3> HIDE DEF s
    <3> QED BY <1>1, <2>1, <2>2 DEF JobSets
  <2>4. step = "enqueue"
    BY DEF Enqueue
  <2> QED BY <1>3, <1>5, <2>1, <2>3, <2>4
<1>6. CASE s = <<>> /\ step' = "after" /\ UNCHANGED <<lane, jobs>>
  BY <1>1, <1>6 DEF Enqueue
<1> QED BY <1>4, <1>5, <1>6 DEF Enqueue

(* Credit was granted for what is active and to be staged from now on, or   *)
(* the batch is over.                                                       *)
Grants(active, staging) ==
  \E give \in SUBSET Files :
    /\ window' \in Windows /\ window'.active = active \union give
    /\ Bytes(window'.active \union staging) <= ByteBudget
    /\ peer' \in Peers /\ peer'.does = peer.does /\ peer'.left = peer.left
    /\ peer'.sending = peer.sending /\ peer'.outbox = peer.outbox
    /\ peer'.inbox = peer.inbox \/ peer'.inbox = Append(peer.inbox, give)
    /\ batch' \in Batches /\ (batch.broken => batch'.broken)

(* GrantCredit grants credit. *)
LEMMA Granting ==
  ASSUME ImportTyped, NEW active \in SUBSET Files, NEW staging \in SUBSET Files,
         Bytes(active \union staging) <= ByteBudget,
         GrantCredit(window.queue, active, staging)
  PROVE  Grants(active, staging)
<1>1. /\ size \in [Files -> Nat] /\ window.queue \in Seq(Files)
      /\ batch \in [ended : BOOLEAN, broken : BOOLEAN]
      /\ peer \in [does : {"idle", "credit", "stream", "over"}, left : SUBSET Files,
                   sending : SUBSET Files, inbox : Seq(SUBSET Files),
                   outbox : {<<>>, <<"end">>, <<"abort">>}]
  BY DEF ImportTyped, Windows, Batches, Peers
<1>2. PICK give \in SUBSET Files :
           /\ window' \in [queue : Seq(Files), active : SUBSET Files]
           /\ window'.active = active \union give
           /\ Bytes(window'.active \union staging) <= ByteBudget
           /\ \/ peer' = peer
              \/ peer' = [peer EXCEPT !.inbox = Append(@, give)]
           /\ \E bad \in BOOLEAN : batch' = [batch EXCEPT !.broken = @ \/ bad]
  BY <1>1, GrantCreditIs
<1>3. batch' \in Batches /\ (batch.broken => batch'.broken)
  <2>1. PICK bad \in BOOLEAN : batch' = [batch EXCEPT !.broken = @ \/ bad]
    BY <1>2
  <2>2. PICK b : b = (batch.broken \/ bad)
    OBVIOUS
  <2>3. b \in BOOLEAN /\ batch' = [batch EXCEPT !.broken = b]
    BY <1>1, <2>1, <2>2
  <2> QED BY <1>1, <2>2, <2>3 DEF Batches
<1>4. /\ peer' \in Peers /\ peer'.does = peer.does /\ peer'.left = peer.left
      /\ peer'.sending = peer.sending /\ peer'.outbox = peer.outbox
      /\ peer'.inbox = peer.inbox \/ peer'.inbox = Append(peer.inbox, give)
  <2>1. CASE peer' = peer
    BY <1>1, <2>1 DEF Peers
  <2>2. CASE peer' = [peer EXCEPT !.inbox = Append(@, give)]
    <3>1. PICK s : s = Append(peer.inbox, give)
      OBVIOUS
    <3>2. s \in Seq(SUBSET Files) /\ peer' = [peer EXCEPT !.inbox = s]
      BY <1>1, <2>2, <3>1
    <3>3. /\ peer' \in Peers /\ peer'.does = peer.does /\ peer'.left = peer.left
          /\ peer'.sending = peer.sending /\ peer'.outbox = peer.outbox /\ peer'.inbox = s
      BY <1>1, <3>2 DEF Peers
    <3> QED BY <3>1, <3>3
  <2> QED BY <1>2, <2>1, <2>2
<1> QED BY <1>2, <1>3, <1>4 DEF Grants, Windows

(* Fewer files weigh no more. *)
LEMMA Lighter ==
  ASSUME size \in [Files -> Nat], NEW A \in SUBSET Files, NEW B \in SUBSET Files, A \subseteq B,
         Bytes(B) <= ByteBudget
  PROVE  Bytes(A) <= ByteBudget
<1>1. Bytes(A) \in Nat /\ Bytes(B) \in Nat /\ Bytes(A) <= Bytes(B)
  BY WeightBounds, FilesAreFinite DEF Bytes
<1>2. ByteBudget \in Nat
  BY BoundsAreNatural DEF BoundsAreNatural
<1> QED BY <1>1, <1>2

(* Handing over a received file, or the end of a failed one, or a look at   *)
(* the reports of the lane grants the credit that this frees.               *)
LEMMA FreedCredit ==
  ASSUME ImportTyped, CreditInv
  PROVE  /\ \A f \in Files : HandleReceived(f) =>
              \/ /\ ~Dead
                 /\ \/ step = "drain" /\ UNCHANGED <<window, peer, batch>>
                    \/ Grants(window.active \ {f}, jobs.staging \union {f})
              \/ /\ Dead /\ book' = Recorded(book, f, FALSE) /\ scratch' = scratch \ {f}
                 /\ UNCHANGED <<jobs, peer>>
                 /\ window' \in Windows /\ batch' \in Batches /\ batch'.broken
         /\ \A f \in Files : HandleFailed(f) =>
              \/ /\ (step = "drain" \/ stream[f] # "failed") /\ UNCHANGED <<window, peer>>
                 /\ batch' = batch \/ (stream[f] = "unread" /\ batch' \in Batches /\ batch'.broken)
              \/ stream[f] = "failed" /\ Grants(window.active \ {f}, jobs.staging)
         /\ TakeReports =>
              \/ step = "drain" /\ UNCHANGED <<window, peer, batch>>
              \/ Grants(window.active, Unreported)
<1>1. /\ size \in [Files -> Nat] /\ window.active \in SUBSET Files /\ jobs.staging \in SUBSET Files
      /\ window \in Windows /\ batch \in Batches
  BY DEF ImportTyped, Windows, JobSets
<1>2. step = "batch" /\ ~batch.broken => Bytes(window.active \union jobs.staging) <= ByteBudget
  BY DEF CreditInv, Batching
<1>3. ASSUME NEW f \in Files, HandleReceived(f)
      PROVE  \/ /\ ~Dead
                /\ \/ step = "drain" /\ UNCHANGED <<window, peer, batch>>
                   \/ Grants(window.active \ {f}, jobs.staging \union {f})
             \/ /\ Dead /\ book' = Recorded(book, f, FALSE) /\ scratch' = scratch \ {f}
                /\ UNCHANGED <<jobs, peer>>
                /\ window' \in Windows /\ batch' \in Batches /\ batch'.broken
  <2>1. CASE Dead
    <3>1. /\ book' = Recorded(book, f, FALSE) /\ scratch' = scratch \ {f}
          /\ UNCHANGED <<jobs, peer>>
          /\ window' = [window EXCEPT !.active = @ \ {f}]
          /\ batch' = [batch EXCEPT !.broken = TRUE]
      BY <1>3, <2>1 DEF HandleReceived
    <3>2. batch' \in Batches /\ batch'.broken
      BY <1>1, <3>1 DEF Batches
    <3>3. window' \in Windows
      <4>1. PICK a : a = window.active \ {f}
        OBVIOUS
      <4>2. a \in SUBSET Files /\ window' = [window EXCEPT !.active = a]
        BY <1>1, <3>1, <4>1
      <4> QED BY <1>1, <4>2 DEF Windows
    <3> QED BY <2>1, <3>1, <3>2, <3>3
  <2>2. CASE ~Dead
    <3>1. /\ Batching \/ step = "drain"
          /\ IF step = "drain" THEN UNCHANGED <<window, peer, batch>>
             ELSE GrantCredit(window.queue, window.active \ {f}, jobs.staging \union {f})
      BY <1>3, <2>2 DEF HandleReceived
    <3>2. CASE step = "drain"
      BY <2>2, <3>1, <3>2
    <3>3. CASE step # "drain"
      <4> DEFINE A == window.active \ {f}
                 B == jobs.staging \union {f}
      <4>1. Bytes(window.active \union jobs.staging) <= ByteBudget /\ GrantCredit(window.queue, A, B)
        BY <1>2, <3>1, <3>3 DEF Batching
      <4>2. f \in window.active
        BY <1>3, <3>1, <3>3 DEF CreditInv, HandleReceived, Arriving
      <4>3. A \union B \subseteq window.active \union jobs.staging
            /\ window.active \union jobs.staging \in SUBSET Files
        BY <1>1, <4>2
      <4>4. A \in SUBSET Files /\ B \in SUBSET Files /\ A \union B \in SUBSET Files
        BY <1>1
      <4>5. Bytes(A \union B) <= ByteBudget
        <5> HIDE DEF A, B
        <5> QED BY <1>1, <4>1, <4>3, <4>4, Lighter
      <4>6. Grants(A, B)
        <5> HIDE DEF A, B
        <5> QED BY <4>1, <4>4, <4>5, Granting
      <4> QED BY <2>2, <4>6
    <3> QED BY <3>2, <3>3
  <2> QED BY <2>1, <2>2
<1>4. ASSUME NEW f \in Files, HandleFailed(f)
      PROVE  \/ /\ (step = "drain" \/ stream[f] # "failed") /\ UNCHANGED <<window, peer>>
                /\ batch' = batch \/ (stream[f] = "unread" /\ batch' \in Batches /\ batch'.broken)
             \/ stream[f] = "failed" /\ Grants(window.active \ {f}, jobs.staging)
  <2>1. /\ Batching \/ step = "drain"
        /\ IF stream[f] = "failed" /\ step # "drain"
           THEN GrantCredit(window.queue, window.active \ {f}, jobs.staging)
           ELSE /\ batch' = [batch EXCEPT !.broken = @ \/ stream[f] = "unread"]
                /\ UNCHANGED <<window, peer>>
    BY <1>4 DEF HandleFailed
  <2>2. CASE step = "drain" \/ stream[f] # "failed"
    <3>1. batch' = [batch EXCEPT !.broken = @ \/ stream[f] = "unread"] /\ UNCHANGED <<window, peer>>
      BY <2>1, <2>2
    <3>2. CASE stream[f] = "unread"
      BY <1>1, <2>2, <3>1, <3>2 DEF Batches
    <3>3. CASE stream[f] # "unread"
      <4>1. batch.broken \in BOOLEAN /\ batch' = [batch EXCEPT !.broken = batch.broken]
        BY <1>1, <3>1, <3>3 DEF Batches
      <4>2. batch' = batch
        BY <1>1, <4>1 DEF Batches
      <4> QED BY <2>2, <3>1, <4>2
    <3> QED BY <3>2, <3>3
  <2>3. CASE ~(step = "drain" \/ stream[f] # "failed")
    <3> DEFINE A == window.active \ {f}
    <3>1. /\ Bytes(window.active \union jobs.staging) <= ByteBudget
          /\ GrantCredit(window.queue, A, jobs.staging)
      BY <1>2, <2>1, <2>3 DEF Batching
    <3>2. /\ A \union jobs.staging \subseteq window.active \union jobs.staging
          /\ window.active \union jobs.staging \in SUBSET Files
          /\ A \in SUBSET Files /\ A \union jobs.staging \in SUBSET Files
      BY <1>1
    <3> HIDE DEF A
    <3>3. Bytes(A \union jobs.staging) <= ByteBudget
      BY <1>1, <3>1, <3>2, Lighter
    <3>4. Grants(A, jobs.staging)
      BY <1>1, <3>1, <3>2, <3>3, Granting
    <3> QED BY <2>3, <3>4 DEF A
  <2> QED BY <2>2, <2>3
<1>5. ASSUME TakeReports
      PROVE  \/ step = "drain" /\ UNCHANGED <<window, peer, batch>>
             \/ Grants(window.active, Unreported)
  <2>1. /\ Batching \/ step = "drain"
        /\ IF step = "drain" THEN UNCHANGED <<window, peer, batch>>
           ELSE GrantCredit(window.queue, window.active, Unreported)
    BY <1>5 DEF TakeReports
  <2>2. CASE step = "drain"
    BY <2>1, <2>2
  <2>3. CASE step # "drain"
    <3>1. Bytes(window.active \union jobs.staging) <= ByteBudget
          /\ GrantCredit(window.queue, window.active, Unreported)
      BY <1>2, <2>1, <2>3 DEF Batching
    <3>2. /\ window.active \union Unreported \subseteq window.active \union jobs.staging
          /\ window.active \union jobs.staging \in SUBSET Files
          /\ Unreported \in SUBSET Files /\ window.active \union Unreported \in SUBSET Files
      BY <1>1 DEF Unreported
    <3>3. Bytes(window.active \union Unreported) <= ByteBudget
      BY <1>1, <3>1, <3>2, Lighter
    <3> QED BY <1>1, <3>1, <3>2, <3>3, Granting
  <2> QED BY <2>2, <2>3
<1> QED BY <1>3, <1>4, <1>5

(* The plan lists what has not failed; a run that is called off plans nothing. *)
LEMMA PlanIs ==
  ASSUME ImportTyped, Plan
  PROVE  /\ step = "plan"
         /\ \/ Cancelled /\ step' = "after" /\ UNCHANGED <<book, results>>
            \/ /\ step' = "discover" /\ book' \in Books
               /\ book'.awaited = book.awaited /\ book'.spoiled = book.spoiled
               /\ book'.done = book.done /\ book'.ready = book.ready /\ book'.tombs = book.tombs
               /\ IsInjective(book'.left)
               /\ \E failed \in SUBSET All :
                    /\ results' = [p \in All |-> IF p \in failed THEN 1 ELSE 0]
                    /\ Range(book'.left) = All \ failed
<1>1. CASE Cancelled
  BY <1>1 DEF Plan
<1>2. CASE ~Cancelled
  <2>1. step = "plan" /\ step' = "discover"
    BY <1>2 DEF Plan
  <2>2. PICK failed \in SUBSET All :
          /\ results' = [p \in All |-> IF p \in failed THEN 1 ELSE 0]
          /\ book' = [book EXCEPT !.left = Keep(Projects \o Tombstones, All \ failed)]
    BY <1>2 DEF Plan
  <2>3. PICK l : l = Keep(Projects \o Tombstones, All \ failed)
    OBVIOUS
  <2>4. /\ Projects \o Tombstones \in Seq(All) /\ IsInjective(Projects \o Tombstones)
        /\ Range(Projects \o Tombstones) = All
    BY Offers, ConcatList DEF All
  <2>5. l \in Seq(All) /\ Range(l) = All \ failed /\ IsInjective(l)
    <3>1. /\ l \in Seq(All) /\ IsInjective(l)
          /\ Range(l) = Range(Projects \o Tombstones) \intersect (All \ failed)
      BY <2>3, <2>4, KeepIs
    <3> QED BY <2>4, <3>1
  <2>6. book' = [book EXCEPT !.left = l] /\ book \in Books
    BY <2>2, <2>3 DEF ImportTyped
  <2>7. /\ book' \in Books /\ book'.left = l
        /\ book'.awaited = book.awaited /\ book'.spoiled = book.spoiled
        /\ book'.done = book.done /\ book'.ready = book.ready /\ book'.tombs = book.tombs
    BY <2>5, <2>6 DEF Books
  <2> QED BY <2>1, <2>2, <2>5, <2>7
<1> QED BY <1>1, <1>2

(* The next project is found to need what is not staged, or a deletion.    *)
Found(p) ==
  \/ /\ p \in Range(Tombstones)
     /\ book'.tombs = book.tombs \/ book'.tombs = Append(book.tombs, p)
     /\ book'.left = Tail(book.left) /\ book'.ready = book.ready
     /\ book'.awaited = book.awaited /\ book'.spoiled = book.spoiled
     /\ book'.done = book.done
  \/ \E a \in Books, unreadable \in SUBSET Needs(p) :
     /\ p \notin Range(Tombstones)
     /\ a.left = Tail(book.left) /\ a.ready = book.ready /\ a.tombs = book.tombs
     /\ a.done = book.done
     /\ a.awaited = book.awaited \union ({f \in Needs(p) : staged[Content[f]] = {}} \ unreadable)
     /\ a.spoiled = IF unreadable = {} THEN book.spoiled ELSE book.spoiled \union {p}
     /\ book' = WithReady(a)

(* What Discover does. *)
LEMMA DiscoverIs ==
  ASSUME ImportTyped, Discover
  PROVE  /\ step = "discover" /\ book' \in Books
         /\ \/ /\ book.left = <<>> \/ Cancelled
               /\ step' = "request" /\ UNCHANGED book
            \/ step' = "discover" /\ book.left # <<>> /\ Found(Head(book.left))
<1>1. book \in Books /\ book.left \in Seq(All) /\ book.tombs \in Seq(All)
  BY DEF ImportTyped, Books
<1>2. CASE book.left = <<>> \/ Cancelled
  BY <1>1, <1>2 DEF Discover
<1>3. CASE ~(book.left = <<>> \/ Cancelled)
  <2> DEFINE p == Head(book.left)
  <2>1. p \in All /\ Tail(book.left) \in Seq(All)
    BY <1>1, <1>3, TailList
  <2>2. PICK t : t = Tail(book.left)
    OBVIOUS
  <2>3. step' = "discover" /\ step = "discover"
    BY <1>3 DEF Discover
  <2>4. PICK unreadable \in SUBSET Needs(p), named \in BOOLEAN :
               book' = DiscoverOne(p, unreadable, named)
    BY <1>3 DEF Discover
  <2>5. Needs(p) \subseteq Files
    BY DEF Needs
  <2> HIDE DEF p
  <2>6. CASE p \in Range(Tombstones)
    <3>1. PICK u : u = IF named THEN Append(book.tombs, p) ELSE book.tombs
      OBVIOUS
    <3>2. u \in Seq(All)
      BY <1>1, <2>1, <3>1
    <3>3. book' = [book EXCEPT !.left = t, !.tombs = u]
      BY <2>2, <2>4, <2>6, <3>1 DEF DiscoverOne
    <3>4. /\ book' \in Books /\ book'.left = t /\ book'.tombs = u
          /\ book'.ready = book.ready
          /\ book'.awaited = book.awaited /\ book'.spoiled = book.spoiled
          /\ book'.done = book.done
      BY <1>1, <2>1, <2>2, <3>2, <3>3 DEF Books
    <3>5. Found(p)
      BY <2>2, <2>6, <3>1, <3>4 DEF Found
    <3> QED BY <1>3, <2>3, <3>4, <3>5 DEF p
  <2>7. CASE p \notin Range(Tombstones)
    <3>1. PICK lacking : lacking = {f \in Needs(p) : staged[Content[f]] = {}}
      OBVIOUS
    <3>2. PICK aw : aw = book.awaited \union (lacking \ unreadable)
      OBVIOUS
    <3>3. PICK sp : sp = IF unreadable = {} THEN book.spoiled ELSE book.spoiled \union {p}
      OBVIOUS
    <3>4. PICK a : a = [book EXCEPT !.left = t, !.awaited = aw, !.spoiled = sp]
      OBVIOUS
    <3>5. aw \in SUBSET Files /\ sp \in SUBSET All
      BY <1>1, <2>1, <2>5, <3>1, <3>2, <3>3 DEF Books
    <3>6. /\ a \in Books /\ a.left = t /\ a.ready = book.ready /\ a.tombs = book.tombs
          /\ a.done = book.done /\ a.awaited = aw /\ a.spoiled = sp
      BY <1>1, <2>1, <2>2, <3>4, <3>5 DEF Books
    <3>7. a = [book EXCEPT !.left = Tail(@), !.awaited = @ \union (lacking \ unreadable),
                           !.spoiled = IF unreadable = {} THEN @ ELSE @ \union {p}]
      BY <2>2, <3>2, <3>3, <3>4
    <3>8. book' = WithReady(a)
      BY <2>4, <2>7, <3>1, <3>7 DEF DiscoverOne
    <3>9. Found(p)
      BY <2>2, <2>7, <3>1, <3>2, <3>3, <3>6, <3>8 DEF Found
    <3>10. book' \in Books
      BY <3>6, <3>8, WithReadyIs
    <3> QED BY <1>3, <2>3, <3>9, <3>10 DEF p
  <2> QED BY <2>6, <2>7
<1> QED BY <1>2, <1>3

(* The steps that neither plan nor discover. *)
Handles == \E f \in Files : AcceptStream(f) \/ HandleReceived(f) \/ HandleFailed(f)
Rest == \/ SkipBatch \/ RequestBatch \/ BatchBreaks \/ ReadEnd \/ TakeReports \/ CloseBatch
        \/ EndBatch \/ Enqueue \/ Handles
        \/ Lane \/ Peer \/ \E f \in Files : Receive(f)

(* A part of the import plans, discovers, or is one of the rest. *)
LEMMA PartsAre ==
  ASSUME Parts
  PROVE  /\ Plan \/ Discover \/ Rest
         /\ phase = "import" \/ Lane \/ Peer \/ \E f \in Files : Receive(f)
         /\ UNCHANGED <<runVars, powerVars>>
BY DEF Parts, Session, Rest, Handles

(* They keep what the books say, or record what has arrived and failed. *)
LEMMA BookSteps ==
  ASSUME ImportTyped, LaneTyped
  PROVE  /\ SkipBatch => Turns(book) \/ (Cancelled /\ step' = "after" /\ UNCHANGED <<book, jobs>>)
         /\ RequestBatch => \/ step' = "batch" /\ ~Cancelled /\ UNCHANGED <<book, jobs, lane>>
                            \/ Turns(AllFailed(book))
         /\ EndBatch => Turns(AllFailed(book))
         /\ \A f \in Files : HandleFailed(f) =>
               book' = IF stream[f] = "failed" THEN Recorded(book, f, FALSE) ELSE book
         /\ \A f \in Files : HandleReceived(f) =>
               book' = book \/ (Dead /\ book' = Recorded(book, f, FALSE))
         /\ TakeReports => book' = AllRecorded(book, lane.events)
         /\ Rest => BookKept(book, book') /\ UNCHANGED results
<1>1. book \in Books /\ lane.events \in Seq(EventSet)
  BY DEF ImportTyped, LaneTyped, Lanes
<1>2. /\ BookKept(book, book)
      /\ BookKept(book, AllFailed(book)) /\ AllFailed(book) \in Books
      /\ BookKept(book, AllRecorded(book, lane.events))
      /\ \A f \in Files : BookKept(book, Recorded(book, f, FALSE))
  <2>1. BookKept(book, AllFailed(book)) /\ BookKept(book, AllRecorded(book, lane.events))
    BY <1>1, AllFailedIs, AllRecordedIs
  <2>2. BookKept(book, book) /\ \A f \in Files : BookKept(book, Recorded(book, f, FALSE))
    BY <1>1, RecordedIs, KeptTrans
  <2> QED BY <2>1, <2>2 DEF BookKept
<1>3. UNCHANGED book => BookKept(book, book')
  <2> SUFFICES ASSUME book' = book PROVE BookKept(book, book')
    OBVIOUS
  <2> QED BY <1>1 DEF BookKept
<1>4. \A b \in Books : Turns(b) => book' = b
  BY DEF Turns
<1>5. ASSUME SkipBatch
      PROVE  /\ Turns(book) \/ (Cancelled /\ step' = "after" /\ UNCHANGED <<book, jobs>>)
             /\ UNCHANGED book /\ UNCHANGED results
  <2>1. ToEnqueue(book) \/ (Cancelled /\ step' = "after" /\ UNCHANGED <<book, jobs>>)
    BY <1>5 DEF SkipBatch
  <2>2. Turns(book) \/ (Cancelled /\ step' = "after" /\ UNCHANGED <<book, jobs>>)
    BY <1>1, <2>1, ToEnqueueIs
  <2>3. UNCHANGED results
    BY <1>5 DEF SkipBatch
  <2> QED BY <2>2, <2>3 DEF Turns
<1>6. ASSUME RequestBatch
      PROVE  /\ \/ step' = "batch" /\ ~Cancelled /\ UNCHANGED <<book, jobs, lane>>
                \/ Turns(AllFailed(book))
             /\ UNCHANGED results
  <2>1. \/ step' = "batch" /\ ~Cancelled /\ UNCHANGED <<book, jobs, lane>>
        \/ ToEnqueue(AllFailed(book))
    BY <1>6 DEF RequestBatch
  <2>2. UNCHANGED results
    BY <1>6 DEF RequestBatch
  <2> QED BY <1>2, <2>1, <2>2, ToEnqueueIs
<1>7. ASSUME EndBatch PROVE Turns(AllFailed(book)) /\ UNCHANGED results
  <2>1. ToEnqueue(AllFailed(book)) /\ UNCHANGED results
    BY <1>7 DEF EndBatch
  <2> QED BY <1>2, <2>1, ToEnqueueIs
<1>8. ASSUME NEW f \in Files, HandleFailed(f)
      PROVE  /\ book' = IF stream[f] = "failed" THEN Recorded(book, f, FALSE) ELSE book
             /\ UNCHANGED results
  BY <1>8 DEF HandleFailed
<1>9. ASSUME NEW f \in Files, HandleReceived(f)
      PROVE  /\ book' = book \/ (Dead /\ book' = Recorded(book, f, FALSE))
             /\ UNCHANGED results
  BY <1>9 DEF HandleReceived
<1>10. ASSUME TakeReports PROVE book' = AllRecorded(book, lane.events) /\ UNCHANGED results
  BY <1>10 DEF TakeReports
<1>11. ASSUME BatchBreaks \/ ReadEnd \/ CloseBatch \/ Enqueue PROVE UNCHANGED <<book, results>>
  BY <1>11 DEF BatchBreaks, ReadEnd, CloseBatch, Enqueue
<1>12. ASSUME NEW f \in Files, AcceptStream(f) \/ Receive(f) PROVE UNCHANGED <<book, results>>
  BY <1>12 DEF AcceptStream, Receive
<1>13. ASSUME Lane PROVE UNCHANGED <<book, results>>
  BY <1>13 DEF Lane, LaneTake, LaneCollect, LaneStage, LaneApply, LaneReport, LaneDies
<1>14. ASSUME Peer PROVE UNCHANGED <<book, results>>
  BY <1>14 DEF Peer, PeerCredit, PeerJoins, PeerAborts, PeerOpens
<1>15. ASSUME Handles PROVE BookKept(book, book') /\ UNCHANGED results
  <2>1. PICK f \in Files : AcceptStream(f) \/ HandleReceived(f) \/ HandleFailed(f)
    BY <1>15 DEF Handles
  <2>2. CASE AcceptStream(f)
    BY <2>2, <1>3, <1>12
  <2>3. CASE HandleReceived(f)
    BY <2>3, <1>2, <1>3, <1>9
  <2>4. CASE HandleFailed(f)
    BY <2>4, <1>2, <1>3, <1>8
  <2> QED BY <2>1, <2>2, <2>3, <2>4
<1>16. ASSUME Turns(book) \/ Turns(AllFailed(book)) PROVE BookKept(book, book')
  BY <1>2, <1>16 DEF Turns
<1>17. ASSUME Rest PROVE BookKept(book, book') /\ UNCHANGED results
  <2>1. CASE SkipBatch \/ RequestBatch \/ EndBatch
    BY <2>1, <1>3, <1>5, <1>6, <1>7, <1>16
  <2>2. CASE BatchBreaks \/ ReadEnd \/ CloseBatch \/ Enqueue \/ Lane \/ Peer
    BY <2>2, <1>3, <1>11, <1>13, <1>14
  <2>3. CASE TakeReports
    BY <2>3, <1>2, <1>10
  <2>4. CASE Handles
    BY <2>4, <1>15
  <2>5. CASE \E f \in Files : Receive(f)
    BY <2>5, <1>3, <1>12
  <2> QED BY <1>17, <2>1, <2>2, <2>3, <2>4, <2>5 DEF Rest
<1> QED BY <1>5, <1>6, <1>7, <1>8, <1>9, <1>10, <1>17

-----------------------------------------------------------------------------
(* The backend and the peer.                                               *)

(* A call of the backend keeps to the stores. *)
LEMMA CallTyped ==
  ASSUME NEW s \in Stores, NEW ps \in SUBSET All
  PROVE  Call(s, ps) \in Stores
<1> DEFINE gone == {p \in ps : \E f \in Needs(p) : s.staged[Content[f]] = {}}
           done == s.applied \union (ps \ gone)
           context == UNION {CleanupContext(p) : p \in ps \intersect Range(Projects)}
<1>1. /\ s.staged \in [Hashes -> SUBSET Files] /\ s.applied \in SUBSET All
      /\ s.missing \in SUBSET All
  BY DEF Stores
<1>2. /\ done \in SUBSET All /\ s.missing \union gone \in SUBSET All
  BY <1>1
<1>3. Cleaned(s.staged, context, done) \in [Hashes -> SUBSET Files]
  <2> HIDE DEF context, done
  <2> QED BY <1>1 DEF Cleaned, Dereferenced
<1>4. Call(s, ps) = [staged |-> Cleaned(s.staged, context, done), applied |-> done,
                     missing |-> s.missing \union gone]
  BY DEF Call
<1> HIDE DEF gone, done, context
<1> QED BY <1>2, <1>3, <1>4 DEF Stores

(* So do its calls one by one. *)
LEMMA CallEachTyped ==
  ASSUME LaneTyped, \A t \in Range(lane.tasks) : t.kind = "apply", NEW s \in Stores, NEW ps
  PROVE  CallEach(s, ps) \in Stores
<1> DEFINE D == Range(lane.tasks)
           fn == [at \in Stores \X D |-> IF at[2].of \in ps THEN Call(at[1], {at[2].of}) ELSE at[1]]
           Good == Nat \X Stores
<1>1. /\ lane.tasks \in Seq(D) /\ Len(lane.tasks) \in Nat
      /\ \A t \in D : t.of \in All
  <2>1. lane.tasks \in Seq(TaskSet)
    BY DEF LaneTyped, Lanes
  <2>2. lane.tasks \in Seq(D) /\ Len(lane.tasks) \in Nat
    BY <2>1, SeqOfRange
  <2>3. \A t \in D : t \in TaskSet
    BY <2>1, RangeOfSeq
  <2> QED BY <2>2, <2>3, TaskIs
<1>2. ASSUME NEW r \in Stores, NEW t \in D
      PROVE  (IF t.of \in ps THEN Call(r, {t.of}) ELSE r) \in Stores
  <2>1. {t.of} \in SUBSET All
    BY <1>1
  <2> QED BY <2>1, CallTyped
<1>3. fn \in [Stores \X D -> Stores]
  <2>1. ASSUME NEW at \in Stores \X D
        PROVE  (IF at[2].of \in ps THEN Call(at[1], {at[2].of}) ELSE at[1]) \in Stores
    <3>1. at[1] \in Stores /\ at[2] \in D
      OBVIOUS
    <3> HIDE DEF D
    <3> QED BY <1>2, <3>1
  <2> QED BY <2>1
<1>4. CallEach(s, ps) = FoldBy(fn, s, lane.tasks)
  BY DEF CallEach
<1>5. ASSUME NEW n \in 1..Len(lane.tasks), NEW v \in Stores, <<n - 1, v>> \in Good
      PROVE  <<n, fn[<<v, lane.tasks[n]>>]>> \in Good
  <2>1. lane.tasks[n] \in D
    BY <1>1
  <2>2. fn[<<v, lane.tasks[n]>>] \in Stores
    <3> HIDE DEF fn, D
    <3> QED BY <1>3, <2>1
  <2> QED BY <2>2
<1>6. FoldBy(fn, s, lane.tasks) \in Stores
  <2>0. lane.tasks \in Seq(D) /\ <<0, s>> \in Good
    BY <1>1
  <2> HIDE DEF fn, Good, D
  <2>1. \A n \in 1..Len(lane.tasks), v \in Stores :
          <<n - 1, v>> \in Good => <<n, fn[<<v, lane.tasks[n]>>]>> \in Good
    BY <1>5
  <2> QED BY <1>3, <2>0, <2>1, FoldKeeps
<1> QED BY <1>4, <1>6

(* What LaneApply leaves in the stores: one call, or one per task. *)
Now  == [staged |-> staged, applied |-> applied, missing |-> missing]
Unspoiled == Of(lane.tasks) \ book.spoiled

(* LaneApply is a call for all, or one per task that it still has to apply, *)
(* or nothing when the run or the import was called off.                    *)
LEMMA LaneApplyIs ==
  ASSUME LaneTyped, ImportTyped, LaneApply
  PROVE  /\ Now \in Stores /\ Unspoiled \in SUBSET All
         /\ \/ UNCHANGED <<staged, applied, missing>>
            \/ \E then \in Stores :
                 /\ \/ then = Call(Now, Unspoiled)
                    \/ \E ps \in SUBSET Unspoiled : then = CallEach(Now, ps)
                 /\ staged' = then.staged /\ applied' = then.applied /\ missing' = then.missing
<1>1. \A t \in Range(lane.tasks) : t.kind = "apply"
  BY LaneSteps
<1>2. Of(lane.tasks) = {t.of : t \in Range(lane.tasks)}
  BY <1>1 DEF Of
<1>3. Now \in Stores
  BY DEF Now, Stores, ImportTyped
<1>4. Unspoiled \in SUBSET All
  <2>1. lane.tasks \in Seq(TaskSet)
    BY DEF LaneTyped, Lanes
  <2>2. \A t \in Range(lane.tasks) : t \in TaskSet
    BY <2>1, RangeOfSeq
  <2> QED BY <1>1, <1>2, <2>2, TaskIs DEF Unspoiled
<1>5. ASSUME ApplyTasks
      PROVE  \E then \in {Call(Now, Unspoiled)} \union {CallEach(Now, ps) : ps \in SUBSET Unspoiled} :
               staged' = then.staged /\ applied' = then.applied /\ missing' = then.missing
  BY <1>2, <1>5 DEF ApplyTasks, Now, Unspoiled
<1>7. ApplyTasks \/ UNCHANGED <<staged, applied, missing>>
  BY DEF LaneApply
<1>6. Call(Now, Unspoiled) \in Stores /\ \A ps \in SUBSET Unspoiled : CallEach(Now, ps) \in Stores
  BY <1>1, <1>3, <1>4, CallTyped, CallEachTyped
<1> QED BY <1>3, <1>4, <1>5, <1>6, <1>7

(* What the peer keeps of its session. *)
LEMMA PeerIs ==
  ASSUME ImportTyped
  PROVE  /\ PeerCredit => /\ peer' \in Peers /\ peer.inbox # <<>> /\ peer'.inbox = Tail(peer.inbox)
                          /\ peer'.sending = Head(peer.inbox) /\ peer'.does = "stream"
         /\ PeerJoins \/ PeerAborts => /\ peer' \in Peers /\ peer'.inbox = peer.inbox
                                       /\ peer'.sending = peer.sending
<1>1. peer \in Peers
  BY DEF ImportTyped
<1>2. ASSUME PeerCredit
      PROVE  /\ peer' \in Peers /\ peer.inbox # <<>> /\ peer'.inbox = Tail(peer.inbox)
             /\ peer'.sending = Head(peer.inbox) /\ peer'.does = "stream"
  <2>1. PICK s, h, l : s = Tail(peer.inbox) /\ h = Head(peer.inbox) /\ l = peer.left \ h
    OBVIOUS
  <2>2. peer.inbox # <<>> /\ peer.inbox \in Seq(SUBSET Files) /\ peer.left \in SUBSET Files
    BY <1>1, <1>2 DEF PeerCredit, Peers
  <2>3. s \in Seq(SUBSET Files) /\ h \in SUBSET Files /\ l \in SUBSET Files
    <3>1. s \in Seq(SUBSET Files) /\ h \in SUBSET Files
      BY <2>1, <2>2, TailList
    <3> QED BY <2>1, <2>2, <3>1
  <2>4. peer' = [peer EXCEPT !.does = "stream", !.inbox = s, !.sending = h, !.left = l]
    BY <1>2, <2>1 DEF PeerCredit
  <2>5. /\ peer' \in Peers /\ peer'.inbox = s /\ peer'.sending = h /\ peer'.does = "stream"
    BY <1>1, <2>3, <2>4 DEF Peers
  <2> QED BY <2>1, <2>2, <2>5
<1>3. ASSUME PeerJoins \/ PeerAborts
      PROVE  /\ peer' \in Peers /\ peer'.inbox = peer.inbox /\ peer'.sending = peer.sending
  <2>1. \/ \E o \in {<<"end">>, <<"abort">>} : peer' = [peer EXCEPT !.does = "over", !.outbox = o]
        \/ peer' = [peer EXCEPT !.does = "credit"]
    BY <1>3 DEF PeerJoins, PeerAborts
  <2> QED BY <1>1, <2>1 DEF Peers
<1> QED BY <1>2, <1>3

(* The batch that the peer has started: its first artifacts are credited.  *)
LEMMA StartIs ==
  ASSUME ImportTyped, RequestBatch, step' = "batch"
  PROVE  \E give \in SUBSET Files :
           /\ window' \in Windows /\ window'.active = give /\ Bytes(give) <= ByteBudget
           /\ peer' \in Peers /\ peer'.sending = peer.sending
           /\ peer'.inbox = <<>> \/ peer'.inbox = <<give>>
           /\ batch' \in Batches
<1> DEFINE q == Keep(Requests, book.awaited)
           g == Grantable(q, {}, {})
<1>0. Weight(size, {}) = 0 /\ size \in [Files -> Nat] /\ ByteBudget \in Nat
  <2>1. size \in [Files -> Nat] /\ {} \in SUBSET Files
    BY DEF ImportTyped
  <2> QED BY <2>1, WeightBounds, FilesAreFinite, BoundsAreNatural DEF BoundsAreNatural
<1>1. q \in Seq(Files)
  BY Offers, KeepIs
<1>2. Bytes({} \union {}) <= ByteBudget
  <2>1. {} \union {} = {}
    OBVIOUS
  <2>2. Bytes({}) = 0
    BY <1>0 DEF Bytes
  <2> QED BY <1>0, <2>1, <2>2
<1>3. /\ g.give \in SUBSET Files /\ g.rest \in Seq(Files) /\ g.fails \in BOOLEAN
      /\ Bytes(({} \union g.give) \union {}) <= ByteBudget
  <2>1. {} \in SUBSET Files
    OBVIOUS
  <2> HIDE DEF q
  <2> QED BY <1>0, <1>1, <1>2, <2>1, GrantFits
<1>4. ({} \union g.give) \union {} = g.give
  OBVIOUS
<1>5. /\ window' = [queue |-> g.rest, active |-> g.give]
      /\ peer' = [peer EXCEPT !.does = "credit", !.left = book.awaited,
                              !.inbox = IF g.give = {} THEN <<>> ELSE <<g.give>>]
      /\ batch' = [batch EXCEPT !.broken = g.fails]
  BY DEF RequestBatch, ToEnqueue
<1>6. PICK give, rest, fails : give = g.give /\ rest = g.rest /\ fails = g.fails
  OBVIOUS
<1> HIDE DEF g
<1>7. give \in SUBSET Files /\ rest \in Seq(Files) /\ fails \in BOOLEAN /\ Bytes(give) <= ByteBudget
  BY <1>3, <1>4, <1>6
<1>8. /\ peer \in Peers /\ batch \in Batches /\ book.awaited \in SUBSET Files
  BY DEF ImportTyped, Books
<1>9. window' = [queue |-> rest, active |-> give] /\ batch' = [batch EXCEPT !.broken = fails]
  BY <1>5, <1>6
<1>10. PICK i, l : i = (IF give = {} THEN <<>> ELSE <<give>>) /\ l = book.awaited
  OBVIOUS
<1>11. i \in Seq(SUBSET Files) /\ l \in SUBSET Files
  <2>1. <<>> \in Seq(SUBSET Files) /\ <<give>> \in Seq(SUBSET Files)
    BY <1>7
  <2> QED BY <1>8, <1>10, <2>1
<1>12. peer' = [peer EXCEPT !.does = "credit", !.left = l, !.inbox = i]
  BY <1>5, <1>6, <1>10
<1>13. peer' \in Peers /\ peer'.sending = peer.sending /\ peer'.inbox = i
  BY <1>8, <1>11, <1>12 DEF Peers
<1>14. window' \in Windows /\ window'.active = give
  BY <1>7, <1>9 DEF Windows
<1>15. batch' \in Batches
  BY <1>7, <1>8, <1>9 DEF Batches
<1> QED BY <1>7, <1>10, <1>13, <1>14, <1>15

-----------------------------------------------------------------------------
(* Types.                                                                  *)

(* The lane's own steps are typed. *)
LEMMA LaneImportTyped ==
  ASSUME ImportTyped, LaneTyped, Lane
  PROVE  ImportTyped'
<1>1. CASE Takes \/ LaneReport \/ LaneDies
  BY <1>1 DEF Takes, LaneTake, LaneCollect, LaneReport, LaneDies, ImportTyped
<1>2. CASE LaneStage
  <2>1. /\ Head(lane.tasks).of \in Files
        /\ scratch' = scratch \ {Head(lane.tasks).of}
        /\ \E ok \in BOOLEAN :
             staged' = IF ok THEN [staged EXCEPT ![Content[Head(lane.tasks).of]]
                                                         = @ \union {Head(lane.tasks).of}]
                                           ELSE staged
    BY <1>2, LaneSteps
  <2>2. scratch' \subseteq Files
    BY <2>1 DEF ImportTyped
  <2>3. staged' \in [Hashes -> SUBSET Files]
    <3>1. PICK f : f = Head(lane.tasks).of
      OBVIOUS
    <3>2. \/ staged' = [staged EXCEPT ![Content[f]] = @ \union {f}]
          \/ staged' = staged
      BY <2>1, <3>1
    <3>3. f \in Files /\ staged \in [Hashes -> SUBSET Files]
      BY <2>1, <3>1 DEF ImportTyped
    <3> QED BY <3>2, <3>3
  <2>4. UNCHANGED <<step, size, book, window, batch, stream, peer, jobs, applied, missing, results>>
    BY <1>2 DEF LaneStage
  <2> QED BY <2>2, <2>3, <2>4 DEF ImportTyped
<1>3. CASE LaneApply
  <2>1. \/ UNCHANGED <<staged, applied, missing>>
        \/ \E then \in Stores :
             staged' = then.staged /\ applied' = then.applied /\ missing' = then.missing
    BY <1>3, LaneApplyIs
  <2>2. staged' \in [Hashes -> SUBSET Files] /\ applied' \subseteq All /\ missing' \subseteq All
    BY <2>1 DEF Stores, ImportTyped
  <2>3. UNCHANGED <<step, size, book, window, batch, stream, peer, jobs, scratch, results>>
    BY <1>3 DEF LaneApply
  <2> QED BY <2>2, <2>3 DEF ImportTyped
<1> QED BY <1>1, <1>2, <1>3 DEF Lane, Takes

(* So are those of the streams. *)
LEMMA StreamTyped ==
  ASSUME ImportTyped, LaneTyped, CreditInv, NEW f \in Files,
         \/ AcceptStream(f) \/ HandleReceived(f)
         \/ HandleFailed(f) \/ Receive(f)
         \/ PeerOpens(f)
  PROVE  ImportTyped'
<1> USE DEF Streams
<1>1. CASE AcceptStream(f)
  BY <1>1 DEF AcceptStream, ImportTyped
<1>2. CASE Receive(f)
  BY <1>2 DEF Receive, ImportTyped
<1>3. CASE PeerOpens(f)
  BY <1>3 DEF PeerOpens, ImportTyped
<1>4. CASE HandleReceived(f)
  <2>1. /\ window' \in Windows /\ peer' \in Peers /\ batch' \in Batches
        /\ jobs' \in JobSets /\ book' \in Books /\ scratch' \subseteq Files
    <3>0. /\ window \in Windows /\ peer \in Peers /\ batch \in Batches /\ jobs \in JobSets
          /\ book \in Books /\ scratch \subseteq Files
      BY DEF ImportTyped
    <3>1. CASE Dead
      <4>1. /\ book' = Recorded(book, f, FALSE) /\ scratch' = scratch \ {f}
            /\ UNCHANGED <<jobs, peer>>
            /\ window' \in Windows /\ batch' \in Batches
        BY <1>4, <3>1, FreedCredit
      <4>2. book' \in Books
        BY <3>0, <4>1, RecordedIs DEF BookKept
      <4> QED BY <3>0, <4>1, <4>2
    <3>2. CASE ~Dead
      <4>1. \/ UNCHANGED <<window, peer, batch>>
            \/ Grants(window.active \ {f}, jobs.staging \union {f})
        BY <1>4, <3>2, FreedCredit
      <4>2. window' \in Windows /\ peer' \in Peers /\ batch' \in Batches
        BY <3>0, <4>1 DEF Grants
      <4>3. jobs' = [jobs EXCEPT !.staging = @ \union {f}] /\ UNCHANGED <<book, scratch>>
        BY <1>4, <3>2, QueueLane
      <4>4. PICK fs : fs = jobs.staging \union {f}
        OBVIOUS
      <4>5. fs \in SUBSET Files /\ jobs' = [jobs EXCEPT !.staging = fs]
        BY <3>0, <4>3, <4>4 DEF JobSets
      <4>6. jobs' \in JobSets
        BY <3>0, <4>5, JobsSet
      <4> QED BY <3>0, <4>2, <4>3, <4>6
    <3> QED BY <3>1, <3>2
  <2>2. /\ stream' = [stream EXCEPT ![f] = "handled"]
        /\ UNCHANGED <<step, size, staged, applied, missing, results>>
    BY <1>4 DEF HandleReceived
  <2> QED BY <2>1, <2>2 DEF ImportTyped
<1>5. CASE HandleFailed(f)
  <2>0. /\ window \in Windows /\ peer \in Peers /\ batch \in Batches /\ book \in Books
    BY DEF ImportTyped
  <2>1. /\ stream' = [stream EXCEPT ![f] = "handled"]
        /\ UNCHANGED <<step, size, jobs, scratch, staged, applied, missing, results>>
    BY <1>5 DEF HandleFailed
  <2>2. book' \in Books
    <3>1. Recorded(book, f, FALSE) \in Books
      BY <2>0, RecordedIs DEF BookKept
    <3>2. book' = book \/ book' = Recorded(book, f, FALSE)
      BY <1>5, BookSteps
    <3> QED BY <2>0, <3>1, <3>2
  <2>3. window' \in Windows /\ peer' \in Peers /\ batch' \in Batches
    <3>1. \/ UNCHANGED <<window, peer>> /\ (batch' = batch \/ batch' \in Batches)
          \/ Grants(window.active \ {f}, jobs.staging)
      BY <1>5, FreedCredit
    <3> QED BY <2>0, <3>1 DEF Grants
  <2> QED BY <2>1, <2>2, <2>3 DEF ImportTyped
<1> QED BY <1>1, <1>2, <1>3, <1>4, <1>5

(* And those that begin, follow and end the batch. *)
LEMMA SessionTyped ==
  ASSUME ImportTyped, LaneTyped, CreditInv, Session
  PROVE  ImportTyped'
<1>0. /\ window \in Windows /\ peer \in Peers /\ batch \in Batches /\ jobs \in JobSets
      /\ book \in Books /\ scratch \subseteq Files /\ results \in [All -> Nat]
  BY DEF ImportTyped
<1>1. CASE Plan
  <2>1. book' \in Books /\ results' \in [All -> Nat] /\ step' \in {"after", "discover"}
    <3>1. CASE UNCHANGED <<book, results>> /\ step' = "after"
      BY <1>0, <3>1
    <3>2. CASE /\ step' = "discover" /\ book' \in Books
               /\ \E failed \in SUBSET All :
                     results' = [p \in All |-> IF p \in failed THEN 1 ELSE 0]
      BY <3>2
    <3> QED BY <1>1, <3>1, <3>2, PlanIs
  <2>2. UNCHANGED <<size, window, batch, stream, peer, jobs, scratch, staged, applied, missing>>
    BY <1>1 DEF Plan
  <2> QED BY <2>1, <2>2 DEF ImportTyped
<1>2. CASE Discover
  <2>1. book' \in Books /\ step' \in {"request", "discover"}
    BY <1>2, DiscoverIs
  <2>2. UNCHANGED <<size, window, batch, stream, peer, jobs, scratch, staged, applied, missing, results>>
    BY <1>2 DEF Discover
  <2> QED BY <2>1, <2>2 DEF ImportTyped
<1>3. ASSUME Rest PROVE book' \in Books
  BY <1>3, BookSteps DEF BookKept
<1>4. CASE SkipBatch
  <2>1. jobs' \in JobSets /\ step' \in {"enqueue", "after"}
    BY <1>0, <1>4, BookSteps DEF Turns
  <2>2. UNCHANGED <<size, window, batch, stream, peer, scratch, staged, applied, missing, results>>
    BY <1>4 DEF SkipBatch
  <2>3. book' \in Books
    BY <1>3, <1>4 DEF Rest
  <2> QED BY <2>1, <2>2, <2>3 DEF ImportTyped
<1>5. CASE RequestBatch
  <2>1. jobs' \in JobSets /\ step' \in {"enqueue", "batch"}
    BY <1>0, <1>5, BookSteps DEF Turns
  <2>2. UNCHANGED <<size, stream, scratch, staged, applied, missing, results>>
    BY <1>5 DEF RequestBatch
  <2>3. book' \in Books
    BY <1>3, <1>5 DEF Rest
  <2>4. window' \in Windows /\ peer' \in Peers /\ batch' \in Batches
    <3>1. CASE step' = "batch"
      BY <1>5, <3>1, StartIs
    <3>2. CASE step' # "batch"
      <4>1. UNCHANGED <<window, peer, batch>>
        BY <1>5, <3>2 DEF RequestBatch
      <4> QED BY <1>0, <4>1
    <3> QED BY <3>1, <3>2
  <2> QED BY <2>1, <2>2, <2>3, <2>4 DEF ImportTyped
<1>6. CASE BatchBreaks \/ ReadEnd
  <2>1. batch' \in Batches
    BY <1>0, <1>6 DEF BatchBreaks, ReadEnd, Batches
  <2>2. UNCHANGED <<step, size, book, window, stream, peer, jobs, scratch, staged, applied, missing, results>>
    BY <1>6 DEF BatchBreaks, ReadEnd
  <2> QED BY <2>1, <2>2 DEF ImportTyped
<1>7. CASE TakeReports
  <2>1. book' \in Books
    BY <1>3, <1>7 DEF Rest
  <2>2. window' \in Windows /\ peer' \in Peers /\ batch' \in Batches
    <3>1. UNCHANGED <<window, peer, batch>> \/ Grants(window.active, Unreported)
      BY <1>7, FreedCredit
    <3> QED BY <1>0, <3>1 DEF Grants
  <2>3. jobs' \in JobSets
    <3>1. jobs' = [jobs EXCEPT !.staging = Unreported]
      BY <1>7 DEF TakeReports
    <3>2. Unreported \in SUBSET Files
      BY <1>0 DEF Unreported, JobSets
    <3> QED BY <1>0, <3>1, <3>2, JobsSet
  <2>4. UNCHANGED <<step, size, stream, scratch, staged, applied, missing, results>>
    BY <1>7 DEF TakeReports
  <2> QED BY <2>1, <2>2, <2>3, <2>4 DEF ImportTyped
<1>8. CASE CloseBatch
  <2>1. window' \in Windows
    <3>1. window' = window \/ window' = [queue |-> <<>>, active |-> {}]
      BY <1>8 DEF CloseBatch
    <3>2. [queue |-> <<>>, active |-> {}] \in Windows
      <4>1. <<>> \in Seq(Files)
        OBVIOUS
      <4> QED BY <4>1 DEF Windows
    <3> QED BY <1>0, <3>1, <3>2
  <2>2. step' = "drain"
        /\ UNCHANGED <<size, book, batch, stream, peer, jobs, scratch, staged, applied, missing, results>>
    BY <1>8 DEF CloseBatch
  <2> QED BY <2>1, <2>2 DEF ImportTyped
<1>9. CASE EndBatch
  <2>1. jobs' \in JobSets /\ step' = "enqueue"
    BY <1>9, BookSteps DEF Turns
  <2>2. book' \in Books
    BY <1>3, <1>9 DEF Rest
  <2>3. batch' \in Batches
    <3>1. PICK b : b = (batch.broken \/ jobs.staging # {})
      OBVIOUS
    <3>2. b \in BOOLEAN /\ batch' = [batch EXCEPT !.broken = b]
      BY <1>0, <1>9, <3>1 DEF EndBatch, Batches
    <3> QED BY <1>0, <3>2 DEF Batches
  <2>4. UNCHANGED <<size, window, stream, peer, scratch, staged, applied, missing, results>>
    BY <1>9 DEF EndBatch
  <2> QED BY <2>1, <2>2, <2>3, <2>4 DEF ImportTyped
<1>10. CASE Enqueue
  <2>1. jobs' \in JobSets /\ step' \in {"enqueue", "after"}
    BY <1>0, <1>10, EnqueueIs
  <2>2. UNCHANGED <<size, book, window, batch, stream, peer, scratch, staged, applied, missing, results>>
    BY <1>10 DEF Enqueue
  <2> QED BY <2>1, <2>2 DEF ImportTyped
<1>11. \A f \in Files : AcceptStream(f) \/ HandleReceived(f) \/ HandleFailed(f) => ImportTyped'
  BY StreamTyped
<1> QED BY <1>1, <1>2, <1>4, <1>5, <1>6, <1>7, <1>8, <1>9, <1>10, <1>11 DEF Session

(* And those of the peer's session. *)
LEMMA PeerTyped ==
  ASSUME ImportTyped, LaneTyped, CreditInv, Peer
  PROVE  ImportTyped'
<1>1. CASE PeerCredit \/ PeerJoins \/ PeerAborts
  <2>1. peer' \in Peers
    BY <1>1, PeerIs
  <2>2. UNCHANGED <<step, size, book, window, batch, stream, jobs, scratch, staged, applied, missing, results>>
    BY <1>1 DEF PeerCredit, PeerJoins, PeerAborts
  <2> QED BY <2>1, <2>2 DEF ImportTyped
<1>2. \A f \in Files : PeerOpens(f) => ImportTyped'
  BY StreamTyped
<1> QED BY <1>1, <1>2 DEF Peer

(* The variables of the import keep their types. *)
LEMMA ImportTypedKeeps ==
  ASSUME ImportTyped, LaneTyped, CreditInv, [Next]_vars
  PROVE  ImportTyped'
<1>1. CASE Aside
  BY <1>1 DEF Aside, ImportKept, ImportTyped
<1>2. CASE Finish
  <2>1. results' \in [All -> Nat]
    <3>1. \/ results' = [p \in All |-> 0]
          \/ results' = [p \in All |-> results[p] + One(p, Reported) + One(p, LeftBehind)
                                          + One(p, jobs.refused)]
      <4>1. CASE phase = "finish"
        BY <1>2, <4>1 DEF Finish, FinishImport
      <4>2. CASE phase # "finish"
        BY <1>2, <4>2 DEF Finish, FinishImport
      <4> QED BY <4>1, <4>2
    <3>2. \A p \in All : \A ps : One(p, ps) \in Nat
      BY DEF One
    <3>3. \A p \in All : results[p] \in Nat
      BY DEF ImportTyped
    <3> QED BY <3>1, <3>2, <3>3
  <2>2. UNCHANGED <<step, size, book, window, batch, stream, peer, jobs, scratch, staged, applied, missing>>
    BY <1>2 DEF Finish, FinishImport
  <2> QED BY <2>1, <2>2 DEF ImportTyped
<1>3. CASE Parts
  <2>1. \A f \in Files : Receive(f) => ImportTyped'
    BY StreamTyped
  <2> QED BY <1>3, <2>1, LaneImportTyped, SessionTyped, PeerTyped DEF Parts
<1> QED BY <1>1, <1>2, <1>3, Kinds

-----------------------------------------------------------------------------
(* What the import does when: its steps, the lane and the files.           *)

(* The steps of the import never go back, and nobody but the session moves  *)
(* them.                                                                    *)
LEMMA StepMoves ==
  ASSUME ImportTyped, LaneTyped, Flow
  PROVE  /\ Lane \/ Peer \/ Aside \/ Finish => UNCHANGED step
         /\ \A f \in Files : AcceptStream(f) \/ HandleReceived(f) \/ HandleFailed(f)
                               => step \in {"batch", "drain"} /\ UNCHANGED step
         /\ \A f \in Files : Receive(f) => UNCHANGED step
         /\ Plan => step = "plan" /\ step' \in {"discover", "after"}
         /\ Discover => step = "discover" /\ step' \in {"discover", "request"}
         /\ SkipBatch => step = "request" /\ step' \in {"enqueue", "after"}
         /\ RequestBatch => step = "request" /\ step' \in {"enqueue", "batch"}
         /\ BatchBreaks \/ ReadEnd => step = "batch" /\ step' = "batch"
         /\ TakeReports => step \in {"batch", "drain"} /\ UNCHANGED step
         /\ CloseBatch => step = "batch" /\ step' = "drain"
         /\ EndBatch => step = "drain" /\ step' = "enqueue"
         /\ Enqueue => step = "enqueue" /\ step' \in {"enqueue", "after"}
         /\ Finish => step = "after" /\ verdict = "none"
<1>1. Lane \/ Peer => UNCHANGED step
  BY DEF Lane, LaneTake, LaneCollect, LaneStage, LaneApply, LaneReport, LaneDies,
         Peer, PeerCredit, PeerJoins, PeerAborts, PeerOpens
<1>2. Aside \/ Finish => UNCHANGED step
  BY DEF Aside, ImportKept, Finish, FinishImport
<1>3. \A f \in Files : AcceptStream(f) \/ HandleReceived(f) \/ HandleFailed(f)
                               => step \in {"batch", "drain"} /\ UNCHANGED step
  BY DEF AcceptStream, HandleReceived, HandleFailed, Batching
<1>4. \A f \in Files : Receive(f) => UNCHANGED step
  BY DEF Receive
<1>5. Plan => step = "plan" /\ step' \in {"discover", "after"}
  BY PlanIs
<1>6. Discover => step = "discover" /\ step' \in {"discover", "request"}
  BY DiscoverIs
<1>7. SkipBatch => step = "request" /\ step' \in {"enqueue", "after"}
  BY DEF SkipBatch, ToEnqueue
<1>8. RequestBatch => step = "request" /\ step' \in {"enqueue", "batch"}
  BY DEF RequestBatch, ToEnqueue
<1>9. BatchBreaks \/ ReadEnd => step = "batch" /\ step' = "batch"
  BY DEF BatchBreaks, ReadEnd, Batching
<1>10. TakeReports => step \in {"batch", "drain"} /\ UNCHANGED step
  BY DEF TakeReports, Batching
<1>11. CloseBatch => step = "batch" /\ step' = "drain"
  BY DEF CloseBatch
<1>12. EndBatch => step = "drain" /\ step' = "enqueue"
  BY DEF EndBatch, ToEnqueue
<1>13. Enqueue => step = "enqueue" /\ step' \in {"enqueue", "after"}
  BY DEF Enqueue
<1>14. Finish => step = "after" /\ verdict = "none"
  BY DEF Finish, Flow
<1> QED BY <1>1, <1>2, <1>3, <1>4, <1>5, <1>6, <1>7, <1>8, <1>9, <1>10, <1>11, <1>12, <1>13, <1>14

(* While the import is only planned, nothing moves but its session. *)
LEMMA EarlyKeeps ==
  ASSUME ImportTyped, LaneTyped, Flow, EarlyInv, [Next]_vars
  PROVE  EarlyInv'
<1> SUFFICES ASSUME step' \in Early
             PROVE  EarlyInv'
  BY DEF EarlyInv
<1>1. ASSUME step \in Early, SameLane, book'.done = book.done,
             UNCHANGED <<batch, stream, peer, jobs, scratch>>
      PROVE  EarlyInv'
  BY <1>1 DEF EarlyInv, SameLane
<1>2. CASE Aside
  <2>1. UNCHANGED <<step, book, batch, stream, peer, jobs, scratch>>
    BY <1>2 DEF Aside, ImportKept
  <2> QED BY <1>1, <1>2, <2>1, SessionLane
<1>3. CASE Finish
  BY <1>3, StepMoves DEF Early
<1>4. CASE Plan
  <2>1. UNCHANGED <<batch, stream, peer, jobs, scratch>>
    BY <1>4 DEF Plan
  <2>2. book'.done = book.done /\ step = "plan"
    BY <1>4, PlanIs
  <2> QED BY <1>1, <1>4, <2>1, <2>2, SessionLane DEF Early
<1>5. CASE Discover
  <2>1. UNCHANGED <<batch, stream, peer, jobs, scratch>>
    BY <1>5 DEF Discover
  <2>2. step = "discover" /\ (UNCHANGED book \/ Found(Head(book.left)))
    BY <1>5, DiscoverIs
  <2>3. ASSUME NEW p, Found(p) PROVE book'.done = book.done
    <3>1. \A a \in Books : WithReady(a).done = a.done
      BY WithReadyIs
    <3> QED BY <2>3, <3>1 DEF Found
  <2> QED BY <1>1, <1>5, <2>1, <2>2, <2>3, SessionLane DEF Early
<1>6. ASSUME Lane PROVE step \notin Early
  <2>1. lane.work # "idle" \/ lane.queue # <<>>
    BY <1>6 DEF Lane, LaneTake, LaneCollect, LaneStage, LaneApply, LaneReport, LaneDies
  <2> QED BY <2>1 DEF EarlyInv
<1>7. ASSUME Peer PROVE step \notin Early
  <2>1. peer.does # "idle"
    BY <1>7 DEF Peer, PeerCredit, PeerJoins, PeerAborts, PeerOpens
  <2> QED BY <2>1 DEF EarlyInv
<1>8. ASSUME NEW f \in Files, Receive(f) PROVE step \notin Early
  <2>1. stream[f] = "reading"
    BY <1>8 DEF Receive
  <2> QED BY <2>1 DEF EarlyInv
<1>9. CASE Rest
  <2>1. step \notin Early \/ step' \notin Early
    <3>1. Handles => step \notin Early
      BY StepMoves DEF Handles, Early
    <3>2. SkipBatch \/ RequestBatch => step' \notin Early
      BY StepMoves DEF Early
    <3>3. (BatchBreaks \/ ReadEnd \/ TakeReports \/ CloseBatch \/ EndBatch \/ Enqueue) => step \notin Early
      BY StepMoves DEF Early
    <3> QED BY <1>6, <1>7, <1>8, <1>9, <3>1, <3>2, <3>3 DEF Rest
  <2>2. step \notin Early => step' \notin Early
    BY <1>9, <1>6, <1>7, <1>8, StepMoves DEF Rest, Handles, Early
  <2> QED BY <2>1, <2>2
<1> QED BY <1>2, <1>3, <1>4, <1>5, <1>9, Kinds, PartsAre

(* The tasks in work, those in the queue, and those to be enqueued. *)
LEMMA WorkParts ==
  ASSUME LaneTyped, ImportTyped
  PROVE  /\ lane.tasks \in Seq(TaskSet) /\ lane.queue \in Seq(TaskSet)
         /\ jobs.next \in Seq(TaskSet)
         /\ lane.tasks \o lane.queue \in Seq(TaskSet) /\ Work \in Seq(TaskSet)
         /\ Range(lane.tasks \o lane.queue) = Range(lane.tasks) \union Range(lane.queue)
         /\ Range(Work) = (Range(lane.tasks) \union Range(lane.queue)) \union Range(jobs.next)
<1>1. lane.tasks \in Seq(TaskSet) /\ lane.queue \in Seq(TaskSet)
  BY DEF LaneTyped, Lanes
<1>2. jobs.next \in Seq(TaskSet)
  <2>1. jobs.next \in Seq([kind : {"apply"}, of : All])
    BY DEF ImportTyped, JobSets
  <2>2. [kind : {"apply"}, of : All] \subseteq TaskSet
    BY DEF TaskSet
  <2>3. ASSUME NEW S, NEW T, S \subseteq T, NEW s \in Seq(S) PROVE s \in Seq(T)
    BY <2>3
  <2> QED BY <2>1, <2>2, <2>3
<1>3. /\ lane.tasks \o lane.queue \in Seq(TaskSet)
      /\ Range(lane.tasks \o lane.queue) = Range(lane.tasks) \union Range(lane.queue)
  BY <1>1, ConcatList
<1>4. /\ (lane.tasks \o lane.queue) \o jobs.next \in Seq(TaskSet)
      /\ Range((lane.tasks \o lane.queue) \o jobs.next)
           = Range(lane.tasks \o lane.queue) \union Range(jobs.next)
  <2>1. PICK u, n : u = lane.tasks \o lane.queue /\ n = jobs.next
    OBVIOUS
  <2>2. u \in Seq(TaskSet) /\ n \in Seq(TaskSet)
    BY <1>2, <1>3, <2>1
  <2>3. u \o n \in Seq(TaskSet) /\ Range(u \o n) = Range(u) \union Range(n)
    BY <2>2, ConcatList
  <2> QED BY <2>1, <2>3
<1> QED BY <1>1, <1>2, <1>3, <1>4 DEF Work

(* A report of the lane, once its file is handed over and gone. *)
LEMMA EventKeeps ==
  ASSUME ImportTyped, LaneTyped, Flow, EventInv, WorkInv, [Next]_vars
  PROVE  EventInv'
<1>0. stream \in [Files -> {"none", "open", "reading", "received", "failed", "unread", "cut", "handled"}]
  BY DEF ImportTyped, Streams
<1>a. \A e \in Range(lane.events) : e \in EventSet
  <2>1. lane.events \in Seq(EventSet)
    BY DEF LaneTyped, Lanes
  <2> QED BY <2>1, RangeOfSeq
<1>1. ASSUME lane'.events = lane.events,
             \A f \in Files : stream[f] = "handled" /\ f \notin scratch
                                => stream'[f] = "handled" /\ f \notin scratch'
      PROVE  EventInv'
  <2> SUFFICES ASSUME NEW e \in Range(lane.events), e.kind = "staged"
               PROVE  stream'[e.of] = "handled" /\ e.of \notin scratch'
    BY <1>1 DEF EventInv
  <2>1. e.of \in Files
    BY <1>a, EventIs
  <2> QED BY <1>1, <2>1 DEF EventInv
<1>2. ASSUME UNCHANGED <<stream, scratch>>, SameLane PROVE EventInv'
  BY <1>1, <1>2 DEF SameLane
<1>3. CASE Aside \/ Finish
  <2>1. UNCHANGED <<stream, scratch>>
    BY <1>3 DEF Aside, ImportKept, Finish, FinishImport
  <2> QED BY <1>2, <1>3, <2>1, SessionLane
<1>4. CASE Plan \/ Discover \/ SkipBatch \/ RequestBatch \/ BatchBreaks \/ ReadEnd
           \/ CloseBatch \/ EndBatch
  <2>1. UNCHANGED <<stream, scratch>>
    BY <1>4 DEF Plan, Discover, SkipBatch, RequestBatch, BatchBreaks, ReadEnd, CloseBatch, EndBatch
  <2> QED BY <1>2, <1>4, <2>1, SessionLane
<1>5. CASE Enqueue
  <2>1. UNCHANGED <<stream, scratch>>
    BY <1>5 DEF Enqueue
  <2>2. lane'.events = lane.events
    BY <1>5, QueueLane DEF Queues
  <2> QED BY <1>1, <2>1, <2>2
<1>6. CASE TakeReports
  <2>1. lane'.events = <<>>
    BY <1>6, QueueLane DEF Emptied
  <2> QED BY <2>1, EmptyList DEF EventInv
<1>7. ASSUME NEW f \in Files, AcceptStream(f) \/ HandleFailed(f) \/ Receive(f) PROVE EventInv'
  <2>1. SameLane
    BY <1>7, SessionLane
  <2>2. stream[f] # "handled"
    BY <1>7 DEF AcceptStream, HandleFailed, Receive
  <2>3. \A g \in Files \ {f} : stream'[g] = stream[g] /\ (g \notin scratch => g \notin scratch')
    BY <1>0, <1>7 DEF AcceptStream, HandleFailed, Receive
  <2> QED BY <1>1, <2>1, <2>2, <2>3 DEF SameLane
<1>8. ASSUME NEW f \in Files, HandleReceived(f) PROVE EventInv'
  <2>1. lane'.events = lane.events
    BY <1>8, QueueLane DEF Queues
  <2>2. stream[f] # "handled" /\ scratch' \subseteq scratch /\ stream' = [stream EXCEPT ![f] = "handled"]
    BY <1>8 DEF HandleReceived
  <2> QED BY <1>0, <1>1, <2>1, <2>2
<1>9. CASE Peer
  <2>1. CASE PeerCredit \/ PeerJoins \/ PeerAborts
    <3>1. UNCHANGED <<stream, scratch>>
      BY <2>1 DEF PeerCredit, PeerJoins, PeerAborts
    <3> QED BY <1>2, <1>9, <3>1, SessionLane
  <2>2. ASSUME NEW f \in Files, PeerOpens(f) PROVE EventInv'
    <3>1. UNCHANGED scratch /\ stream[f] = "none" /\ stream' = [stream EXCEPT ![f] = "open"]
      BY <2>2 DEF PeerOpens
    <3>2. SameLane
      BY <1>9, SessionLane
    <3> QED BY <1>0, <1>1, <3>1, <3>2 DEF SameLane
  <2> QED BY <1>9, <2>1, <2>2 DEF Peer
<1>10. CASE Takes \/ LaneApply \/ LaneDies
  <2>1. UNCHANGED <<stream, scratch>>
    BY <1>10 DEF Takes, LaneTake, LaneCollect, LaneApply, LaneDies
  <2>2. Takes => lane'.events = lane.events
    BY TakesIs DEF Taken
  <2>3. lane'.events = lane.events
    BY <1>10, <2>2, LaneSteps DEF Becomes
  <2> QED BY <1>1, <2>1, <2>3
<1>b. ASSUME NEW e \in EventSet, Reports(e), UNCHANGED stream, scratch' \subseteq scratch,
             e.kind = "staged" => stream[e.of] = "handled" /\ e.of \notin scratch'
      PROVE  EventInv'
  <2>1. lane.events \in Seq(EventSet)
    BY DEF LaneTyped, Lanes
  <2>2. Range(Append(lane.events, e)) = Range(lane.events) \union {e}
    BY <2>1, AppendList
  <2> QED BY <1>b, <2>2 DEF EventInv, Reports
<1>11. CASE LaneStage
  <2>1. lane.work \in {"do", "skip"} /\ UNCHANGED stream
    BY <1>11 DEF LaneStage
  <2>2. PICK h : h = Head(lane.tasks)
    OBVIOUS
  <2>3. h.of \in Files /\ h.kind = "stage" /\ scratch' = scratch \ {h.of}
        /\ \E ok \in BOOLEAN : /\ Reports([kind |-> "staged", of |-> h.of, ok |-> ok])
                               /\ [kind |-> "staged", of |-> h.of, ok |-> ok] \in EventSet
    BY <1>11, <2>2, LaneSteps
  <2>4. h \in Range(Work)
    <3>1. lane.tasks # <<>>
      BY <2>1 DEF LaneTyped
    <3>3. h \in Range(lane.tasks)
      BY <2>2, <3>1, InWork
    <3> QED BY <3>3, WorkParts
  <2>5. stream[h.of] = "handled"
    BY <2>1, <2>3, <2>4 DEF WorkInv, Dead
  <2> QED BY <1>b, <2>1, <2>3, <2>5
<1>12. CASE LaneReport
  <2>1. UNCHANGED <<stream, scratch>>
    BY <1>12 DEF LaneReport
  <2>2. /\ [kind |-> "applied", of |-> Of(lane.tasks)] \in EventSet
        /\ Reports([kind |-> "applied", of |-> Of(lane.tasks)])
    BY <1>12, LaneSteps
  <2>3. [kind |-> "applied", of |-> Of(lane.tasks)].kind # "staged"
    OBVIOUS
  <2> QED BY <1>b, <2>1, <2>2, <2>3
<1>13. CASE Parts
  <2>1. Lane => EventInv'
    BY <1>10, <1>11, <1>12 DEF Lane, Takes
  <2>2. Handles => EventInv'
    BY <1>7, <1>8 DEF Handles
  <2>3. (\E f \in Files : Receive(f)) => EventInv'
    BY <1>7
  <2> QED BY <1>13, <1>4, <1>5, <1>6, <1>9, <2>1, <2>2, <2>3, PartsAre DEF Rest
<1> QED BY <1>3, <1>13, Kinds

(* An import that is late stays late, and a lane that died stays dead. *)
LEMMA LateStays ==
  ASSUME ImportTyped, LaneTyped, Flow, [Next]_vars
  PROVE  (step \in Late => step' \in Late) /\ (Dead => Dead')
<1>1. ASSUME Rest, step \in Late PROVE step' \in Late
  <2>1. (SkipBatch \/ RequestBatch \/ BatchBreaks \/ ReadEnd \/ TakeReports \/ CloseBatch
         \/ EndBatch \/ Handles) => step \notin Late
    BY StepMoves DEF Handles, Late
  <2>2. Enqueue => step' \in Late
    BY StepMoves DEF Late
  <2>3. (Lane \/ Peer \/ \E f \in Files : Receive(f)) => step' = step
    BY StepMoves
  <2> QED BY <1>1, <2>1, <2>2, <2>3 DEF Rest
<1>2. Plan \/ Discover => step \notin Late
  BY StepMoves DEF Late
<1>3. Aside \/ Finish => step' = step
  BY StepMoves
<1>4. ASSUME Dead PROVE Dead'
  <2>1. SameLane \/ Emptied \/ (\E t : Queues(t)) \/ UNCHANGED lane => Dead'
    BY <1>4 DEF SameLane, Emptied, Queues, Dead
  <2>2. ~Lane
    BY <1>4 DEF Dead, Lane, LaneTake, LaneCollect, LaneStage, LaneApply, LaneReport, LaneDies
  <2>3. (Plan \/ Discover \/ SkipBatch \/ RequestBatch \/ BatchBreaks \/ ReadEnd
             \/ CloseBatch \/ EndBatch \/ Peer \/ Aside \/ Finish) => Dead'
    BY <2>1, SessionLane
  <2>4. \A f \in Files : AcceptStream(f) \/ HandleFailed(f) \/ Receive(f) => Dead'
    BY <2>1, SessionLane
  <2>5. \A f \in Files : HandleReceived(f) => Dead'
    BY <2>1, QueueLane
  <2>6. TakeReports \/ Enqueue => Dead'
    BY <2>1, QueueLane
  <2>7. Rest => Dead'
    BY <2>2, <2>3, <2>4, <2>5, <2>6 DEF Rest, Handles
  <2> QED BY <2>3, <2>7, Kinds, PartsAre
<1> QED BY <1>1, <1>2, <1>3, <1>4, Kinds, PartsAre

(* Before the tasks of the books are enqueued, only files are staged. *)
LEMMA UnqueuedKeeps ==
  ASSUME ImportTyped, LaneTyped, Flow, UnqueuedInv, [Next]_vars
  PROVE  UnqueuedInv'
<1> SUFFICES ASSUME step' \notin Late
             PROVE  UnqueuedInv'
  BY DEF UnqueuedInv
<1>0. step \notin Late
  BY LateStays
<1>t. ~\E b : Turns(b)
  BY DEF Turns, Late
<1> DEFINE Rows == /\ jobs'.next = jobs.next /\ jobs'.queued = jobs.queued
                   /\ jobs'.refused = jobs.refused /\ applied' = applied
<1>1. ASSUME Rows, SameLane \/ \E w : Becomes(w) PROVE UnqueuedInv'
  BY <1>0, <1>1 DEF UnqueuedInv, SameLane, Becomes
<1>2. ASSUME UNCHANGED <<jobs, applied>>, SameLane PROVE UnqueuedInv'
  BY <1>1, <1>2
<1>3. CASE Aside
  <2>1. UNCHANGED <<jobs, applied>>
    BY <1>3 DEF Aside, ImportKept
  <2> QED BY <1>2, <1>3, <2>1, SessionLane
<1>4. ~Finish
  BY <1>0, StepMoves DEF Late
<1>5. CASE Plan \/ Discover \/ BatchBreaks \/ ReadEnd \/ CloseBatch
  <2>1. UNCHANGED <<jobs, applied>>
    BY <1>5 DEF Plan, Discover, BatchBreaks, ReadEnd, CloseBatch
  <2> QED BY <1>2, <1>5, <2>1, SessionLane
<1>6. CASE RequestBatch
  <2>1. UNCHANGED jobs
    BY <1>6, <1>t, BookSteps
  <2>2. UNCHANGED applied
    BY <1>6 DEF RequestBatch
  <2> QED BY <1>2, <1>6, <2>1, <2>2, SessionLane
<1>7. ~SkipBatch /\ ~EndBatch /\ ~Enqueue
  BY <1>0, <1>t, StepMoves DEF Late
<1>8. ASSUME NEW f \in Files, HandleReceived(f) PROVE UnqueuedInv'
  <2>1. UNCHANGED applied
    BY <1>8 DEF HandleReceived
  <2>2. CASE Dead
    <3>1. UNCHANGED <<lane, jobs>>
      BY <1>8, <2>2, QueueLane
    <3>2. SameLane
      BY <3>1 DEF SameLane, LaneTyped
    <3> QED BY <1>2, <2>1, <3>1, <3>2
  <2>3. CASE ~Dead
    <3> DEFINE t == [kind |-> "stage", of |-> f]
    <3>1. Queues(t) /\ jobs' = [jobs EXCEPT !.staging = @ \union {f}]
      BY <1>8, <2>3, QueueLane
    <3>2. t \in TaskSet /\ lane.queue \in Seq(TaskSet) /\ t.kind = "stage"
      BY DEF TaskSet, LaneTyped, Lanes
    <3> HIDE DEF t
    <3>3. Range(Append(lane.queue, t)) = Range(lane.queue) \union {t}
      BY <3>2, AppendList
    <3>4. Rows
      <4>1. jobs \in JobSets
        BY DEF ImportTyped
      <4>2. PICK fs : fs = jobs.staging \union {f}
        OBVIOUS
      <4>3. fs \in SUBSET Files /\ jobs' = [jobs EXCEPT !.staging = fs]
        BY <3>1, <4>1, <4>2 DEF JobSets
      <4> QED BY <2>1, <4>1, <4>3, JobsSet
    <3> QED BY <1>0, <3>1, <3>2, <3>3, <3>4 DEF Queues, UnqueuedInv
  <2> QED BY <2>2, <2>3
<1>9. ASSUME NEW f \in Files, AcceptStream(f) \/ HandleFailed(f) \/ Receive(f) PROVE UnqueuedInv'
  <2>1. UNCHANGED <<jobs, applied>>
    BY <1>9 DEF AcceptStream, HandleFailed, Receive
  <2> QED BY <1>2, <1>9, <2>1, SessionLane
<1>10. CASE Peer
  <2>1. UNCHANGED <<jobs, applied>>
    BY <1>10 DEF Peer, PeerCredit, PeerJoins, PeerAborts, PeerOpens
  <2> QED BY <1>2, <1>10, <2>1, SessionLane
<1>11. CASE TakeReports
  <2>1. Emptied
    BY <1>11, QueueLane
  <2>2. Rows
    <3>1. jobs \in JobSets /\ Unreported \in SUBSET Files
      BY DEF ImportTyped, JobSets, Unreported
    <3>2. jobs' = [jobs EXCEPT !.staging = Unreported] /\ UNCHANGED applied
      BY <1>11 DEF TakeReports
    <3> QED BY <3>1, <3>2, JobsSet
  <2>3. Range(<<>>) = {}
    BY EmptyList
  <2> QED BY <1>0, <2>1, <2>2, <2>3 DEF Emptied, UnqueuedInv
<1>12. CASE Takes
  <2>1. UNCHANGED <<jobs, applied>>
    BY <1>12 DEF Takes, LaneTake, LaneCollect
  <2>2. lane'.events = lane.events
    BY <1>12, TakesIs DEF Taken
  <2>3. Range(lane'.tasks) \union Range(lane'.queue) = Range(lane.tasks) \union Range(lane.queue)
    BY <1>12, TakesTyped
  <2> QED BY <1>0, <2>1, <2>2, <2>3 DEF UnqueuedInv
<1>13. CASE LaneStage
  <2>1. UNCHANGED <<jobs, applied>>
    BY <1>13 DEF LaneStage
  <2>2. PICK e \in EventSet : Reports(e) /\ e.kind = "staged"
    BY <1>13, LaneSteps
  <2>3. Range(Append(lane.events, e)) = Range(lane.events) \union {e}
    <3>1. lane.events \in Seq(EventSet)
      BY DEF LaneTyped, Lanes
    <3> QED BY <3>1, AppendList
  <2> QED BY <1>0, <2>1, <2>2, <2>3, EmptyList DEF UnqueuedInv, Reports
<1>14. ~LaneApply /\ ~LaneReport
  <2>1. LaneApply \/ LaneReport => lane.work \in {"do", "skip"}
    BY DEF LaneApply, LaneReport
  <2>2. LaneApply \/ LaneReport => \A t \in Range(lane.tasks) : t.kind = "apply"
    BY LaneSteps
  <2>3. LaneApply \/ LaneReport => Head(lane.tasks) \in Range(lane.tasks)
    BY <2>1, InWork DEF LaneTyped
  <2> QED BY <1>0, <2>2, <2>3 DEF UnqueuedInv
<1>15. CASE LaneDies
  <2>1. UNCHANGED <<jobs, applied>>
    BY <1>15 DEF LaneDies
  <2> QED BY <1>1, <1>15, <2>1, LaneSteps
<1>16. CASE Rest
  <2>1. Lane => UnqueuedInv'
    BY <1>12, <1>13, <1>14, <1>15 DEF Lane, Takes
  <2>2. Handles => UnqueuedInv'
    BY <1>8, <1>9 DEF Handles
  <2> QED BY <1>16, <1>5, <1>6, <1>7, <1>9, <1>10, <1>11, <2>1, <2>2 DEF Rest
<1> QED BY <1>3, <1>4, <1>5, <1>16, Kinds, PartsAre

(* What the work of the lane becomes. *)
LEMMA WorkSteps ==
  ASSUME ImportTyped, LaneTyped
  PROVE  /\ SameLane /\ jobs'.next = jobs.next => Work' = Work
         /\ \A w : Becomes(w) /\ jobs'.next = jobs.next => Work' = Work
         /\ Emptied /\ jobs'.next = jobs.next => Work' = Work
         /\ Takes /\ jobs'.next = jobs.next => Work' = Work
         /\ \A h \in TaskSet : (jobs.next # <<>> /\ h = Head(jobs.next) /\ Queues(h)
                               /\ jobs'.next = Tail(jobs.next)) => Work' = Work
         /\ \A t \in TaskSet : Queues(t) /\ jobs.next = <<>> /\ jobs'.next = <<>>
                                 => Work = lane.tasks \o lane.queue /\ Work' = Append(Work, t)
         /\ \A e \in EventSet : Reports(e) /\ jobs'.next = jobs.next
                                 => Work' = lane.queue \o jobs.next /\ Work = lane.tasks \o Work'
<1> DEFINE T == lane.tasks
           Q == lane.queue
           N == jobs.next
<1>1. T \in Seq(TaskSet) /\ Q \in Seq(TaskSet) /\ N \in Seq(TaskSet) /\ T \o Q \in Seq(TaskSet)
  BY WorkParts
<1>2. Work = (T \o Q) \o N /\ Work' = (lane'.tasks \o lane'.queue) \o jobs'.next
  BY DEF Work
<1> HIDE DEF T, Q, N
<1>3. ASSUME SameLane \/ Emptied \/ (\E w : Becomes(w)), jobs'.next = jobs.next PROVE Work' = Work
  BY <1>2, <1>3 DEF SameLane, Emptied, Becomes, T, Q, N
<1>4. ASSUME NEW s \in Seq(TaskSet) PROVE <<>> \o s = s /\ s \o <<>> = s
  BY <1>4
<1>5. ASSUME Takes, jobs'.next = jobs.next PROVE Work' = Work
  BY <1>2, <1>5, TakesTyped DEF N, Q, T
<1>6. ASSUME NEW t \in TaskSet PROVE T \o Append(Q, t) = Append(T \o Q, t)
  BY <1>1
<1>7. ASSUME NEW h \in TaskSet, N # <<>>, h = Head(N), Queues(h), jobs'.next = Tail(N)
      PROVE  Work' = Work
  <2>1. Work' = (T \o Append(Q, h)) \o Tail(N)
    BY <1>2, <1>7 DEF Queues, Q, T
  <2>2. Append(T \o Q, h) \o Tail(N) = (T \o Q) \o N
    BY <1>1, <1>7, MoveHead
  <2> QED BY <1>2, <1>6, <1>7, <2>1, <2>2
<1>8. ASSUME NEW t \in TaskSet, Queues(t), N = <<>>, jobs'.next = <<>>
      PROVE  Work = T \o Q /\ Work' = Append(Work, t)
  <2>1. Work' = (T \o Append(Q, t)) \o <<>>
    BY <1>2, <1>8 DEF Queues, Q, T
  <2>2. Append(T \o Q, t) \in Seq(TaskSet)
    BY <1>1, AppendList
  <2>3. Append(T \o Q, t) \o <<>> = Append(T \o Q, t) /\ (T \o Q) \o <<>> = T \o Q
    BY <1>1, <1>4, <2>2
  <2> QED BY <1>2, <1>6, <1>8, <2>1, <2>3
<1>9. ASSUME NEW e \in EventSet, Reports(e), jobs'.next = N
      PROVE  Work' = Q \o N /\ Work = T \o Work'
  <2>1. Work' = (<<>> \o Q) \o N
    BY <1>2, <1>9 DEF Reports, Q
  <2>2. Work' = Q \o N
    BY <1>1, <1>4, <2>1
  <2>3. (T \o Q) \o N = T \o (Q \o N)
    BY <1>1
  <2> QED BY <1>2, <2>2, <2>3
<1> QED BY <1>3, <1>5, <1>7, <1>8, <1>9 DEF T, Q, N

(* What the lane has reported as staged or not. *)
LEMMA StagedFilesIs ==
  ASSUME LaneTyped, NEW e \in EventSet, Reports(e)
  PROVE  /\ e.kind = "staged" => StagedFiles' = StagedFiles \union {e.of}
         /\ e.kind # "staged" => StagedFiles' = StagedFiles
<1>1. lane.events \in Seq(EventSet)
  BY DEF LaneTyped, Lanes
<1>2. Range(lane'.events) = Range(lane.events) \union {e}
  BY <1>1, AppendList DEF Reports
<1> QED BY <1>2 DEF StagedFiles

(* The tasks of the lane and of the session are distinct, and a file that   *)
(* is still to be staged was handed over and is counted as such.            *)
LEMMA WorkKeeps ==
  ASSUME ImportTyped, LaneTyped, Flow, EarlyInv, UnqueuedInv, EventInv, WorkInv, BookInv,
         [Next]_vars
  PROVE  WorkInv'
<1> SUFFICES ASSUME ~Dead'
             PROVE  WorkInv'
  BY DEF WorkInv
<1>0. ~Dead
  BY LateStays
<1>i. /\ IsInjective(Work)
      /\ \A t \in Range(Work) : t.kind = "stage" =>
           stream[t.of] = "handled" /\ t.of \in jobs.staging /\ t.of \notin StagedFiles
  BY <1>0 DEF WorkInv
<1>w. /\ Work \in Seq(TaskSet) /\ \A t \in Range(Work) : t \in TaskSet
      /\ Range(Work) = (Range(lane.tasks) \union Range(lane.queue)) \union Range(jobs.next)
  <2>1. Work \in Seq(TaskSet)
    BY WorkParts
  <2> QED BY <2>1, WorkParts, RangeOfSeq
<1>s. stream \in [Files -> {"none", "open", "reading", "received", "failed", "unread", "cut", "handled"}]
  BY DEF ImportTyped, Streams
<1>e. \A e \in Range(lane.events) : e \in EventSet
  <2>1. lane.events \in Seq(EventSet)
    BY DEF LaneTyped, Lanes
  <2> QED BY <2>1, RangeOfSeq
<1>1. ASSUME Work' = Work, StagedFiles' = StagedFiles, jobs'.staging = jobs.staging,
             \A f \in Files : stream[f] = "handled" => stream'[f] = "handled"
      PROVE  WorkInv'
  <2>1. \A t \in Range(Work) : t.kind = "stage" => t.of \in Files
    BY <1>w, TaskIs
  <2> QED BY <1>1, <1>i, <2>1 DEF WorkInv
<1>2. ASSUME SameLane, UNCHANGED <<stream, jobs>> PROVE WorkInv'
  <2>1. Work' = Work
    BY <1>2, WorkSteps
  <2>2. StagedFiles' = StagedFiles
    BY <1>2 DEF SameLane, StagedFiles
  <2> QED BY <1>1, <1>2, <2>1, <2>2
<1>3. CASE Aside \/ Finish
  <2>1. UNCHANGED <<stream, jobs>>
    BY <1>3 DEF Aside, ImportKept, Finish, FinishImport
  <2> QED BY <1>2, <1>3, <2>1, SessionLane
<1>4. CASE Plan \/ Discover \/ BatchBreaks \/ ReadEnd \/ CloseBatch
  <2>1. UNCHANGED <<stream, jobs>>
    BY <1>4 DEF Plan, Discover, BatchBreaks, ReadEnd, CloseBatch
  <2> QED BY <1>2, <1>4, <2>1, SessionLane
<1>5. ASSUME NEW b \in Books, BookIs(b), Turns(b), step \notin Late, SameLane, UNCHANGED stream
      PROVE  WorkInv'
  <2> DEFINE u == lane.tasks \o lane.queue
             n == Tasks(b)
  <2>1. /\ jobs.next = <<>> /\ \A t \in Range(lane.tasks) \union Range(lane.queue) : t.kind = "stage"
    BY <1>5 DEF UnqueuedInv
  <2>2. /\ u \in Seq(TaskSet) /\ Range(u) = Range(lane.tasks) \union Range(lane.queue)
        /\ u \o jobs.next = Work
    BY WorkParts DEF Work
  <2>3. n \in Seq([kind : {"apply"}, of : All]) /\ IsInjective(n)
    BY <1>5, TasksAre
  <2>4. Work' = u \o n
    BY <1>5 DEF Work, SameLane, Turns
  <2> HIDE DEF u, n
  <2>5. IsInjective(u)
    <3>1. u \o <<>> = u
      BY <2>2
    <3> QED BY <1>i, <2>1, <2>2, <3>1
  <2>6. \A t \in Range(n) : t \in [kind : {"apply"}, of : All]
    BY <2>3, RangeOfSeq
  <2>7. n \in Seq(TaskSet)
    <3>1. [kind : {"apply"}, of : All] \subseteq TaskSet
      BY DEF TaskSet
    <3>2. ASSUME NEW S, NEW T, S \subseteq T, NEW s \in Seq(S) PROVE s \in Seq(T)
      BY <3>2
    <3> QED BY <2>3, <3>1, <3>2
  <2>8. Range(u) \intersect Range(n) = {}
    BY <2>1, <2>2, <2>6
  <2>9. IsInjective(u \o n) /\ Range(u \o n) = Range(u) \union Range(n)
    BY <2>2, <2>3, <2>5, <2>7, <2>8, ConcatList
  <2>10. ASSUME NEW t \in Range(Work'), t.kind = "stage"
         PROVE  stream'[t.of] = "handled" /\ t.of \in jobs'.staging /\ t.of \notin StagedFiles'
    <3>1. t \in Range(u)
      BY <2>4, <2>6, <2>9, <2>10
    <3>2. stream[t.of] = "handled" /\ t.of \in jobs.staging /\ t.of \notin StagedFiles
      BY <1>i, <1>w, <2>2, <2>10, <3>1
    <3>3. StagedFiles' = StagedFiles
      BY <1>5 DEF SameLane, StagedFiles
    <3> QED BY <1>5, <3>2, <3>3 DEF Turns
  <2> QED BY <2>4, <2>9, <2>10 DEF WorkInv
<1>6. ASSUME SkipBatch \/ RequestBatch \/ EndBatch, phase = "import" PROVE WorkInv'
  <2>1. SameLane /\ UNCHANGED stream /\ step \notin Late
    BY <1>6, SessionLane, StepMoves DEF SkipBatch, RequestBatch, EndBatch, Late
  <2>2. book \in Books /\ BookIs(book)
    BY <1>6 DEF ImportTyped, BookInv, Flow
  <2>3. AllFailed(book) \in Books /\ BookIs(AllFailed(book))
    BY <2>2, AllFailedIs DEF BookKept
  <2>4. CASE Turns(book) \/ Turns(AllFailed(book))
    BY <1>5, <2>1, <2>2, <2>3, <2>4
  <2>5. CASE UNCHANGED jobs
    BY <1>2, <2>1, <2>5
  <2> QED BY <1>6, <2>4, <2>5, BookSteps
<1>7. ASSUME NEW f \in Files, AcceptStream(f) \/ HandleFailed(f) \/ Receive(f) PROVE WorkInv'
  <2>1. SameLane /\ UNCHANGED jobs
    BY <1>7, SessionLane DEF AcceptStream, HandleFailed, Receive
  <2>2. stream[f] # "handled"
    BY <1>7 DEF AcceptStream, HandleFailed, Receive
  <2>3. \A g \in Files \ {f} : stream'[g] = stream[g]
    BY <1>s, <1>7 DEF AcceptStream, HandleFailed, Receive
  <2>4. Work' = Work /\ StagedFiles' = StagedFiles
    BY <2>1, WorkSteps DEF SameLane, StagedFiles
  <2> QED BY <1>1, <2>1, <2>2, <2>3, <2>4
<1>8. ASSUME NEW f \in Files, HandleReceived(f) PROVE WorkInv'
  <2> DEFINE t == [kind |-> "stage", of |-> f]
  <2>1. Queues(t) /\ jobs' = [jobs EXCEPT !.staging = @ \union {f}]
    BY <1>0, <1>8, QueueLane
  <2>2. t \in TaskSet /\ t.kind = "stage" /\ t.of = f
    BY DEF TaskSet
  <2> HIDE DEF t
  <2>3. jobs'.next = jobs.next /\ jobs'.staging = jobs.staging \union {f}
    <3>1. jobs \in JobSets
      BY DEF ImportTyped
    <3>2. PICK fs : fs = jobs.staging \union {f}
      OBVIOUS
    <3>3. fs \in SUBSET Files /\ jobs' = [jobs EXCEPT !.staging = fs]
      BY <2>1, <3>1, <3>2 DEF JobSets
    <3> QED BY <3>1, <3>2, <3>3, JobsSet
  <2>4. jobs.next = <<>>
    BY <1>8, StepMoves DEF UnqueuedInv, Late
  <2>5. Work' = Append(Work, t)
    BY <2>1, <2>2, <2>3, <2>4, WorkSteps
  <2>6. stream[f] = "received" /\ stream' = [stream EXCEPT ![f] = "handled"]
    BY <1>8 DEF HandleReceived
  <2>7. t \notin Range(Work)
    BY <1>i, <2>2, <2>6
  <2>8. IsInjective(Work') /\ Range(Work') = Range(Work) \union {t}
    BY <1>i, <1>w, <2>2, <2>5, <2>7, AppendList
  <2>9. StagedFiles' = StagedFiles /\ f \notin StagedFiles
    BY <2>1, <2>6 DEF StagedFiles, Queues, EventInv
  <2>10. \A x \in Range(Work) : x.kind = "stage" => x.of \in Files
    BY <1>w, TaskIs
  <2>11. \A g \in Files : stream'[g] = IF g = f THEN "handled" ELSE stream[g]
    BY <1>s, <2>6
  <2>12. ASSUME NEW x \in Range(Work'), x.kind = "stage"
         PROVE  stream'[x.of] = "handled" /\ x.of \in jobs'.staging /\ x.of \notin StagedFiles'
    <3>1. CASE x = t
      BY <2>2, <2>3, <2>9, <2>11, <3>1
    <3>2. CASE x \in Range(Work)
      BY <1>i, <2>3, <2>9, <2>10, <2>11, <2>12, <3>2
    <3> QED BY <2>8, <3>1, <3>2
  <2> QED BY <2>8, <2>12 DEF WorkInv
<1>9. CASE TakeReports
  <2>1. Emptied /\ UNCHANGED stream
    BY <1>9, QueueLane DEF TakeReports
  <2>2. jobs'.next = jobs.next /\ jobs'.staging = Unreported
    <3>1. jobs \in JobSets /\ Unreported \in SUBSET Files
      BY DEF ImportTyped, JobSets, Unreported
    <3>2. jobs' = [jobs EXCEPT !.staging = Unreported]
      BY <1>9 DEF TakeReports
    <3> QED BY <3>1, <3>2, JobsSet
  <2>3. Work' = Work
    BY <2>1, <2>2, WorkSteps
  <2>4. StagedFiles' = {}
    BY <2>1, EmptyList DEF Emptied, StagedFiles
  <2>5. Unreported = jobs.staging \ StagedFiles
    BY DEF Unreported, StagedFiles
  <2> QED BY <1>i, <2>1, <2>2, <2>3, <2>4, <2>5 DEF WorkInv
<1>10. CASE Enqueue
  <2>1. UNCHANGED stream
    BY <1>10 DEF Enqueue
  <2>2. CASE UNCHANGED <<lane, jobs>>
    <3>1. SameLane
      BY <2>2 DEF SameLane, LaneTyped
    <3> QED BY <1>2, <2>1, <2>2, <3>1
  <2>3. CASE jobs.next # <<>>
    <3>1. PICK h : h = Head(jobs.next)
      OBVIOUS
    <3>2. h \in TaskSet
      BY <2>3, <3>1, WorkParts, TailList
    <3>3. jobs'.next = Tail(jobs.next) /\ jobs'.staging = jobs.staging
      BY <1>0, <1>10, <2>3, EnqueueIs
    <3>4. Queues(h)
      <4>1. lane' # lane
        <5>1. lane' = [lane EXCEPT !.queue = Append(@, h)]
          BY <1>0, <1>10, <2>3, <3>1, EnqueueIs
        <5>2. lane.queue \in Seq(TaskSet) /\ lane \in Lanes
          BY DEF LaneTyped, Lanes
        <5>3. PICK q : q = Append(lane.queue, h)
          OBVIOUS
        <5>4. q \in Seq(TaskSet) /\ q # lane.queue
          BY <3>2, <5>2, <5>3
        <5>5. lane'.queue = q
          BY <5>1, <5>2, <5>3, <5>4, LaneSet
        <5> QED BY <5>4, <5>5
      <4> QED BY <1>10, <3>1, <4>1, QueueLane
    <3>5. Work' = Work
      BY <2>3, <3>1, <3>2, <3>3, <3>4, WorkSteps
    <3>6. StagedFiles' = StagedFiles
      BY <3>4 DEF Queues, StagedFiles
    <3> QED BY <1>1, <2>1, <3>3, <3>5, <3>6
  <2> QED BY <1>10, <2>2, <2>3, EnqueueIs
<1>11. CASE Peer
  <2>1. SameLane /\ UNCHANGED jobs
    BY <1>11, SessionLane DEF Peer, PeerCredit, PeerJoins, PeerAborts, PeerOpens
  <2>2. \A f \in Files : stream[f] = "handled" => stream'[f] = "handled"
    BY <1>s, <1>11 DEF Peer, PeerCredit, PeerJoins, PeerAborts, PeerOpens
  <2>3. Work' = Work /\ StagedFiles' = StagedFiles
    BY <2>1, WorkSteps DEF SameLane, StagedFiles
  <2> QED BY <1>1, <2>1, <2>2, <2>3
<1>12. CASE Takes
  <2>1. UNCHANGED <<stream, jobs>>
    BY <1>12 DEF Takes, LaneTake, LaneCollect
  <2>2. lane'.events = lane.events
    BY <1>12, TakesIs DEF Taken
  <2>3. Work' = Work
    BY <1>12, <2>1, WorkSteps
  <2> QED BY <1>1, <2>1, <2>2, <2>3 DEF StagedFiles
<1>13. CASE LaneApply
  <2>1. UNCHANGED <<stream, jobs>>
    BY <1>13 DEF LaneApply
  <2>2. Becomes("skip")
    BY <1>13, LaneSteps
  <2>3. Work' = Work /\ StagedFiles' = StagedFiles
    BY <2>1, <2>2, WorkSteps DEF Becomes, StagedFiles
  <2> QED BY <1>1, <2>1, <2>3
<1>14. ~LaneDies
  BY LaneSteps DEF Becomes, Dead
<1>15. ASSUME NEW e \in EventSet, Reports(e), UNCHANGED <<stream, jobs>>
       PROVE  /\ Work' = lane.queue \o jobs.next /\ Work = lane.tasks \o Work'
              /\ IsInjective(Work') /\ Range(Work') \subseteq Range(Work)
              /\ Range(lane.tasks) \intersect Range(Work') = {}
  <2>1. Work' = lane.queue \o jobs.next /\ Work = lane.tasks \o Work'
    BY <1>15, WorkSteps
  <2>2. PICK w, t : w = Work' /\ t = lane.tasks
    OBVIOUS
  <2>3. w \in Seq(TaskSet) /\ t \in Seq(TaskSet)
    BY <2>1, <2>2, WorkParts, ConcatList
  <2>4. IsInjective(t \o w)
    BY <1>i, <2>1, <2>2
  <2>5. IsInjective(w) /\ Range(t) \intersect Range(w) = {}
    BY <2>3, <2>4, InjectiveParts
  <2>6. Range(t \o w) = Range(t) \union Range(w)
    BY <2>3, ConcatList
  <2> QED BY <2>1, <2>2, <2>5, <2>6
<1>16. CASE LaneStage
  <2>1. UNCHANGED <<stream, jobs>>
    BY <1>16 DEF LaneStage
  <2>2. PICK h : h = Head(lane.tasks)
    OBVIOUS
  <2>3. h \in TaskSet /\ h.kind = "stage" /\ h \in Range(lane.tasks)
    <3>1. lane.tasks # <<>>
      BY <1>16 DEF LaneStage, LaneTyped
    <3> QED BY <1>16, <2>2, <3>1, InWork, LaneSteps
  <2>4. PICK e \in EventSet : Reports(e) /\ e.kind = "staged" /\ e.of = h.of
    BY <1>16, <2>2, LaneSteps
  <2>5. StagedFiles' = StagedFiles \union {h.of}
    BY <2>4, StagedFilesIs
  <2>6. /\ IsInjective(Work') /\ Range(Work') \subseteq Range(Work)
        /\ Range(lane.tasks) \intersect Range(Work') = {}
    BY <1>15, <2>1, <2>4
  <2>7. ASSUME NEW x \in Range(Work'), x.kind = "stage" PROVE x.of # h.of
    <3>1. x \in TaskSet /\ x # h
      BY <1>w, <2>3, <2>6, <2>7
    <3> QED BY <2>3, <2>7, <3>1, TaskIs
  <2> QED BY <1>i, <2>1, <2>5, <2>6, <2>7 DEF WorkInv
<1>17. CASE LaneReport
  <2>1. UNCHANGED <<stream, jobs>>
    BY <1>17 DEF LaneReport
  <2>2. PICK e \in EventSet : Reports(e) /\ e.kind # "staged"
    BY <1>17, LaneSteps
  <2>3. StagedFiles' = StagedFiles
    BY <2>2, StagedFilesIs
  <2>4. IsInjective(Work') /\ Range(Work') \subseteq Range(Work)
    BY <1>15, <2>1, <2>2
  <2> QED BY <1>i, <2>1, <2>3, <2>4 DEF WorkInv
<1>18. CASE Parts
  <2>1. Lane => WorkInv'
    BY <1>12, <1>13, <1>14, <1>16, <1>17 DEF Lane, Takes
  <2>2. Handles => WorkInv'
    BY <1>7, <1>8 DEF Handles
  <2>3. (\E f \in Files : Receive(f)) => WorkInv'
    BY <1>7
  <2>4. phase = "import" /\ Session => WorkInv'
    BY <1>4, <1>6, <1>9, <1>10, <2>2 DEF Session, Handles
  <2> QED BY <1>18, <1>11, <2>1, <2>3, <2>4 DEF Parts
<1> QED BY <1>3, <1>18, Kinds

(* What is on disk and not yet staged is in the hands of the session. *)
LEMMA ScratchKeeps ==
  ASSUME ImportTyped, LaneTyped, Flow, EarlyInv, EventInv, ScratchInv, [Next]_vars
  PROVE  ScratchInv'
<1> DEFINE Held == {f \in Files : stream[f] \in {"reading", "received"}} \union jobs.staging
<1>0. /\ scratch \subseteq Held /\ (step \in Late /\ ~Dead => scratch = {} /\ jobs.staging = {})
      /\ jobs.staging \in SUBSET Files
  BY DEF ScratchInv, ImportTyped, JobSets
<1>s. stream \in [Files -> {"none", "open", "reading", "received", "failed", "unread", "cut", "handled"}]
  BY DEF ImportTyped, Streams
<1>d. ~Dead' => ~Dead
  BY LateStays
<1>1. ASSUME scratch' \subseteq Held', scratch' \subseteq scratch, jobs'.staging \subseteq jobs.staging,
             step' = step \/ step' \notin Late
      PROVE  ScratchInv'
  BY <1>0, <1>1, <1>d DEF ScratchInv
<1>2. ASSUME UNCHANGED <<stream, jobs, scratch>>, step' = step \/ step' \notin Late PROVE ScratchInv'
  BY <1>0, <1>1, <1>2
<1>3. ASSUME UNCHANGED <<stream, scratch>>, jobs'.staging = jobs.staging,
             ~Dead => scratch = {} /\ jobs.staging = {}
      PROVE  ScratchInv'
  BY <1>0, <1>3, <1>d DEF ScratchInv
<1>4. CASE Aside \/ Finish
  <2>1. UNCHANGED <<step, stream, jobs, scratch>>
    BY <1>4 DEF Aside, ImportKept, Finish, FinishImport
  <2> QED BY <1>2, <2>1
<1>5. CASE Discover \/ BatchBreaks \/ ReadEnd \/ CloseBatch
  <2>1. UNCHANGED <<stream, jobs, scratch>>
    BY <1>5 DEF Discover, BatchBreaks, ReadEnd, CloseBatch
  <2>2. step' \notin Late
    BY <1>5, StepMoves DEF Late
  <2> QED BY <1>2, <2>1, <2>2
<1>6. CASE Plan \/ SkipBatch \/ RequestBatch
  <2>1. UNCHANGED <<stream, scratch>> /\ step \in Early
    BY <1>6, StepMoves DEF Plan, SkipBatch, RequestBatch, Early
  <2>2. jobs'.staging = jobs.staging
    <3>1. Plan => UNCHANGED jobs
      BY DEF Plan
    <3> QED BY <1>6, <3>1, BookSteps DEF Turns
  <2>3. scratch = {} /\ jobs.staging = {}
    BY <2>1 DEF EarlyInv
  <2> QED BY <1>3, <2>1, <2>2, <2>3
<1>7. CASE EndBatch
  <2>1. UNCHANGED <<stream, scratch>> /\ Unhandled = {} /\ (jobs.staging = {} \/ Dead)
    BY <1>7 DEF EndBatch
  <2>2. jobs'.staging = jobs.staging
    BY <1>7, BookSteps DEF Turns
  <2>3. ~Dead => scratch = {} /\ jobs.staging = {}
    BY <1>0, <2>1 DEF Unhandled
  <2> QED BY <1>3, <2>1, <2>2, <2>3
<1>8. CASE Enqueue
  <2>1. UNCHANGED <<stream, scratch>> /\ jobs'.staging = jobs.staging /\ step = "enqueue"
    BY <1>8, EnqueueIs DEF Enqueue
  <2> QED BY <1>0, <1>3, <2>1 DEF Late
<1>9. CASE TakeReports
  <2>1. UNCHANGED <<stream, scratch>> /\ step' \notin Late
    BY <1>9, StepMoves DEF TakeReports, Late
  <2>2. jobs'.staging = Unreported
    <3>1. jobs \in JobSets /\ Unreported \in SUBSET Files
      BY DEF ImportTyped, JobSets, Unreported
    <3>2. jobs' = [jobs EXCEPT !.staging = Unreported]
      BY <1>9 DEF TakeReports
    <3> QED BY <3>1, <3>2, JobsSet
  <2>3. scratch \intersect (jobs.staging \ Unreported) = {}
    BY DEF Unreported, EventInv
  <2>4. Unreported \subseteq jobs.staging
    BY DEF Unreported
  <2>5. scratch' \subseteq Held'
    BY <1>0, <2>1, <2>2, <2>3
  <2> QED BY <1>1, <2>1, <2>2, <2>4, <2>5
<1>10. ASSUME NEW f \in Files, AcceptStream(f) PROVE ScratchInv'
  <2>1. /\ UNCHANGED jobs /\ scratch' = scratch \union {f} /\ stream[f] = "open"
        /\ stream' = [stream EXCEPT ![f] = "reading"]
    BY <1>10 DEF AcceptStream
  <2>2. step' \notin Late
    BY <1>10, StepMoves DEF Late
  <2>3. \A g \in Files : stream'[g] = IF g = f THEN "reading" ELSE stream[g]
    BY <1>s, <2>1
  <2>4. scratch' \subseteq Held'
    BY <1>0, <2>1, <2>3
  <2> QED BY <2>2, <2>4 DEF ScratchInv
<1>11. ASSUME NEW f \in Files, HandleReceived(f) PROVE ScratchInv'
  <2>1. stream[f] = "received" /\ stream' = [stream EXCEPT ![f] = "handled"]
    BY <1>11 DEF HandleReceived
  <2>2. step' \notin Late
    BY <1>11, StepMoves DEF Late
  <2>3. \A g \in Files : stream'[g] = IF g = f THEN "handled" ELSE stream[g]
    BY <1>s, <2>1
  <2>4. scratch' \subseteq Held'
    <3>1. CASE Dead
      <4>1. scratch' = scratch \ {f} /\ UNCHANGED jobs
        BY <1>11, <3>1 DEF HandleReceived
      <4> QED BY <1>0, <2>3, <4>1
    <3>2. CASE ~Dead
      <4>1. jobs' = [jobs EXCEPT !.staging = @ \union {f}] /\ UNCHANGED scratch
        BY <1>11, <3>2, QueueLane
      <4>2. PICK fs : fs = jobs.staging \union {f}
        OBVIOUS
      <4>3. fs \in SUBSET Files /\ jobs' = [jobs EXCEPT !.staging = fs] /\ jobs \in JobSets
        BY <1>0, <4>1, <4>2 DEF ImportTyped
      <4>4. jobs'.staging = fs
        BY <4>3, JobsSet
      <4> QED BY <1>0, <2>3, <4>1, <4>2, <4>4
    <3> QED BY <3>1, <3>2
  <2> QED BY <2>2, <2>4 DEF ScratchInv
<1>12. ASSUME NEW f \in Files, HandleFailed(f) PROVE ScratchInv'
  <2>1. /\ stream[f] \in {"failed", "unread", "cut"} /\ stream' = [stream EXCEPT ![f] = "handled"]
        /\ UNCHANGED <<jobs, scratch, step>>
    BY <1>12 DEF HandleFailed
  <2>2. \A g \in Files : stream'[g] = IF g = f THEN "handled" ELSE stream[g]
    BY <1>s, <2>1
  <2>3. scratch' \subseteq Held'
    BY <1>0, <2>1, <2>2
  <2> QED BY <1>1, <2>1, <2>3
<1>13. ASSUME NEW f \in Files, Receive(f) PROVE ScratchInv'
  <2>1. /\ UNCHANGED <<jobs, step>> /\ stream[f] = "reading"
        /\ \/ stream' = [stream EXCEPT ![f] = "received"] /\ UNCHANGED scratch
           \/ /\ \E s \in {"failed", "unread", "cut"} : stream' = [stream EXCEPT ![f] = s]
              /\ scratch' = scratch \ {f}
    BY <1>13 DEF Receive
  <2>2. \A g \in Files \ {f} : stream'[g] = stream[g]
    BY <1>s, <2>1
  <2>3. scratch' \subseteq scratch /\ (f \in scratch' => stream'[f] = "received")
    BY <1>s, <2>1
  <2>4. scratch' \subseteq Held'
    BY <1>0, <2>1, <2>2, <2>3
  <2> QED BY <1>1, <2>1, <2>3, <2>4
<1>14. CASE Peer
  <2>1. UNCHANGED <<jobs, scratch, step>>
    BY <1>14 DEF Peer, PeerCredit, PeerJoins, PeerAborts, PeerOpens
  <2>2. \A f \in Files : stream[f] \in {"reading", "received"} => stream'[f] = stream[f]
    BY <1>s, <1>14 DEF Peer, PeerCredit, PeerJoins, PeerAborts, PeerOpens
  <2>3. scratch' \subseteq Held'
    BY <1>0, <2>1, <2>2
  <2> QED BY <1>1, <2>1, <2>3
<1>15. CASE Takes \/ LaneApply \/ LaneReport \/ LaneDies
  <2>1. UNCHANGED <<step, stream, jobs, scratch>>
    BY <1>15 DEF Takes, LaneTake, LaneCollect, LaneApply, LaneReport, LaneDies
  <2> QED BY <1>2, <2>1
<1>16. CASE LaneStage
  <2>1. UNCHANGED <<step, stream, jobs>> /\ scratch' \subseteq scratch
    BY <1>16 DEF LaneStage
  <2>2. scratch' \subseteq Held'
    BY <1>0, <2>1
  <2> QED BY <1>1, <2>1, <2>2
<1> HIDE DEF Held
<1>17. Rest => ScratchInv'
  <2>1. Handles => ScratchInv'
    BY <1>10, <1>11, <1>12 DEF Handles
  <2>2. Lane => ScratchInv'
    BY <1>15, <1>16 DEF Lane, Takes
  <2> QED BY <1>5, <1>6, <1>7, <1>8, <1>9, <1>13, <1>14, <2>1, <2>2 DEF Rest
<1> QED BY <1>4, <1>5, <1>6, <1>17, Kinds, PartsAre

(* What arrives has credit, and what has credit or is to be staged fits the *)
(* budget.                                                                  *)
LEMMA CreditKeeps ==
  ASSUME ImportTyped, LaneTyped, Flow, EarlyInv, EventInv, ScratchInv, CreditInv, [Next]_vars
  PROVE  CreditInv'
<1>0. /\ size \in [Files -> Nat] /\ window.active \in SUBSET Files /\ jobs.staging \in SUBSET Files
      /\ scratch \in SUBSET Files /\ peer \in Peers
      /\ stream \in [Files -> {"none", "open", "reading", "received", "failed", "unread", "cut", "handled"}]
      /\ peer.inbox \in Seq(SUBSET Files)
  BY DEF ImportTyped, Windows, JobSets, Streams, Peers
<1>z. size' = size
  <2>1. Aside \/ Finish => size' = size
    BY DEF Aside, ImportKept, Finish, FinishImport
  <2>2. Session => size' = size
    BY DEF Session, Plan, Discover, SkipBatch, RequestBatch, BatchBreaks, ReadEnd, TakeReports,
           CloseBatch, EndBatch, Enqueue, AcceptStream, HandleReceived, HandleFailed
  <2>3. Lane \/ Peer \/ (\E f \in Files : Receive(f)) => size' = size
    BY DEF Lane, LaneTake, LaneCollect, LaneStage, LaneApply, LaneReport, LaneDies,
           Peer, PeerCredit, PeerJoins, PeerAborts, PeerOpens, Receive
  <2> QED BY <2>1, <2>2, <2>3, Kinds DEF Parts
<1>1. ASSUME NEW A \in SUBSET Files, Bytes(A) <= ByteBudget, NEW B \in SUBSET A
      PROVE  Bytes(B) <= ByteBudget /\ Bytes(B)' <= ByteBudget
  <2>1. B \in SUBSET Files /\ B \subseteq A
    OBVIOUS
  <2>2. Bytes(B) <= ByteBudget
    BY <1>0, <1>1, <2>1, Lighter
  <2> QED BY <1>z, <2>2 DEF Bytes
<1>2. Bytes(scratch) <= ByteBudget /\
      (Batching => Arriving \subseteq window.active
                   /\ Bytes(window.active \union jobs.staging) <= ByteBudget)
  BY DEF CreditInv
<1>w. \A A : Bytes(A)' = Weight(size, A')
  BY <1>z DEF Bytes
<1>3. ASSUME scratch' \subseteq scratch, ~Batching' PROVE CreditInv'
  <2>1. Bytes(scratch)' <= ByteBudget
    <3>1. PICK s : s = scratch'
      OBVIOUS
    <3>2. Bytes(s) <= ByteBudget
      BY <1>0, <1>1, <1>2, <1>3, <3>1
    <3> QED BY <1>z, <3>1, <3>2 DEF Bytes
  <2> QED BY <1>3, <2>1 DEF CreditInv
<1>4. ASSUME scratch' \subseteq scratch, Batching, Arriving' \subseteq Arriving,
             window'.active = window.active, jobs'.staging \subseteq jobs.staging
      PROVE  CreditInv'
  <2>1. Bytes(scratch)' <= ByteBudget
    <3>1. PICK s : s = scratch'
      OBVIOUS
    <3>2. Bytes(s) <= ByteBudget
      BY <1>0, <1>1, <1>2, <1>4, <3>1
    <3> QED BY <1>z, <3>1, <3>2 DEF Bytes
  <2>2. Bytes(window.active \union jobs.staging)' <= ByteBudget
    <3>1. PICK s : s = (window.active \union jobs.staging)'
      OBVIOUS
    <3>2. s \subseteq window.active \union jobs.staging
      BY <1>4, <3>1
    <3>3. window.active \union jobs.staging \in SUBSET Files
      BY <1>0
    <3>4. Bytes(s) <= ByteBudget
      BY <1>1, <1>2, <1>4, <3>2, <3>3
    <3> QED BY <1>z, <3>1, <3>4 DEF Bytes
  <2> QED BY <1>2, <1>4, <2>1, <2>2 DEF CreditInv
<1>5. ASSUME UNCHANGED <<step, window, batch, stream, peer, jobs>>, scratch' \subseteq scratch
      PROVE  CreditInv'
  <2>1. Batching' <=> Batching
    BY <1>5 DEF Batching
  <2>2. Arriving' = Arriving
    BY <1>5 DEF Arriving
  <2> QED BY <1>3, <1>4, <1>5, <2>1, <2>2
<1>6. CASE Aside \/ Finish
  <2>1. UNCHANGED <<step, window, batch, stream, peer, jobs, scratch>>
    BY <1>6 DEF Aside, ImportKept, Finish, FinishImport
  <2> QED BY <1>5, <2>1
<1>7. CASE Lane
  <2>1. UNCHANGED <<step, window, batch, stream, peer, jobs>> /\ scratch' \subseteq scratch
    BY <1>7 DEF Lane, LaneTake, LaneCollect, LaneStage, LaneApply, LaneReport, LaneDies
  <2> QED BY <1>5, <2>1
<1>8. CASE Plan \/ Discover \/ SkipBatch \/ CloseBatch \/ EndBatch \/ Enqueue
  <2>1. step' # "batch"
    BY <1>8, StepMoves
  <2>2. scratch' = scratch
    BY <1>8 DEF Plan, Discover, SkipBatch, CloseBatch, EndBatch, Enqueue
  <2> QED BY <1>3, <2>1, <2>2 DEF Batching
<1>9. CASE BatchBreaks
  <2>1. scratch' = scratch /\ batch' = [batch EXCEPT !.broken = TRUE] /\ batch \in Batches
    BY <1>9 DEF BatchBreaks, ImportTyped
  <2>2. batch'.broken
    BY <2>1 DEF Batches
  <2> QED BY <1>3, <2>1, <2>2 DEF Batching
<1>10. CASE ReadEnd
  <2>1. UNCHANGED <<scratch, window, stream, peer, jobs>> /\ Batching
    BY <1>10 DEF ReadEnd
  <2> QED BY <1>4, <2>1 DEF Arriving
<1>11. CASE RequestBatch
  <2>1. scratch' = scratch /\ stream' = stream /\ step = "request"
    BY <1>11 DEF RequestBatch
  <2>2. scratch = {} /\ jobs.staging = {} /\ peer.sending = {} /\ stream = [f \in Files |-> "none"]
    BY <2>1 DEF EarlyInv, Early
  <2>3. CASE step' # "batch"
    BY <1>3, <2>1, <2>3 DEF Batching
  <2>4. CASE step' = "batch"
    <3>1. PICK give \in SUBSET Files :
           /\ window' \in Windows /\ window'.active = give /\ Bytes(give) <= ByteBudget
           /\ peer' \in Peers /\ peer'.sending = peer.sending
           /\ peer'.inbox = <<>> \/ peer'.inbox = <<give>>
      BY <1>11, <2>4, StartIs
    <3>2. \A i \in DOMAIN peer'.inbox : peer'.inbox[i] = give
      BY <3>1
    <3>3. \A f \in Files : stream'[f] = "none"
      BY <2>1, <2>2
    <3>4. Arriving' \subseteq give
      BY <2>2, <3>1, <3>2, <3>3 DEF Arriving
    <3>5. jobs' = jobs
      BY <1>11, <2>4, BookSteps DEF Turns
    <3>6. window'.active \union jobs'.staging = give
      BY <2>2, <3>1, <3>5
    <3>7. Bytes(window.active \union jobs.staging)' <= ByteBudget
      BY <1>z, <3>1, <3>6 DEF Bytes
    <3>8. Bytes(scratch)' <= ByteBudget
      BY <1>z, <1>2, <2>1 DEF Bytes
    <3> QED BY <3>1, <3>4, <3>7, <3>8 DEF CreditInv
  <2> QED BY <2>3, <2>4
<1>12. ASSUME NEW A \in SUBSET Files, NEW S \in SUBSET Files, Grants(A, S), jobs'.staging = S,
              scratch' \subseteq scratch,
              \A f \in Arriving : f \in A \/ stream'[f] = "handled",
              \A f \in Files : stream'[f] \in {"handled", stream[f]}
       PROVE  CreditInv'
  <2>1. PICK give \in SUBSET Files :
          /\ window' \in Windows /\ window'.active = A \union give
          /\ Bytes(window'.active \union S) <= ByteBudget
          /\ peer'.sending = peer.sending
          /\ peer'.inbox = peer.inbox \/ peer'.inbox = Append(peer.inbox, give)
    BY <1>12 DEF Grants
  <2>2. \A i \in DOMAIN peer'.inbox : peer'.inbox[i] = give \/ \E k \in DOMAIN peer.inbox : peer'.inbox[i] = peer.inbox[k]
    <3>1. CASE peer'.inbox = peer.inbox
      BY <3>1
    <3>2. CASE peer'.inbox = Append(peer.inbox, give)
      <4>1. PICK s : s = peer.inbox
        OBVIOUS
      <4>2. s \in Seq(SUBSET Files) /\ peer'.inbox = Append(s, give)
        BY <1>0, <3>2, <4>1
      <4>3. \A i \in DOMAIN Append(s, give) : Append(s, give)[i] = give \/ \E k \in DOMAIN s : Append(s, give)[i] = s[k]
        BY <4>2
      <4> QED BY <4>1, <4>2, <4>3
    <3> QED BY <2>1, <3>1, <3>2
  <2>3. Arriving' \subseteq A \union give
    <3> SUFFICES ASSUME NEW f \in Arriving', f \notin give PROVE f \in A
      OBVIOUS
    <3>1. f \in Files /\ stream'[f] # "handled"
      BY DEF Arriving
    <3>2. stream'[f] = stream[f]
      BY <1>12, <3>1
    <3>3. f \in Arriving
      BY <2>1, <2>2, <3>1, <3>2 DEF Arriving
    <3> QED BY <1>12, <3>1, <3>3
  <2>4. Bytes(window.active \union jobs.staging)' <= ByteBudget
    BY <1>z, <1>12, <2>1 DEF Bytes
  <2>5. Bytes(scratch)' <= ByteBudget
    <3>1. PICK s : s = scratch'
      OBVIOUS
    <3>2. Bytes(s) <= ByteBudget
      BY <1>0, <1>1, <1>2, <1>12, <3>1
    <3> QED BY <1>z, <3>1, <3>2 DEF Bytes
  <2> QED BY <2>1, <2>3, <2>4, <2>5 DEF CreditInv
<1>13. ASSUME NEW f \in Files, HandleReceived(f) PROVE CreditInv'
  <2>1. stream' = [stream EXCEPT ![f] = "handled"] /\ scratch' \subseteq scratch /\ UNCHANGED step
    BY <1>13 DEF HandleReceived
  <2>2. CASE Dead
    <3>1. batch'.broken
      BY <1>13, <2>2, FreedCredit
    <3> QED BY <1>3, <2>1, <3>1 DEF Batching
  <2>3. CASE ~Dead /\ step = "drain"
    BY <1>3, <2>1, <2>3 DEF Batching
  <2>4. CASE ~Dead /\ step # "drain"
    <3> DEFINE A == window.active \ {f}
               S == jobs.staging \union {f}
    <3>1. Grants(A, S) /\ Batching
      BY <1>13, <2>4, FreedCredit DEF HandleReceived
    <3>2. A \in SUBSET Files /\ S \in SUBSET Files
      BY <1>0
    <3>3. jobs'.staging = S
      <4>1. PICK fs : fs = S
        OBVIOUS
      <4>2. jobs' = [jobs EXCEPT !.staging = fs] /\ fs \in SUBSET Files /\ jobs \in JobSets
        BY <1>13, <2>4, <3>2, <4>1, QueueLane DEF ImportTyped
      <4> QED BY <4>1, <4>2, JobsSet
    <3>4. \A g \in Files : stream'[g] = IF g = f THEN "handled" ELSE stream[g]
      BY <1>0, <2>1
    <3>5. \A g \in Arriving : g \in Files /\ g \in window.active
      BY <1>2, <3>1 DEF Arriving
    <3>6. \A g \in Arriving : g \in A \/ stream'[g] = "handled"
      BY <3>4, <3>5
    <3>7. \A g \in Files : stream'[g] \in {"handled", stream[g]}
      BY <3>4
    <3> HIDE DEF A, S
    <3> QED BY <1>12, <2>1, <3>1, <3>2, <3>3, <3>6, <3>7
  <2> QED BY <2>2, <2>3, <2>4
<1>14. ASSUME NEW f \in Files, HandleFailed(f) PROVE CreditInv'
  <2>1. /\ stream' = [stream EXCEPT ![f] = "handled"] /\ UNCHANGED <<scratch, step, jobs>>
        /\ Batching \/ step = "drain"
    BY <1>14 DEF HandleFailed
  <2>2. \A g \in Files : stream'[g] = IF g = f THEN "handled" ELSE stream[g]
    BY <1>0, <2>1
  <2>3. CASE step = "drain"
    BY <1>3, <2>1, <2>3 DEF Batching
  <2>4. CASE Batching /\ UNCHANGED <<window, peer, batch>>
    <3>1. Arriving' \subseteq Arriving
      BY <2>2, <2>4 DEF Arriving
    <3> QED BY <1>4, <2>1, <2>4, <3>1
  <2>6. CASE batch'.broken
    BY <1>3, <2>1, <2>6 DEF Batching
  <2>5. CASE Batching /\ Grants(window.active \ {f}, jobs.staging)
    <3>1. window.active \ {f} \in SUBSET Files
      BY <1>0
    <3>2. \A g \in Arriving : g \in Files /\ g \in window.active
      BY <1>2, <2>5 DEF Arriving
    <3>3. \A g \in Arriving : g \in window.active \ {f} \/ stream'[g] = "handled"
      BY <2>2, <3>2
    <3>4. \A g \in Files : stream'[g] \in {"handled", stream[g]}
      BY <2>2
    <3> QED BY <1>0, <1>12, <2>1, <2>5, <3>1, <3>3, <3>4
  <2> QED BY <1>14, <2>1, <2>3, <2>4, <2>5, <2>6, FreedCredit
<1>15. CASE TakeReports
  <2>1. UNCHANGED <<scratch, step, stream>> /\ (Batching \/ step = "drain")
    BY <1>15 DEF TakeReports
  <2>2. Unreported \in SUBSET Files /\ jobs'.staging = Unreported
    <3>1. jobs \in JobSets /\ Unreported \in SUBSET Files
      BY DEF ImportTyped, JobSets, Unreported
    <3>2. jobs' = [jobs EXCEPT !.staging = Unreported]
      BY <1>15 DEF TakeReports
    <3> QED BY <3>1, <3>2, JobsSet
  <2>3. CASE step = "drain"
    BY <1>3, <2>1, <2>3 DEF Batching
  <2>4. CASE Batching /\ step # "drain"
    <3>1. Grants(window.active, Unreported)
      BY <1>15, <2>4, FreedCredit
    <3> QED BY <1>0, <1>2, <1>12, <2>1, <2>2, <2>4, <3>1
  <2> QED BY <2>1, <2>3, <2>4
<1>16. ASSUME NEW f \in Files, AcceptStream(f) PROVE CreditInv'
  <2>1. /\ UNCHANGED <<step, window, batch, peer, jobs>> /\ Batching
        /\ stream[f] = "open" /\ stream' = [stream EXCEPT ![f] = "reading"]
        /\ scratch' = scratch \union {f}
    BY <1>16 DEF AcceptStream
  <2>2. \A g \in Files : stream'[g] = IF g = f THEN "reading" ELSE stream[g]
    BY <1>0, <2>1
  <2>3. Arriving' \subseteq Arriving /\ f \in Arriving
    BY <2>1, <2>2 DEF Arriving
  <2>4. Bytes(window.active \union jobs.staging)' <= ByteBudget
    BY <1>z, <1>2, <2>1 DEF Bytes
  <2>5. scratch \subseteq Arriving \union jobs.staging
    BY DEF ScratchInv, Arriving
  <2>6. PICK s : s = scratch'
    OBVIOUS
  <2>7. s \subseteq window.active \union jobs.staging /\ window.active \union jobs.staging \in SUBSET Files
    BY <1>0, <1>2, <2>1, <2>3, <2>5, <2>6
  <2>8. Bytes(s) <= ByteBudget
    BY <1>1, <1>2, <2>1, <2>7
  <2>9. Bytes(scratch)' <= ByteBudget
    BY <1>z, <2>6, <2>8 DEF Bytes
  <2> QED BY <1>2, <2>1, <2>3, <2>4, <2>9 DEF CreditInv
<1>17. ASSUME NEW f \in Files, Receive(f) PROVE CreditInv'
  <2>1. UNCHANGED <<step, window, batch, peer, jobs>> /\ scratch' \subseteq scratch /\ stream[f] = "reading"
    BY <1>17 DEF Receive
  <2>2. \A g \in Files \ {f} : stream'[g] = stream[g]
    BY <1>0, <1>17 DEF Receive
  <2>3. Arriving' \subseteq Arriving
    BY <2>1, <2>2 DEF Arriving
  <2> QED BY <1>3, <1>4, <2>1, <2>3 DEF Batching
<1>18. CASE Peer
  <2>1. UNCHANGED <<step, window, batch, jobs, scratch>>
    BY <1>18 DEF Peer, PeerCredit, PeerJoins, PeerAborts, PeerOpens
  <2>2. Arriving' \subseteq Arriving
    <3>1. ASSUME NEW f \in Files, PeerOpens(f) PROVE Arriving' \subseteq Arriving
      <4>1. f \in peer.sending /\ stream[f] = "none" /\ UNCHANGED peer
        BY <3>1 DEF PeerOpens
      <4>2. \A g \in Files \ {f} : stream'[g] = stream[g]
        BY <1>0, <3>1 DEF PeerOpens
      <4> QED BY <4>1, <4>2 DEF Arriving
    <3>2. CASE PeerJoins \/ PeerAborts
      <4>1. peer'.inbox = peer.inbox /\ peer'.sending = peer.sending
        BY <3>2, PeerIs
      <4>2. UNCHANGED stream
        BY <3>2 DEF PeerJoins, PeerAborts
      <4> QED BY <4>1, <4>2 DEF Arriving
    <3>3. CASE PeerCredit
      <4>1. /\ peer.inbox # <<>> /\ peer'.inbox = Tail(peer.inbox)
            /\ peer'.sending = Head(peer.inbox)
        BY <3>3, PeerIs
      <4>2. UNCHANGED stream
        BY <3>3 DEF PeerCredit
      <4>3. PICK s : s = peer.inbox
        OBVIOUS
      <4>4. /\ s \in Seq(SUBSET Files) /\ s # <<>>
        BY <1>0, <4>1, <4>3
      <4>5. 1 \in DOMAIN s /\ Head(s) = s[1]
        BY <4>4
      <4>6. \A i \in DOMAIN Tail(s) : \E k \in DOMAIN s : Tail(s)[i] = s[k]
        BY <4>4
      <4> QED BY <4>1, <4>2, <4>3, <4>5, <4>6 DEF Arriving
    <3> QED BY <1>18, <3>1, <3>2, <3>3 DEF Peer
  <2> QED BY <1>3, <1>4, <2>1, <2>2 DEF Batching
<1>19. Rest => CreditInv'
  <2>1. Handles => CreditInv'
    BY <1>13, <1>14, <1>16 DEF Handles
  <2> QED BY <1>7, <1>8, <1>9, <1>10, <1>11, <1>15, <1>17, <1>18, <2>1 DEF Rest
<1> QED BY <1>6, <1>8, <1>19, Kinds, PartsAre

-----------------------------------------------------------------------------
(* The books lose nothing.                                                 *)

(* What is said of the books stays true while nothing is reported. *)
LEMMA SameOpen ==
  ASSUME results' = results
  PROVE  /\ Open' = Open
         /\ BookIs(book)' <=> BookIs(book')
         /\ NoneLost(book)' <=> NoneLost(book')
<1>1. Open' = Open
  BY DEF Open
<1> QED BY <1>1 DEF BookIs, NoneLost

(* Discovery moves the next project on, to where it is ready or awaited. *)
LEMMA FoundKeeps ==
  ASSUME ImportTyped, EarlyInv, step = "discover", BookIs(book), book.left # <<>>,
         Found(Head(book.left))
  PROVE  BookIs(book') /\ (NoneLost(book) => NoneLost(book'))
<1> DEFINE p == Head(book.left)
<1>1. /\ book \in Books /\ book.left \in Seq(All) /\ book.tombs \in Seq(All)
      /\ book.awaited \in SUBSET Files
  BY DEF ImportTyped, Books
<1>2. /\ p \in All /\ Tail(book.left) \in Seq(All)
      /\ Range(book.left) = Range(Tail(book.left)) \union {p}
      /\ IsInjective(Tail(book.left)) /\ p \notin Range(Tail(book.left))
  BY <1>1, TailList DEF BookIs
<1>3. book.done = {}
  BY DEF EarlyInv, Early
<1>4. p \notin Range(book.ready) \union Range(book.tombs) /\ p \in Open
  BY <1>2 DEF BookIs
<1> HIDE DEF p
<1>5. CASE /\ p \in Range(Tombstones)
           /\ book'.tombs = book.tombs \/ book'.tombs = Append(book.tombs, p)
           /\ book'.left = Tail(book.left) /\ book'.ready = book.ready
           /\ book'.awaited = book.awaited /\ book'.spoiled = book.spoiled
           /\ book'.done = book.done
  <2>1. /\ Range(book'.tombs) \subseteq Range(book.tombs) \union {p} /\ IsInjective(book'.tombs)
    <3>1. CASE book'.tombs = book.tombs
      BY <3>1 DEF BookIs
    <3>2. CASE book'.tombs = Append(book.tombs, p)
      BY <1>1, <1>2, <1>4, <3>2, AppendList DEF BookIs
    <3> QED BY <1>5, <3>1, <3>2
  <2>2. /\ IsInjective(book'.left) /\ Range(book'.left) = Range(book.left) \ {p}
    BY <1>2, <1>5
  <2>3. BookIs(book')
    BY <1>4, <1>5, <2>1, <2>2 DEF BookIs
  <2>4. ASSUME NoneLost(book) PROVE NoneLost(book')
    <3>1. p \notin Range(Projects)
      BY <1>5, Offers
    <3> QED BY <1>5, <2>2, <2>4, <3>1 DEF NoneLost
  <2> QED BY <2>3, <2>4
<1>6. ASSUME NEW a \in Books, NEW unreadable \in SUBSET Needs(p), p \notin Range(Tombstones),
             a.left = Tail(book.left), a.ready = book.ready, a.tombs = book.tombs,
             a.done = book.done, book' = WithReady(a)
      PROVE  BookIs(book') /\ (NoneLost(book) => NoneLost(book'))
  <2>1. Range(a.left) = Range(book.left) \ {p} /\ IsInjective(a.left)
    BY <1>2, <1>6
  <2>2. BookIs(a)
    BY <1>3, <1>6, <2>1 DEF BookIs
  <2>3. (BookIs(a) => BookIs(WithReady(a))) /\ NoneLost(WithReady(a))
    BY WithReadyKeeps
  <2> QED BY <1>6, <2>2, <2>3
<1>7. Found(p)
  BY DEF p
<1> QED BY <1>5, <1>6, <1>7 DEF Found

(* The books lose and double no project. *)
LEMMA BookKeeps ==
  ASSUME ImportTyped, LaneTyped, Flow, EarlyInv, BookInv, [Next]_vars
  PROVE  BookInv'
<1> SUFFICES ASSUME verdict' = "none"
             PROVE  BookInv'
  BY DEF BookInv
<1>1. verdict = "none"
  <2>1. Finish => verdict = "none"
    BY StepMoves
  <2> QED BY <2>1, Kinds DEF Aside, Parts, runVars
<1>2. ~Finish
  BY DEF Finish, Ends
<1>3. ~Cancelled' => ~Cancelled
  <2>1. Parts => Cancelled' = Cancelled
    BY PartsAllowed DEF Cancelled
  <2> QED BY <2>1, <1>2, Kinds DEF Aside
<1>4. /\ BookIs(book)
      /\ step = "plan" => book.left = <<>> /\ book.ready = <<>> /\ book.tombs = <<>> /\ Open = All
      /\ \A p \in All : results[p] \in 0..1
      /\ step # "plan" /\ ~Cancelled => NoneLost(book)
      /\ step \notin {"plan", "discover"} /\ ~Cancelled => book.left = <<>>
      /\ step \in Late /\ ~Cancelled => book.awaited = {}
  BY <1>1 DEF BookInv
<1>5. ASSUME UNCHANGED <<step, book, results>> PROVE BookInv'
  <2>1. Open' = Open /\ (BookIs(book)' <=> BookIs(book')) /\ (NoneLost(book)' <=> NoneLost(book'))
    BY <1>5, SameOpen
  <2>2. BookIs(book)' /\ (NoneLost(book) => NoneLost(book)')
    BY <1>4, <1>5, <2>1
  <2> QED BY <1>3, <1>4, <1>5, <2>1, <2>2 DEF BookInv
<1>6. CASE Aside
  BY <1>5, <1>6 DEF Aside, ImportKept
<1>7. CASE Lane \/ Peer \/ \E f \in Files : Receive(f)
  <2>1. UNCHANGED <<step, book, results>>
    BY <1>7 DEF Lane, LaneTake, LaneCollect, LaneStage, LaneApply, LaneReport, LaneDies,
                Peer, PeerCredit, PeerJoins, PeerAborts, PeerOpens, Receive
  <2> QED BY <1>5, <2>1
<1>8. CASE Plan
  <2>1. UNCHANGED token
    <3>1. Plan => UNCHANGED token
      BY DEF Plan
    <3> QED BY <1>8, <3>1
  <2>2. CASE Cancelled /\ step' = "after" /\ UNCHANGED <<book, results>>
    <3>1. Cancelled'
      BY <2>1, <2>2 DEF Cancelled
    <3>2. BookIs(book)'
      BY <1>4, <2>2, SameOpen
    <3> QED BY <1>4, <2>2, <3>1, <3>2 DEF BookInv, Late
  <2>3. CASE /\ step' = "discover" /\ book' \in Books
             /\ book'.awaited = book.awaited /\ book'.spoiled = book.spoiled
             /\ book'.done = book.done /\ book'.ready = book.ready /\ book'.tombs = book.tombs
             /\ IsInjective(book'.left)
             /\ \E failed \in SUBSET All :
                  /\ results' = [p \in All |-> IF p \in failed THEN 1 ELSE 0]
                  /\ Range(book'.left) = All \ failed
    <3>1. PICK failed \in SUBSET All :
                  /\ results' = [p \in All |-> IF p \in failed THEN 1 ELSE 0]
                  /\ Range(book'.left) = All \ failed
      BY <2>3
    <3>2. Open' = Range(book'.left) /\ \A p \in All : results'[p] \in 0..1
      BY <3>1 DEF Open
    <3>3. book'.ready = <<>> /\ book'.tombs = <<>>
      BY <1>4, <1>8, <2>3, PlanIs
    <3>4. BookIs(book)'
      BY <1>4, <2>3, <3>2, <3>3, EmptyList DEF BookIs
    <3>5. NoneLost(book)'
      BY <3>2 DEF NoneLost
    <3> QED BY <2>3, <3>2, <3>4, <3>5 DEF BookInv, Late
  <2> QED BY <1>8, <2>2, <2>3, PlanIs
<1>9. CASE Discover
  <2>1. results' = results /\ step = "discover"
    BY <1>9 DEF Discover
  <2>2. Open' = Open /\ (BookIs(book)' <=> BookIs(book')) /\ (NoneLost(book)' <=> NoneLost(book'))
    BY <2>1, SameOpen
  <2>3. CASE (book.left = <<>> \/ Cancelled) /\ step' = "request" /\ UNCHANGED book
    <3>1. ~Cancelled' => book'.left = <<>>
      BY <1>3, <2>3
    <3>2. BookIs(book)' /\ (~Cancelled' => NoneLost(book)')
      BY <1>3, <1>4, <2>1, <2>2, <2>3
    <3> QED BY <1>4, <2>1, <2>3, <3>1, <3>2 DEF BookInv, Late
  <2>4. CASE step' = "discover" /\ book.left # <<>> /\ Found(Head(book.left))
    <3>1. BookIs(book)' /\ (NoneLost(book) => NoneLost(book)')
      BY <1>4, <2>1, <2>2, <2>4, FoundKeeps
    <3> QED BY <1>3, <1>4, <2>1, <2>4, <3>1 DEF BookInv, Late
  <2> QED BY <1>9, <2>3, <2>4, DiscoverIs
<1>10. ASSUME Rest, step \notin {"plan", "discover"}, step' \notin {"plan", "discover"},
              step' \in Late /\ ~Cancelled' => book'.awaited = {}
       PROVE  BookInv'
  <2>1. BookKept(book, book') /\ results' = results
    BY <1>10, BookSteps
  <2>2. (BookIs(book)' <=> BookIs(book')) /\ (NoneLost(book)' <=> NoneLost(book'))
    BY <2>1, SameOpen
  <2>3. /\ BookIs(book') /\ (NoneLost(book) => NoneLost(book')) /\ book'.left = book.left
    BY <1>4, <2>1 DEF BookKept
  <2> QED BY <1>3, <1>4, <1>10, <2>1, <2>2, <2>3 DEF BookInv
<1>11. CASE BatchBreaks \/ ReadEnd \/ TakeReports \/ CloseBatch \/ Handles
  <2>1. step \in {"batch", "drain"} /\ step' \in {"batch", "drain"}
    <3>1. Handles => step \in {"batch", "drain"} /\ step' \in {"batch", "drain"}
      BY StepMoves DEF Handles
    <3> QED BY <1>11, <3>1, StepMoves
  <2>2. Rest
    BY <1>11 DEF Rest
  <2> QED BY <1>10, <2>1, <2>2 DEF Late
<1>12. CASE SkipBatch
  <2>1. step = "request" /\ step' \in {"enqueue", "after"} /\ Rest
    BY <1>12, StepMoves DEF Rest
  <2>2. ~Cancelled => book.awaited = {}
    BY <1>12 DEF SkipBatch
  <2>3. book' = book
    BY <1>12, BookSteps DEF Turns
  <2> QED BY <1>3, <1>10, <2>1, <2>2, <2>3
<1>13. CASE RequestBatch \/ EndBatch
  <2>1. step \in {"request", "drain"} /\ step' \in {"enqueue", "batch"} /\ Rest
    BY <1>13, StepMoves DEF Rest
  <2>2. book \in Books
    BY DEF ImportTyped
  <2>3. AllFailed(book).awaited = {}
    BY <1>4, <2>2, AllFailedIs
  <2>4. step' \in Late => Turns(AllFailed(book))
    BY <1>13, BookSteps DEF Late
  <2>5. step' \in Late => book'.awaited = {}
    BY <2>3, <2>4 DEF Turns
  <2> QED BY <1>10, <2>1, <2>5
<1>14. CASE Enqueue
  <2>1. step = "enqueue" /\ step' \in {"enqueue", "after"} /\ book' = book /\ Rest
    BY <1>14, StepMoves DEF Enqueue, Rest
  <2> QED BY <1>3, <1>4, <1>10, <2>1 DEF Late
<1>15. Rest => BookInv'
  BY <1>7, <1>11, <1>12, <1>13, <1>14 DEF Rest
<1> QED BY <1>2, <1>6, <1>8, <1>9, <1>15, Kinds, PartsAre

(* What verdict and cancellation were before a step that gives no verdict. *)
LEMMA BeforeVerdict ==
  ASSUME ImportTyped, LaneTyped, Flow, [Next]_vars, verdict' = "none"
  PROVE  verdict = "none" /\ ~Finish /\ (~Cancelled' => ~Cancelled)
<1>1. Finish => verdict = "none"
  BY StepMoves
<1>2. verdict = "none"
  BY <1>1, Kinds DEF Aside, Parts, runVars
<1>3. ~Finish
  BY DEF Finish, Ends
<1>4. ~Cancelled' => ~Cancelled
  <2>1. Parts => Cancelled' = Cancelled
    BY PartsAllowed DEF Cancelled
  <2> QED BY <2>1, <1>3, Kinds DEF Aside
<1> QED BY <1>2, <1>3, <1>4

(* An import becomes late with the tasks of its books, of which nothing is *)
(* awaited any more, or as called off with nothing to do.                  *)
LEMMA BecomesLate ==
  ASSUME ImportTyped, LaneTyped, Flow, EarlyInv, BookInv, [Next]_vars,
         step \notin Late, step' \in Late
  PROVE  /\ phase = "import" /\ verdict = "none" /\ verdict' = "none" /\ SameLane
         /\ UNCHANGED <<results, staged, applied, missing>> /\ (batch'.broken => lane'.off)
         /\ \/ /\ \E b \in Books : /\ BookIs(b) /\ Turns(b) /\ b.awaited = {}
                                   /\ BookKept(book, b) /\ FetchKept(book, b)
               /\ step \in {"request", "drain"}
            \/ step' = "after" /\ Cancelled' /\ UNCHANGED <<jobs, book>>
<1>1. Plan \/ SkipBatch \/ RequestBatch \/ EndBatch
  <2>1. Handles => step' = step
    BY StepMoves DEF Handles
  <2>2. BatchBreaks \/ ReadEnd \/ TakeReports \/ CloseBatch => step' \notin Late
    BY StepMoves DEF Late
  <2>3. Enqueue => step \in Late
    BY StepMoves DEF Late
  <2>4. Lane \/ Peer \/ (\E f \in Files : Receive(f)) \/ Aside \/ Finish => step' = step
    BY StepMoves
  <2>5. Discover => step' \notin Late
    BY StepMoves DEF Late
  <2> QED BY <2>1, <2>2, <2>3, <2>4, <2>5, Kinds, PartsAre DEF Rest
<1>2. SameLane
  BY <1>1, SessionLane
<1>3. phase = "import"
  <2>1. ~Aside /\ ~Finish /\ ~Lane /\ ~Peer /\ ~\E f \in Files : Receive(f)
    BY StepMoves
  <2> QED BY <2>1, Kinds, PartsAre
<1>4. verdict = "none" /\ verdict' = "none"
  <2>1. UNCHANGED runVars
    <3>1. ~Aside /\ ~Finish
      BY StepMoves
    <3> QED BY <3>1, Kinds, PartsAre
  <2> QED BY <1>3, <2>1 DEF Flow, runVars
<1>5. book \in Books /\ BookIs(book) /\ AllFailed(book) \in Books
      /\ BookIs(AllFailed(book)) /\ AllFailed(book).awaited = {}
      /\ BookKept(book, AllFailed(book)) /\ FetchKept(book, AllFailed(book))
      /\ BookKept(book, book) /\ FetchKept(book, book)
  <2>1. book \in Books /\ BookIs(book)
    BY <1>4 DEF ImportTyped, BookInv
  <2>2. BookKept(book, AllFailed(book)) /\ FetchKept(book, AllFailed(book))
        /\ AllFailed(book).awaited = {}
    BY <2>1, AllFailedIs
  <2>3. BookKept(book, book) /\ FetchKept(book, book)
    BY <2>1, KeptTrans
  <2> QED BY <2>1, <2>2, <2>3 DEF BookKept
<1>6. UNCHANGED <<staged, applied, missing>>
  BY <1>1 DEF Plan, SkipBatch, RequestBatch, EndBatch
<1>7. ASSUME Plan
      PROVE  /\ step' = "after" /\ Cancelled' /\ UNCHANGED <<jobs, book, results>>
             /\ batch' = batch
  <2>1. UNCHANGED <<token, jobs, batch>>
    BY <1>7 DEF Plan
  <2>2. Cancelled /\ step' = "after" /\ UNCHANGED <<book, results>>
    BY <1>7, PlanIs DEF Late
  <2> QED BY <2>1, <2>2 DEF Cancelled
<1>8. ASSUME SkipBatch
      PROVE  /\ \/ Turns(book) /\ book.awaited = {} /\ step \in {"request", "drain"}
                \/ step' = "after" /\ Cancelled' /\ UNCHANGED <<jobs, book>>
             /\ UNCHANGED <<results, batch>>
  <2>1. UNCHANGED <<token, batch, results>> /\ step = "request"
    BY <1>8 DEF SkipBatch
  <2>2. CASE book.awaited = {} /\ ToEnqueue(book)
    BY <1>5, <2>1, <2>2, ToEnqueueIs
  <2>3. CASE Cancelled /\ step' = "after" /\ UNCHANGED <<book, jobs>>
    BY <2>1, <2>3 DEF Cancelled
  <2> QED BY <1>8, <2>2, <2>3 DEF SkipBatch
<1>9. ASSUME RequestBatch
      PROVE  Turns(AllFailed(book)) /\ step = "request" /\ UNCHANGED <<results, batch>>
  <2>1. step' # "batch"
    BY DEF Late
  <2>2. step = "request" /\ Turns(AllFailed(book))
    BY <1>9, <2>1, StepMoves, BookSteps
  <2>3. UNCHANGED <<results, batch>>
    BY <1>9, <2>1 DEF RequestBatch
  <2> QED BY <2>2, <2>3
<1>10. ASSUME EndBatch
       PROVE  /\ Turns(AllFailed(book)) /\ step = "drain" /\ UNCHANGED results
              /\ (batch'.broken => lane'.off)
  <2>1. Turns(AllFailed(book)) /\ step = "drain" /\ UNCHANGED results
    BY <1>10, StepMoves, BookSteps DEF EndBatch
  <2>2. PICK broken : /\ broken = (batch.broken \/ jobs.staging # {})
                      /\ batch' = [batch EXCEPT !.broken = broken]
                      /\ lane' = [lane EXCEPT !.off = @ \/ broken]
    BY <1>10 DEF EndBatch
  <2>3. batch \in Batches /\ lane \in Lanes
    BY DEF ImportTyped, LaneTyped
  <2>4. batch'.broken = broken
    BY <2>2, <2>3 DEF Batches
  <2>5. PICK off : off = (lane.off \/ broken)
    OBVIOUS
  <2>6. off \in BOOLEAN /\ lane' = [lane EXCEPT !.off = off]
    BY <2>2, <2>5
  <2>7. lane'.off = off
    BY <2>3, <2>6, LaneSet
  <2> QED BY <2>1, <2>4, <2>5, <2>7
<1>11. step \in Early => ~batch.broken
  BY DEF EarlyInv
<1>12. Plan \/ SkipBatch \/ RequestBatch => step \in Early
  BY StepMoves DEF Early
<1>13. batch'.broken => lane'.off
  BY <1>1, <1>7, <1>8, <1>9, <1>10, <1>11, <1>12
<1> QED BY <1>1, <1>2, <1>3, <1>4, <1>5, <1>6, <1>7, <1>8, <1>9, <1>10, <1>13

(* What is late stays as it is in the books, and only Enqueue moves it. *)
LEMMA LateSteps ==
  ASSUME ImportTyped, LaneTyped, Flow, [Next]_vars, step \in Late
  PROVE  /\ UNCHANGED <<book, batch>>
         /\ Enqueue \/ UNCHANGED <<step, jobs>>
         /\ Finish \/ UNCHANGED results
<1>1. Aside \/ Finish \/ Enqueue \/ Lane \/ Peer \/ \E f \in Files : Receive(f)
  <2>1. Handles => step \notin Late
    BY StepMoves DEF Handles, Late
  <2>2. Plan \/ Discover \/ SkipBatch \/ RequestBatch \/ BatchBreaks \/ ReadEnd \/ TakeReports
        \/ CloseBatch \/ EndBatch => step \notin Late
    BY StepMoves DEF Late
  <2> QED BY <2>1, <2>2, Kinds, PartsAre DEF Rest
<1>2. ASSUME Aside \/ Finish
      PROVE  UNCHANGED <<book, batch, step, jobs>> /\ (Finish \/ UNCHANGED results)
  BY <1>2 DEF Aside, ImportKept, Finish, FinishImport
<1>3. Enqueue => UNCHANGED <<book, batch, results>>
  BY DEF Enqueue
<1>4. Lane => UNCHANGED <<book, batch, step, jobs, results>>
  BY DEF Lane, LaneTake, LaneCollect, LaneStage, LaneApply, LaneReport, LaneDies
<1>5. ASSUME Peer PROVE UNCHANGED <<book, batch, step, jobs, results>>
  BY <1>5 DEF Peer, PeerCredit, PeerJoins, PeerAborts, PeerOpens
<1>6. ASSUME NEW f \in Files, Receive(f) PROVE UNCHANGED <<book, batch, step, jobs, results>>
  BY <1>6 DEF Receive
<1> QED BY <1>1, <1>2, <1>3, <1>4, <1>5, <1>6

(* The tasks of the books are of what they offer. *)
LEMMA OfTasks ==
  ASSUME NEW b \in Books, BookIs(b)
  PROVE  Of(Tasks(b)) = Offered(b) /\ IsInjective(Tasks(b))
<1>1. /\ Tasks(b) \in Seq([kind : {"apply"}, of : All])
      /\ {t.of : t \in Range(Tasks(b))} = Offered(b) /\ IsInjective(Tasks(b))
  BY TasksAre
<1>2. \A t \in Range(Tasks(b)) : t.kind = "apply"
  <2>1. \A t \in Range(Tasks(b)) : t \in [kind : {"apply"}, of : All]
    BY <1>1, RangeOfSeq
  <2> QED BY <2>1
<1> QED BY <1>1, <1>2 DEF Of

(* The first of the tasks to be enqueued is of no other project. *)
LEMMA OfNext ==
  ASSUME ImportTyped, jobs.next # <<>>
  PROVE  /\ Of(jobs.next) = Of(Tail(jobs.next)) \union {Head(jobs.next).of}
         /\ IsInjective(jobs.next) => /\ IsInjective(Tail(jobs.next))
                                      /\ Head(jobs.next).of \notin Of(Tail(jobs.next))
<1> DEFINE T == [kind : {"apply"}, of : All]
<1>1. PICK n, h, u : n = jobs.next /\ h = Head(n) /\ u = Tail(n)
  OBVIOUS
<1>2. n \in Seq(T) /\ n # <<>>
  BY <1>1 DEF ImportTyped, JobSets
<1>3. /\ h \in T /\ u \in Seq(T) /\ Range(n) = Range(u) \union {h}
      /\ IsInjective(n) => IsInjective(u) /\ h \notin Range(u)
  <2> HIDE DEF T
  <2> QED BY <1>1, <1>2, TailList
<1>4. \A t \in Range(u) : t \in T
  <2> HIDE DEF T
  <2> QED BY <1>3, RangeOfSeq
<1>5. Of(u) = {t.of : t \in Range(u)} /\ Of(n) = {t.of : t \in Range(n)}
  BY <1>3, <1>4 DEF Of
<1>6. ASSUME h \notin Range(u) PROVE h.of \notin Of(u)
  BY <1>3, <1>4, <1>5, <1>6
<1> QED BY <1>1, <1>3, <1>5, <1>6

(* What is queued, refused and still to be enqueued is what the books offer. *)
LEMMA JobsKeeps ==
  ASSUME ImportTyped, LaneTyped, Flow, EarlyInv, UnqueuedInv, BookInv, JobsInv, [Next]_vars
  PROVE  JobsInv'
<1> SUFFICES ASSUME verdict' = "none", step' \in Late
             PROVE  JobsInv'
  BY DEF JobsInv
<1>1. verdict = "none" /\ ~Finish /\ (~Cancelled' => ~Cancelled)
  BY BeforeVerdict
<1>2. CASE step \notin Late
  <2>1. jobs.next = <<>> /\ jobs.queued = {} /\ jobs.refused = {}
    BY <1>2 DEF UnqueuedInv
  <2>2. ASSUME NEW b \in Books, BookIs(b), Turns(b) PROVE JobsInv'
    <3>1. /\ jobs'.next = Tasks(b) /\ jobs'.queued = {} /\ jobs'.refused = {}
          /\ book' = b /\ step' = "enqueue"
      BY <2>1, <2>2 DEF Turns
    <3>2. Of(jobs'.next) = Offered(book') /\ IsInjective(jobs'.next)
      BY <2>2, <3>1, OfTasks
    <3> HIDE DEF Of
    <3> QED BY <3>1, <3>2 DEF JobsInv
  <2>3. ASSUME step' = "after", Cancelled', UNCHANGED <<jobs, book>> PROVE JobsInv'
    BY <2>1, <2>3, EmptyList DEF JobsInv, Of
  <2> QED BY <1>2, <2>2, <2>3, BecomesLate
<1>3. CASE step \in Late
  <2>1. /\ IsInjective(jobs.next)
        /\ jobs.queued \intersect Of(jobs.next) = {} /\ jobs.refused \intersect Of(jobs.next) = {}
        /\ jobs.queued \intersect jobs.refused = {}
        /\ (jobs.queued \union jobs.refused) \union Of(jobs.next) \subseteq Offered(book)
        /\ ~Cancelled => Offered(book) \subseteq (jobs.queued \union jobs.refused) \union Of(jobs.next)
        /\ step = "after" => jobs.next = <<>>
    BY <1>1, <1>3 DEF JobsInv
  <2>2. book' = book
    BY <1>3, LateSteps
  <2>3. ASSUME UNCHANGED <<step, jobs>> PROVE JobsInv'
    BY <1>1, <2>1, <2>2, <2>3 DEF JobsInv, Of
  <2>4. CASE Enqueue
    <3>1. CASE jobs.next = <<>>
      <4>1. UNCHANGED jobs
        BY <2>4, <3>1, EnqueueIs
      <4> QED BY <1>1, <2>1, <2>2, <3>1, <4>1 DEF JobsInv, Of
    <3>2. CASE jobs.next # <<>>
      <4>1. PICK x : x = Head(jobs.next).of
        OBVIOUS
      <4>2. /\ Of(jobs.next) = Of(jobs'.next) \union {x}
            /\ IsInjective(jobs'.next) /\ x \notin Of(jobs'.next)
        <5>1. jobs'.next = Tail(jobs.next)
          BY <2>4, <3>2, EnqueueIs
        <5> QED BY <2>1, <3>2, <4>1, <5>1, OfNext
      <4>3. /\ step' = "enqueue"
            /\ \/ jobs'.queued = jobs.queued \union {x} /\ jobs'.refused = jobs.refused
               \/ jobs'.refused = jobs.refused \union {x} /\ jobs'.queued = jobs.queued
        BY <2>4, <3>2, <4>1, EnqueueIs
      <4>4. Of(jobs.next)' = Of(jobs'.next)
        BY DEF Of
      <4> QED BY <1>1, <2>1, <2>2, <4>2, <4>3, <4>4 DEF JobsInv
    <3> QED BY <3>1, <3>2
  <2> QED BY <1>3, <2>3, <2>4, LateSteps
<1> QED BY <1>2, <1>3

(* Only what is enqueued counts as queued. *)
LEMMA QueuedSteps ==
  ASSUME ImportTyped, LaneTyped, Flow, [Next]_vars, ~Enqueue
  PROVE  jobs'.queued = jobs.queued
<1>0. jobs \in JobSets
  BY DEF ImportTyped
<1>1. UNCHANGED jobs => jobs'.queued = jobs.queued
  OBVIOUS
<1>2. \A b : Turns(b) => jobs'.queued = jobs.queued
  BY DEF Turns
<1>3. ASSUME NEW f \in Files, HandleReceived(f) PROVE jobs'.queued = jobs.queued
  <2>1. CASE UNCHANGED jobs
    BY <2>1
  <2>2. CASE jobs' = [jobs EXCEPT !.staging = @ \union {f}]
    <3>1. PICK fs : fs = jobs.staging \union {f}
      OBVIOUS
    <3>2. fs \in SUBSET Files /\ jobs' = [jobs EXCEPT !.staging = fs]
      BY <1>0, <2>2, <3>1 DEF JobSets
    <3> QED BY <1>0, <3>2, JobsSet
  <2> QED BY <1>3, <2>1, <2>2, QueueLane
<1>4. ASSUME TakeReports PROVE jobs'.queued = jobs.queued
  <2>1. Unreported \in SUBSET Files
    BY <1>0 DEF JobSets, Unreported
  <2>2. jobs' = [jobs EXCEPT !.staging = Unreported]
    BY <1>4 DEF TakeReports
  <2> QED BY <1>0, <2>1, <2>2, JobsSet
<1>5. ASSUME SkipBatch \/ RequestBatch \/ EndBatch PROVE jobs'.queued = jobs.queued
  BY <1>1, <1>2, <1>5, BookSteps
<1>6. ASSUME Plan \/ Discover \/ BatchBreaks \/ ReadEnd \/ CloseBatch PROVE UNCHANGED jobs
  BY <1>6 DEF Plan, Discover, BatchBreaks, ReadEnd, CloseBatch
<1>7. ASSUME NEW f \in Files, AcceptStream(f) \/ HandleFailed(f) \/ Receive(f) PROVE UNCHANGED jobs
  BY <1>7 DEF AcceptStream, HandleFailed, Receive
<1>8. ASSUME Lane PROVE UNCHANGED jobs
  BY <1>8 DEF Lane, LaneTake, LaneCollect, LaneStage, LaneApply, LaneReport, LaneDies
<1>9. ASSUME Peer PROVE UNCHANGED jobs
  BY <1>9 DEF Peer, PeerCredit, PeerJoins, PeerAborts, PeerOpens
<1>10. ASSUME Aside \/ Finish PROVE UNCHANGED jobs
  BY <1>10 DEF Aside, ImportKept, Finish, FinishImport
<1>11. Handles => jobs'.queued = jobs.queued
  BY <1>1, <1>3, <1>7 DEF Handles
<1>12. Rest => jobs'.queued = jobs.queued
  BY <1>1, <1>4, <1>5, <1>6, <1>7, <1>8, <1>9, <1>11 DEF Rest
<1> QED BY <1>1, <1>6, <1>10, <1>12, Kinds, PartsAre

(* What the lane has reported after one event more. *)
LEMMA ReportedIs ==
  ASSUME LaneTyped, NEW e \in EventSet, Reports(e)
  PROVE  /\ Range(lane'.events) = Range(lane.events) \union {e}
         /\ e.kind = "applied" => Reported' = Reported \union e.of
         /\ e.kind # "applied" => Reported' = Reported
<1>1. lane.events \in Seq(EventSet)
  BY DEF LaneTyped, Lanes
<1>2. Range(lane'.events) = Range(lane.events) \union {e}
  BY <1>1, AppendList DEF Reports
<1>3. Reported' = UNION {x.of : x \in {y \in Range(lane'.events) : y.kind = "applied"}}
  BY DEF Reported
<1>4. ASSUME e.kind = "applied" PROVE Reported' = Reported \union e.of
  <2>1. {y \in Range(lane'.events) : y.kind = "applied"}
          = {y \in Range(lane.events) : y.kind = "applied"} \union {e}
    BY <1>2, <1>4
  <2>2. \A x : x \in Reported' <=> \E y \in Range(lane'.events) : y.kind = "applied" /\ x \in y.of
    BY <1>3
  <2>3. \A x : x \in Reported <=> \E y \in Range(lane.events) : y.kind = "applied" /\ x \in y.of
    BY DEF Reported
  <2>4. \A x : x \in Reported' <=> x \in Reported \/ x \in e.of
    BY <1>2, <1>4, <2>2, <2>3
  <2> QED BY <2>4
<1>5. ASSUME e.kind # "applied" PROVE Reported' = Reported
  <2>1. {y \in Range(lane'.events) : y.kind = "applied"}
          = {y \in Range(lane.events) : y.kind = "applied"}
    BY <1>2, <1>5
  <2> QED BY <1>3, <2>1 DEF Reported
<1> QED BY <1>2, <1>4, <1>5

(* The projects of what the queue has gained. *)
LEMMA OfAppend ==
  ASSUME LaneTyped, NEW t \in TaskSet, Queues(t)
  PROVE  Of(lane'.queue) = Of(lane.queue) \union (IF t.kind = "apply" THEN {t.of} ELSE {})
<1>1. lane.queue \in Seq(TaskSet)
  BY DEF LaneTyped, Lanes
<1>2. Range(lane'.queue) = Range(lane.queue) \union {t}
  BY <1>1, AppendList DEF Queues
<1> QED BY <1>2 DEF Of

(* What is queued is in work, waits for it, or has been reported. *)
LEMMA ReportKeeps ==
  ASSUME ImportTyped, LaneTyped, Flow, UnqueuedInv, ReportInv, [Next]_vars
  PROVE  ReportInv'
<1>p. ReportInv' <=>
        /\ \A e \in Range(lane'.events) : e.kind = "applied" => e.of \subseteq jobs'.queued
        /\ Of(lane'.tasks) \union Of(lane'.queue) \subseteq jobs'.queued
        /\ ~Dead' => jobs'.queued \subseteq (Reported' \union Of(lane'.tasks)) \union Of(lane'.queue)
  BY DEF ReportInv, Of
<1>i. /\ \A e \in Range(lane.events) : e.kind = "applied" => e.of \subseteq jobs.queued
      /\ Of(lane.tasks) \union Of(lane.queue) \subseteq jobs.queued
      /\ ~Dead => jobs.queued \subseteq (Reported \union Of(lane.tasks)) \union Of(lane.queue)
  BY DEF ReportInv
<1>d. Dead => Dead'
  BY LateStays
<1> HIDE DEF ReportInv
<1>e. Of(<<>>) = {}
  BY EmptyList DEF Of
<1>1. ASSUME SameLane \/ \E w : Becomes(w), jobs'.queued = jobs.queued PROVE ReportInv'
  <2>1. lane'.tasks = lane.tasks /\ lane'.queue = lane.queue /\ lane'.events = lane.events
    BY <1>1 DEF SameLane, Becomes
  <2>2. Reported' = Reported
    BY <2>1 DEF Reported
  <2> QED BY <1>1, <1>d, <1>i, <1>p, <2>1, <2>2
<1>2. CASE Aside \/ Finish
  <2>1. SameLane
    BY <1>2, SessionLane
  <2>2. jobs'.queued = jobs.queued
    BY <1>2 DEF Aside, ImportKept, Finish, FinishImport
  <2> QED BY <1>1, <2>1, <2>2
<1>3. CASE Plan \/ Discover \/ SkipBatch \/ RequestBatch \/ BatchBreaks \/ ReadEnd \/ CloseBatch
           \/ EndBatch \/ Peer
  <2>1. SameLane
    BY <1>3, SessionLane
  <2>2. jobs'.queued = jobs.queued
    <3>1. Peer => UNCHANGED jobs
      BY DEF Peer, PeerCredit, PeerJoins, PeerAborts, PeerOpens
    <3>2. ~Peer => ~Enqueue
      BY <1>3, StepMoves
    <3> QED BY <3>1, <3>2, QueuedSteps
  <2> QED BY <1>1, <2>1, <2>2
<1>4. ASSUME NEW f \in Files, AcceptStream(f) \/ HandleFailed(f) \/ Receive(f) PROVE ReportInv'
  <2>1. SameLane
    BY <1>4, SessionLane
  <2>2. UNCHANGED jobs
    BY <1>4 DEF AcceptStream, HandleFailed, Receive
  <2> QED BY <1>1, <2>1, <2>2
<1>5. ASSUME NEW t \in TaskSet, Queues(t),
             jobs'.queued = jobs.queued \union (IF t.kind = "apply" THEN {t.of} ELSE {})
      PROVE  ReportInv'
  <2>1. lane'.tasks = lane.tasks /\ lane'.events = lane.events
    BY <1>5 DEF Queues
  <2>2. Reported' = Reported
    BY <2>1 DEF Reported
  <2>3. Of(lane'.queue) = Of(lane.queue) \union (IF t.kind = "apply" THEN {t.of} ELSE {})
    BY <1>5, OfAppend
  <2> QED BY <1>5, <1>d, <1>i, <1>p, <2>1, <2>2, <2>3
<1>6. ASSUME NEW f \in Files, HandleReceived(f) PROVE ReportInv'
  <2> DEFINE t == [kind |-> "stage", of |-> f]
  <2>1. jobs'.queued = jobs.queued
    <3>1. ~Enqueue
      BY <1>6, StepMoves
    <3> QED BY <3>1, QueuedSteps
  <2>2. t \in TaskSet /\ t.kind # "apply"
    BY DEF TaskSet
  <2>3. Queues(t) \/ UNCHANGED lane
    BY <1>6, QueueLane
  <2>4. UNCHANGED lane => SameLane
    BY DEF SameLane, LaneTyped
  <2> HIDE DEF t
  <2> QED BY <1>1, <1>5, <2>1, <2>2, <2>3, <2>4
<1>7. CASE Enqueue
  <2>1. UNCHANGED lane => SameLane
    BY DEF SameLane, LaneTyped
  <2>2. CASE UNCHANGED <<lane, jobs>>
    BY <1>1, <2>1, <2>2
  <2>3. CASE jobs.next # <<>> /\ Dead
    <3>1. UNCHANGED lane /\ jobs'.queued = jobs.queued
      BY <1>7, <2>3, EnqueueIs
    <3> QED BY <1>1, <2>1, <3>1
  <2>4. CASE jobs.next # <<>> /\ ~Dead
    <3>1. PICK h : h = Head(jobs.next)
      OBVIOUS
    <3>2. h \in TaskSet /\ h.kind = "apply"
      <4>1. jobs.next \in Seq([kind : {"apply"}, of : All])
        BY DEF ImportTyped, JobSets
      <4>2. h \in [kind : {"apply"}, of : All]
        BY <2>4, <3>1, <4>1, TailList
      <4> QED BY <4>2 DEF TaskSet
    <3>3. jobs'.queued = jobs.queued \union {h.of} /\ lane' = [lane EXCEPT !.queue = Append(@, h)]
      BY <1>7, <2>4, <3>1, EnqueueIs
    <3>4. Queues(h)
      <4>1. lane.queue \in Seq(TaskSet) /\ lane \in Lanes
        BY DEF LaneTyped, Lanes
      <4>2. PICK q : q = Append(lane.queue, h)
        OBVIOUS
      <4>3. q \in Seq(TaskSet) /\ lane' = [lane EXCEPT !.queue = q]
        BY <3>2, <3>3, <4>1, <4>2
      <4> QED BY <4>1, <4>2, <4>3, LaneSet DEF Queues
    <3> QED BY <1>5, <3>2, <3>3, <3>4
  <2> QED BY <1>7, <2>2, <2>3, <2>4, EnqueueIs
<1>8. CASE TakeReports
  <2>1. Emptied
    BY <1>8, QueueLane
  <2>2. step \notin Late
    BY <1>8, StepMoves DEF Late
  <2>3. jobs'.queued = jobs.queued
    <3>1. ~Enqueue
      BY <1>8, StepMoves
    <3> QED BY <3>1, QueuedSteps
  <2>4. jobs.queued = {}
    BY <2>2 DEF UnqueuedInv
  <2> QED BY <1>i, <1>p, <2>1, <2>3, <2>4, EmptyList DEF Emptied
<1>9. CASE Takes
  <2>1. UNCHANGED jobs
    BY <1>9 DEF Takes, LaneTake, LaneCollect
  <2>2. lane'.events = lane.events /\ ~Dead
    BY <1>9, TakesIs DEF Taken, Dead
  <2>3. Range(lane'.tasks) \union Range(lane'.queue) = Range(lane.tasks) \union Range(lane.queue)
    BY <1>9, TakesTyped
  <2>4. Of(lane'.tasks) \union Of(lane'.queue) = Of(lane.tasks) \union Of(lane.queue)
    BY <2>3 DEF Of
  <2>5. Reported' = Reported
    BY <2>2 DEF Reported
  <2> HIDE DEF Of
  <2> QED BY <1>i, <1>p, <2>1, <2>2, <2>4, <2>5
<1>10. ASSUME NEW e \in EventSet, Reports(e), UNCHANGED jobs, ~Dead,
              Of(lane.tasks) = IF e.kind = "applied" THEN e.of ELSE {}
       PROVE  ReportInv'
  <2>1. /\ Range(lane'.events) = Range(lane.events) \union {e}
        /\ e.kind = "applied" => Reported' = Reported \union e.of
        /\ e.kind # "applied" => Reported' = Reported
    BY <1>10, ReportedIs
  <2>2. lane'.queue = lane.queue /\ Of(lane'.tasks) = {}
    BY <1>10, <1>e DEF Reports
  <2> QED BY <1>10, <1>i, <1>p, <2>1, <2>2
<1>11. CASE LaneStage
  <2>1. UNCHANGED jobs /\ ~Dead
    BY <1>11 DEF LaneStage, Dead
  <2>2. PICK e \in EventSet : Reports(e) /\ e.kind = "staged"
    BY <1>11, LaneSteps
  <2>3. Of(lane.tasks) = {}
    <3>1. PICK h : h = Head(lane.tasks)
      OBVIOUS
    <3>2. lane.tasks = <<h>> /\ h.kind = "stage"
      BY <1>11, <3>1, LaneSteps
    <3>3. Range(<<h>>) = {h}
      BY DEF Range
    <3> QED BY <3>2, <3>3 DEF Of
  <2> QED BY <1>10, <2>1, <2>2, <2>3
<1>12. CASE LaneApply \/ LaneDies
  <2>1. UNCHANGED jobs
    BY <1>12 DEF LaneApply, LaneDies
  <2>2. \E w : Becomes(w)
    BY <1>12, LaneSteps
  <2> QED BY <1>1, <2>1, <2>2
<1>13. CASE LaneReport
  <2>1. UNCHANGED jobs /\ ~Dead
    BY <1>13 DEF LaneReport, Dead
  <2>2. PICK e : e = [kind |-> "applied", of |-> Of(lane.tasks)]
    OBVIOUS
  <2>3. e \in EventSet /\ Reports(e) /\ e.kind = "applied" /\ e.of = Of(lane.tasks)
    BY <1>13, <2>2, LaneSteps
  <2> QED BY <1>10, <2>1, <2>3
<1>14. CASE Parts
  <2>1. Lane => ReportInv'
    BY <1>9, <1>11, <1>12, <1>13 DEF Lane, Takes
  <2>2. Handles => ReportInv'
    BY <1>4, <1>6 DEF Handles
  <2>3. Rest => ReportInv'
    BY <1>3, <1>4, <1>7, <1>8, <2>1, <2>2 DEF Rest
  <2> QED BY <1>3, <1>14, <2>3, PartsAre
<1> QED BY <1>2, <1>14, Kinds

-----------------------------------------------------------------------------
(* Every project is reported once.                                         *)

(* A run that ends before it has finished an import has not begun one. *)
LEMMA EndsEarly ==
  ASSUME RunTyped, Flow, [Next]_vars, verdict = "none", verdict' # "none", ~Finish
  PROVE  step = "plan"
<1> USE DEF importVars, runVars, powerVars
<1>1. ASSUME Register \/ ReadEpoch \/ Acquire \/ Insert \/ Release PROVE FALSE
  BY <1>1 DEF Register, ReadEpoch, Acquire, Insert, Release, Go
<1>2. ASSUME WatchTimeout \/ LifecycleEvent \/ Tell \/ AbortConnection PROVE FALSE
  BY <1>2 DEF WatchTimeout, LifecycleEvent, Tell, AbortConnection
<1>3. ASSUME Disconnect \/ PlatformTimeout \/ Exit PROVE FALSE
  BY <1>3 DEF Disconnect, PlatformTimeout, Exit
<1>4. ASSUME Connect \/ Exchange PROVE step = "plan"
  BY <1>4 DEF Connect, Exchange, Flow
<1>5. ASSUME Attach \/ ImportDone PROVE FALSE
  BY <1>5 DEF Attach, ImportDone
<1>6. ASSUME Serve PROVE step = "plan"
  <2>1. role = "responder" /\ phase = "serve"
    BY <1>6 DEF Serve, RunTyped
  <2> QED BY <2>1 DEF Flow
<1>7. ASSUME Importing \/ Beside PROVE FALSE
  BY <1>7 DEF Importing, Beside
<1>8. ASSUME Over \/ UNCHANGED vars PROVE FALSE
  BY <1>8 DEF Over, vars
<1> QED BY <1>1, <1>2, <1>3, <1>4, <1>5, <1>6, <1>7, <1>8 DEF Next

(* Only the end of an import that was not called off makes a run a success. *)
LEMMA OkIsFinished ==
  ASSUME [Next]_vars, verdict' = "ok", ~Finish
  PROVE  verdict = "ok"
<1> DEFINE Goal == verdict' \in {verdict, "interrupted", "error"}
<1> USE DEF runVars, powerVars
<1>1. ASSUME Register \/ ReadEpoch \/ Acquire \/ Insert \/ Release PROVE Goal
  BY <1>1 DEF Register, ReadEpoch, Acquire, Insert, Release, Go
<1>2. ASSUME WatchTimeout \/ LifecycleEvent \/ Tell \/ AbortConnection PROVE Goal
  BY <1>2 DEF WatchTimeout, LifecycleEvent, Tell, AbortConnection
<1>3. ASSUME Disconnect \/ PlatformTimeout \/ Exit PROVE Goal
  BY <1>3 DEF Disconnect, PlatformTimeout, Exit
<1>4. ASSUME Connect \/ Exchange \/ Serve PROVE Goal
  BY <1>4 DEF Connect, Exchange, Serve, Failed, Ends
<1>5. ASSUME Attach \/ ImportDone PROVE Goal
  BY <1>5 DEF Attach, ImportDone
<1>6. ASSUME Importing \/ Beside PROVE Goal
  BY <1>6 DEF Importing, Beside
<1>7. ASSUME Over \/ UNCHANGED vars PROVE Goal
  BY <1>7 DEF Over, vars
<1> HIDE DEF Goal
<1>8. Goal
  BY <1>1, <1>2, <1>3, <1>4, <1>5, <1>6, <1>7 DEF Next
<1> QED BY <1>8 DEF Goal

(* A run that has a verdict moves nothing of the import any more. *)
LEMMA AfterVerdict ==
  ASSUME ImportTyped, LaneTyped, Flow, IdleInv, Parts, verdict # "none"
  PROVE  SameLane /\ UNCHANGED <<verdict, step, book, results, token>>
<1>1. Dead \/ (lane.work = "idle" /\ lane.queue = <<>>)
  BY DEF IdleInv
<1>2. ~Lane
  BY <1>1 DEF Dead, Lane, LaneTake, LaneCollect, LaneStage, LaneApply, LaneReport, LaneDies
<1>3. phase # "import"
  BY DEF Flow
<1>4. Peer \/ \E f \in Files : Receive(f)
  BY <1>2, <1>3, PartsAre
<1>5. SameLane
  BY <1>4, SessionLane
<1>6. Peer => UNCHANGED <<step, book, results, token>>
  BY DEF Peer, PeerCredit, PeerJoins, PeerAborts, PeerOpens
<1>7. \A f \in Files : Receive(f) => UNCHANGED <<step, book, results, token>>
  BY DEF Receive
<1>8. UNCHANGED verdict
  BY PartsAre DEF runVars
<1> QED BY <1>4, <1>5, <1>6, <1>7, <1>8

(* The lane of a run that has a verdict is done, or has died. *)
LEMMA IdleKeeps ==
  ASSUME ImportTyped, LaneTyped, RunTyped, Flow, EarlyInv, IdleInv, [Next]_vars
  PROVE  IdleInv'
<1> SUFFICES ASSUME verdict' # "none"
             PROVE  Dead' \/ (lane'.work = "idle" /\ lane'.queue = <<>>)
  BY DEF IdleInv
<1>1. ASSUME SameLane, Dead \/ (lane.work = "idle" /\ lane.queue = <<>>)
      PROVE  Dead' \/ (lane'.work = "idle" /\ lane'.queue = <<>>)
  BY <1>1 DEF SameLane, Dead
<1>2. CASE Finish
  <2>1. Dead \/ (lane.work = "idle" /\ lane.queue = <<>>)
    BY <1>2 DEF Finish, FinishImport
  <2> QED BY <1>1, <1>2, <2>1, SessionLane
<1>3. CASE Parts
  <2>1. verdict # "none"
    BY <1>3, PartsAre DEF runVars
  <2> QED BY <1>1, <1>3, <2>1, AfterVerdict DEF IdleInv
<1>4. CASE Aside /\ ~Finish
  <2>1. CASE verdict # "none"
    BY <1>1, <1>4, <2>1, SessionLane DEF IdleInv
  <2>2. CASE verdict = "none"
    <3>1. step = "plan"
      BY <1>4, <2>2, EndsEarly
    <3>2. lane.work = "idle" /\ lane.queue = <<>>
      BY <3>1 DEF EarlyInv, Early
    <3> QED BY <1>1, <1>4, <3>2, SessionLane
  <2> QED BY <2>1, <2>2
<1> QED BY <1>2, <1>3, <1>4, Kinds

(* The end of an import reports each project at most once; unless the run   *)
(* was called off or has failed, each that was offered and each deletion    *)
(* that the plan names.                                                     *)
LEMMA FinishReports ==
  ASSUME ImportTyped, LaneTyped, Flow, BookInv, JobsInv, ReportInv, Finish, NEW p \in All
  PROVE  /\ results'[p] \in 0..1
         /\ phase = "finish" /\ ~Cancelled /\ p \in Range(Projects) \union Range(book.tombs)
              => results'[p] = 1
<1>0. CASE phase # "finish"
  <2>1. results'[p] = 0
    BY <1>0 DEF Finish, FinishImport
  <2> QED BY <1>0, <2>1
<1> SUFFICES ASSUME phase = "finish"
             PROVE  /\ results'[p] \in 0..1
                    /\ ~Cancelled /\ p \in Range(Projects) \union Range(book.tombs) => results'[p] = 1
  BY <1>0
<1>1. /\ verdict = "none" /\ step = "after" /\ step \in Late
      /\ Dead \/ (lane.work = "idle" /\ lane.queue = <<>>)
      /\ results'[p] = results[p] + One(p, Reported) + One(p, LeftBehind) + One(p, jobs.refused)
  BY StepMoves DEF Finish, FinishImport, Late
<1>2. /\ BookIs(book) /\ results[p] \in 0..1
      /\ ~Cancelled => NoneLost(book) /\ book.left = <<>> /\ book.awaited = {}
  BY <1>1 DEF BookInv
<1>3. /\ jobs.queued \intersect jobs.refused = {}
      /\ jobs.queued \union jobs.refused \subseteq Offered(book)
      /\ ~Cancelled => Offered(book) \subseteq jobs.queued \union jobs.refused
  <2>1. Of(jobs.next) = {}
    BY <1>1, EmptyList DEF JobsInv, Of
  <2> QED BY <1>1, <2>1 DEF JobsInv
<1>4. Reported \subseteq jobs.queued
  BY DEF ReportInv, Reported
<1>5. ~Dead => jobs.queued \subseteq Reported
  <2>1. ASSUME ~Dead PROVE Of(lane.tasks) = {} /\ Of(lane.queue) = {}
    BY <1>1, <2>1, EmptyList DEF LaneTyped, Of
  <2> QED BY <2>1 DEF ReportInv
<1>6. LeftBehind \subseteq jobs.queued \ Reported /\ jobs.queued \subseteq Reported \union LeftBehind
  BY <1>5 DEF LeftBehind
<1>7. p \in Offered(book) => results[p] = 0
  BY <1>2 DEF BookIs, Offered, Open
<1>a. PICK due : due = (~Cancelled /\ p \in Range(Projects) \union Range(book.tombs))
  OBVIOUS
<1>8. ASSUME due, results[p] = 0 PROVE p \in Offered(book)
  <2>1. p \in Open
    BY <1>8 DEF Open
  <2>2. Range(book.left) = {}
    BY <1>2, <1>8, <1>a, EmptyList
  <2> QED BY <1>2, <1>8, <1>a, <2>1, <2>2 DEF NoneLost, Offered
<1>9. /\ p \in Reported => p \notin LeftBehind /\ p \notin jobs.refused
      /\ p \in LeftBehind => p \notin Reported /\ p \notin jobs.refused
      /\ p \in Reported \/ p \in LeftBehind \/ p \in jobs.refused => results[p] = 0
      /\ (due /\ results[p] = 0) => p \in Reported \/ p \in LeftBehind \/ p \in jobs.refused
  BY <1>3, <1>4, <1>6, <1>7, <1>8, <1>a
<1>10. /\ One(p, Reported) = IF p \in Reported THEN 1 ELSE 0
       /\ One(p, LeftBehind) = IF p \in LeftBehind THEN 1 ELSE 0
       /\ One(p, jobs.refused) = IF p \in jobs.refused THEN 1 ELSE 0
  BY DEF One
<1>11. PICK r, l, u : r = One(p, Reported) /\ l = One(p, LeftBehind) /\ u = One(p, jobs.refused)
  OBVIOUS
<1>12. /\ r \in 0..1 /\ l \in 0..1 /\ u \in 0..1 /\ results'[p] = results[p] + r + l + u
       /\ r = 1 => l = 0 /\ u = 0
       /\ l = 1 => r = 0 /\ u = 0
       /\ r = 1 \/ l = 1 \/ u = 1 => results[p] = 0
       /\ (due /\ results[p] = 0) => r = 1 \/ l = 1 \/ u = 1
  BY <1>1, <1>9, <1>10, <1>11
<1>13. PICK n, m : n = results[p] /\ m = results'[p]
  OBVIOUS
<1>14. ASSUME n = 1 PROVE results'[p] \in 0..1 /\ (due => results'[p] = 1)
  <2>1. r = 0 /\ l = 0 /\ u = 0
    BY <1>12, <1>13, <1>14
  <2>2. m = 1
    BY <1>12, <1>13, <1>14, <2>1
  <2> QED BY <1>13, <2>2
<1>15. ASSUME n = 0 PROVE results'[p] \in 0..1 /\ (due => results'[p] = 1)
  <2>1. m = r + l + u
    BY <1>12, <1>13, <1>15
  <2>2. m \in 0..1 /\ (due => m = 1)
    BY <1>12, <1>13, <1>15, <2>1
  <2> QED BY <1>13, <2>2
<1>16. n = 0 \/ n = 1
  BY <1>2, <1>13
<1>17. results'[p] \in 0..1 /\ (due => results'[p] = 1)
  BY <1>14, <1>15, <1>16
<1> QED BY <1>a, <1>17

(* The results that the import has reported by then. *)
LEMMA OneResultKeeps ==
  ASSUME ImportTyped, LaneTyped, RunTyped, Flow, EarlyInv, BookInv, JobsInv, ReportInv, IdleInv,
         OneResultEach, BookInv', [Next]_vars
  PROVE  OneResultEach'
<1> DEFINE Due == Range(Projects) \union Range(book.tombs)
<1> SUFFICES /\ \A p \in All : results'[p] <= 1
             /\ verdict' = "ok" /\ ~Cancelled' => \A p \in Due' : results'[p] = 1
  BY DEF OneResultEach
<1>1. /\ \A p \in All : results[p] <= 1
      /\ verdict = "ok" /\ ~Cancelled => \A p \in Due : results[p] = 1
  BY DEF OneResultEach
<1>2. CASE Finish
  <2>1. Cancelled' = Cancelled /\ book' = book /\ (verdict' = "ok" => phase = "finish")
    BY <1>2 DEF Finish, FinishImport, Ends, Cancelled
  <2>2. verdict = "none" /\ step = "after" /\ Due \subseteq All
    <3>1. verdict = "none" /\ step = "after"
      BY <1>2, StepMoves
    <3>2. BookIs(book)
      BY <3>1 DEF BookInv
    <3> QED BY <3>1, <3>2, Offers DEF BookIs
  <2> QED BY <1>2, <2>1, <2>2, FinishReports
<1>3. CASE Aside /\ ~Finish
  <2>1. UNCHANGED <<book, results>> /\ (Cancelled => Cancelled')
    BY <1>3 DEF Aside, ImportKept
  <2>2. verdict' = "ok" => verdict = "ok"
    BY <1>3, OkIsFinished
  <2> QED BY <1>1, <2>1, <2>2
<1>4. CASE Parts
  <2>1. CASE verdict = "none"
    <3>1. verdict' = "none"
      BY <1>4, <2>1, PartsAre DEF runVars
    <3>2. \A p \in All : results'[p] \in 0..1
      BY <3>1 DEF BookInv
    <3> QED BY <3>1, <3>2
  <2>2. CASE verdict # "none"
    <3>1. UNCHANGED <<verdict, step, book, results, token>>
      BY <1>4, <2>2, AfterVerdict
    <3> QED BY <1>1, <3>1 DEF Cancelled
  <2> QED BY <2>1, <2>2
<1> QED BY <1>2, <1>3, <1>4, Kinds

-----------------------------------------------------------------------------
(* What is applied.                                                        *)

(* What any step does to the lane. *)
LEMMA LaneKinds ==
  ASSUME ImportTyped, LaneTyped, [Next]_vars
  PROVE  \/ SameLane \/ (TakeReports /\ Emptied)
         \/ \E t \in TaskSet : Queues(t) /\ ~Lane
         \/ (Takes /\ Taken)
         \/ LaneStage \/ LaneReport
         \/ (LaneApply /\ Becomes("skip")) \/ (LaneDies /\ Becomes("dead"))
<1> DEFINE Goal == \/ SameLane \/ (TakeReports /\ Emptied)
                   \/ \E t \in TaskSet : Queues(t) /\ ~Lane
                   \/ (Takes /\ Taken)
                   \/ LaneStage \/ LaneReport
                   \/ (LaneApply /\ Becomes("skip")) \/ (LaneDies /\ Becomes("dead"))
<1>1. SameLane => Goal
  OBVIOUS
<1>2. UNCHANGED lane => SameLane
  BY DEF SameLane, LaneTyped
<1>3. ASSUME NEW t \in TaskSet, Queues(t) PROVE ~Lane
  <2>1. lane.queue \in Seq(TaskSet) /\ lane.tasks \in Seq(TaskSet) /\ lane.events \in Seq(EventSet)
    BY DEF LaneTyped, Lanes
  <2>2. Len(lane'.queue) = Len(lane.queue) + 1 /\ Len(lane.queue) \in Nat
    BY <1>3, <2>1 DEF Queues
  <2>3. ~Takes
    <3>1. ASSUME Takes PROVE FALSE
      <4>1. lane.queue # <<>> /\ lane'.queue = Tail(lane.queue)
        BY <3>1, TakesIs DEF Taken
      <4>2. Len(Tail(lane.queue)) = Len(lane.queue) - 1
        BY <2>1, <4>1
      <4> QED BY <2>2, <4>1, <4>2
    <3> QED BY <3>1
  <2>4. ASSUME LaneStage \/ LaneReport \/ LaneApply \/ LaneDies PROVE FALSE
    <3>1. lane'.queue = lane.queue
      BY <2>4, LaneSteps DEF Reports, Becomes
    <3> QED BY <2>2, <3>1
  <2> QED BY <2>3, <2>4 DEF Lane, Takes
<1>4. \A t \in TaskSet : Queues(t) => Goal
  BY <1>3
<1> HIDE DEF Goal
<1>5. ASSUME NEW f \in Files, HandleReceived(f) PROVE Goal
  <2>1. [kind |-> "stage", of |-> f] \in TaskSet
    BY DEF TaskSet
  <2> QED BY <1>1, <1>2, <1>4, <1>5, <2>1, QueueLane
<1>6. ASSUME Enqueue PROVE Goal
  <2>1. [kind : {"apply"}, of : All] \subseteq TaskSet
    BY DEF TaskSet
  <2> QED BY <1>1, <1>2, <1>4, <1>6, <2>1, QueueLane
<1>7. ASSUME Lane PROVE Goal
  BY <1>7, TakesIs, LaneSteps DEF Lane, Takes, Goal
<1>8. TakeReports => Goal
  BY QueueLane DEF Goal
<1>9. Handles => Goal
  BY <1>1, <1>5, SessionLane DEF Handles
<1>10. Rest => Goal
  BY <1>1, <1>6, <1>7, <1>8, <1>9, SessionLane DEF Rest
<1>11. Goal
  BY <1>1, <1>10, SessionLane, Kinds, PartsAre
<1> QED BY <1>11 DEF Goal

(* Before the import is late, no apply task is in work. *)
LEMMA NoApplyYet ==
  ASSUME LaneTyped, UnqueuedInv, step \notin Late
  PROVE  ~LaneApply /\ ~LaneReport
<1>1. LaneApply \/ LaneReport => lane.work \in {"do", "skip"}
  BY DEF LaneApply, LaneReport
<1>2. LaneApply \/ LaneReport => \A t \in Range(lane.tasks) : t.kind = "apply"
  BY LaneSteps
<1>3. LaneApply \/ LaneReport => Head(lane.tasks) \in Range(lane.tasks)
  BY <1>1, InWork DEF LaneTyped
<1> QED BY <1>2, <1>3 DEF UnqueuedInv

(* Only LaneApply applies projects or refuses them. *)
LEMMA ApplySteps ==
  ASSUME [Next]_vars, ~LaneApply
  PROVE  /\ UNCHANGED <<applied, missing>>
         /\ LaneStage \/ UNCHANGED staged
<1> DEFINE Goal == UNCHANGED <<applied, missing>> /\ (LaneStage \/ UNCHANGED staged)
<1>1. Aside \/ Finish => Goal
  BY DEF Aside, ImportKept, Finish, FinishImport
<1>2. Plan \/ Discover \/ SkipBatch \/ RequestBatch \/ BatchBreaks \/ ReadEnd => Goal
  BY DEF Plan, Discover, SkipBatch, RequestBatch, BatchBreaks, ReadEnd
<1>3. TakeReports \/ CloseBatch \/ EndBatch \/ Enqueue => Goal
  BY DEF TakeReports, CloseBatch, EndBatch, Enqueue
<1>4. ASSUME NEW f \in Files, AcceptStream(f) \/ HandleReceived(f) \/ HandleFailed(f) \/ Receive(f)
      PROVE  Goal
  BY <1>4 DEF AcceptStream, HandleReceived, HandleFailed, Receive
<1>5. Lane => Goal
  BY DEF Lane, LaneTake, LaneCollect, LaneStage, LaneReport, LaneDies
<1>6. Peer => Goal
  BY DEF Peer, PeerCredit, PeerJoins, PeerAborts, PeerOpens
<1> HIDE DEF Goal
<1>7. Rest => Goal
  BY <1>2, <1>3, <1>4, <1>5, <1>6 DEF Rest, Handles
<1> QED BY <1>1, <1>2, <1>7, Kinds, PartsAre DEF Goal

(* An import whose batch broke is called off before it applies anything. *)
LEMMA OffKeeps ==
  ASSUME ImportTyped, LaneTyped, Flow, EarlyInv, UnqueuedInv, BookInv, OffInv, LaneTyped',
         UnqueuedInv', [Next]_vars
  PROVE  OffInv'
<1>1. CASE step' \notin Late
  BY <1>1 DEF OffInv, UnqueuedInv
<1>2. CASE step \notin Late /\ step' \in Late
  <2>1. applied' = applied /\ (batch'.broken => lane'.off)
    BY <1>2, BecomesLate
  <2>2. applied = {}
    BY <1>2 DEF UnqueuedInv
  <2> QED BY <2>1, <2>2 DEF OffInv
<1>3. CASE step \in Late /\ step' \in Late
  <2>1. batch' = batch /\ (batch.broken => lane.off /\ applied = {})
    BY <1>3, LateSteps DEF OffInv
  <2>2. batch.broken => applied' = {}
    <3>1. LaneApply /\ lane.off => applied' = applied
      BY DEF LaneApply
    <3> QED BY <2>1, <3>1, ApplySteps
  <2>3. lane.off => lane'.off
    <3>1. LaneStage \/ LaneReport => \E e \in EventSet : Reports(e)
      BY LaneSteps
    <3> QED BY <3>1, LaneKinds DEF SameLane, Emptied, Queues, Taken, Reports, Becomes
  <2> QED BY <2>1, <2>2, <2>3 DEF OffInv
<1> QED BY <1>1, <1>2, <1>3, LateStays

(* Only the import of a project takes away what is staged. *)
LEMMA StagedGrows ==
  ASSUME ImportTyped, LaneTyped, [Next]_vars, ~LaneApply
  PROVE  \A c \in Hashes : staged[c] # {} => staged'[c] # {}
<1>1. staged \in [Hashes -> SUBSET Files]
  BY DEF ImportTyped
<1>2. CASE UNCHANGED staged
  BY <1>2
<1>3. CASE LaneStage
  <2>1. PICK f : f = Head(lane.tasks).of
    OBVIOUS
  <2>2. /\ f \in Files
        /\ staged' = staged \/ staged' = [staged EXCEPT ![Content[f]] = @ \union {f}]
    BY <1>3, <2>1, LaneSteps
  <2>3. Content[f] \in Hashes
    BY <2>2 DEF Hashes
  <2> QED BY <1>1, <2>2, <2>3
<1> QED BY <1>2, <1>3, ApplySteps

(* The books keep what they say of what is staged. *)
LEMMA RestFetches ==
  ASSUME ImportTyped, LaneTyped, Flow, FetchedInv, step \notin Late, Rest
  PROVE  FetchKept(book, book')
<1>1. book \in Books /\ lane.events \in Seq(EventSet)
  BY DEF ImportTyped, LaneTyped, Lanes
<1>2. \A e \in Range(lane.events) : e.kind = "staged" /\ e.ok => staged[Content[e.of]] # {}
  BY DEF FetchedInv
<1>3. /\ FetchKept(book, book) /\ FetchKept(book, AllFailed(book))
      /\ FetchKept(book, AllRecorded(book, lane.events))
      /\ \A f \in Files : FetchKept(book, Recorded(book, f, FALSE))
  <2>1. FetchKept(book, book) /\ FetchKept(book, AllFailed(book))
    BY <1>1, AllFailedIs, KeptTrans
  <2>2. FetchKept(book, AllRecorded(book, lane.events))
    BY <1>1, <1>2, AllRecordedIs
  <2>3. \A f \in Files : FetchKept(book, Recorded(book, f, FALSE))
    BY <1>1, RecordedIs
  <2> QED BY <2>1, <2>2, <2>3
<1>4. ASSUME UNCHANGED book PROVE FetchKept(book, book')
  <2>1. PICK b : b = book
    OBVIOUS
  <2>2. book' = b /\ FetchKept(book, b)
    BY <1>3, <1>4, <2>1
  <2> QED BY <2>2
<1>5. ASSUME BatchBreaks \/ ReadEnd \/ CloseBatch \/ Enqueue \/ Lane \/ Peer
      PROVE  UNCHANGED book
  <2>1. BatchBreaks \/ ReadEnd \/ CloseBatch \/ Enqueue => UNCHANGED book
    BY DEF BatchBreaks, ReadEnd, CloseBatch, Enqueue
  <2>2. Lane => UNCHANGED book
    BY DEF Lane, LaneTake, LaneCollect, LaneStage, LaneApply, LaneReport, LaneDies
  <2>3. Peer => UNCHANGED book
    BY DEF Peer, PeerCredit, PeerJoins, PeerAborts, PeerOpens
  <2> QED BY <1>5, <2>1, <2>2, <2>3
<1>6. \A f \in Files : AcceptStream(f) \/ Receive(f) => UNCHANGED book
  BY DEF AcceptStream, Receive
<1>7. ASSUME NEW b, Turns(b), FetchKept(book, b) PROVE FetchKept(book, book')
  BY <1>7 DEF Turns
<1>8. SkipBatch \/ RequestBatch \/ EndBatch => FetchKept(book, book')
  BY <1>3, <1>4, <1>7, BookSteps
<1>9. TakeReports => FetchKept(book, book')
  BY <1>3, BookSteps
<1>10. \A f \in Files : HandleFailed(f) \/ HandleReceived(f) => FetchKept(book, book')
  BY <1>3, <1>4, BookSteps
<1> QED BY <1>4, <1>5, <1>6, <1>8, <1>9, <1>10 DEF Rest, Handles

(* Discovery leaves nothing unfetched that a project needs. *)
LEMMA FoundFetched ==
  ASSUME ImportTyped, book.left # <<>>, Found(Head(book.left)), NEW q \in Range(Projects),
         q \in Range(book.left) \/ StagedFor(q, book), q \notin Range(book'.left)
  PROVE  StagedFor(q, book')
<1> DEFINE p == Head(book.left)
<1>1. book.left \in Seq(All)
  BY DEF ImportTyped, Books
<1>2. Range(book.left) = Range(Tail(book.left)) \union {p}
  BY <1>1, TailList
<1> HIDE DEF p
<1>3. CASE /\ p \in Range(Tombstones) /\ book'.left = Tail(book.left)
           /\ book'.awaited = book.awaited /\ book'.spoiled = book.spoiled
  <2>1. p # q
    BY <1>3, Offers
  <2>2. StagedFor(q, book)
    BY <1>2, <1>3, <2>1
  <2> QED BY <1>3, <2>2 DEF StagedFor
<1>4. ASSUME NEW a \in Books, NEW unreadable \in SUBSET Needs(p), a.left = Tail(book.left),
             a.awaited = book.awaited \union ({f \in Needs(p) : staged[Content[f]] = {}} \ unreadable),
             a.spoiled = IF unreadable = {} THEN book.spoiled ELSE book.spoiled \union {p},
             book' = WithReady(a)
      PROVE  StagedFor(q, book')
  <2>1. book'.left = a.left
    BY <1>4, WithReadyIs
  <2>2. q = p \/ StagedFor(q, book)
    BY <1>2, <1>4, <2>1
  <2>3. StagedFor(q, a)
    <3>1. CASE q = p
      BY <1>4, <3>1 DEF StagedFor
    <3>2. CASE StagedFor(q, book)
      BY <1>4, <3>2 DEF StagedFor
    <3> QED BY <2>2, <3>1, <3>2
  <2> QED BY <1>4, <2>3, WithReadyKeeps
<1>5. Found(p)
  BY DEF p
<1> QED BY <1>3, <1>4, <1>5 DEF Found

(* What a project needs is staged, awaited, or known to be lost. *)
LEMMA FetchedKeeps ==
  ASSUME ImportTyped, LaneTyped, Flow, EarlyInv, UnqueuedInv, BookInv, FetchedInv, [Next]_vars
  PROVE  FetchedInv'
<1> SUFFICES ASSUME step' \notin Late
             PROVE  FetchedInv'
  BY DEF FetchedInv
<1>0. step \notin Late
  BY LateStays
<1>1. ~LaneApply /\ ~LaneReport
  BY <1>0, NoApplyYet
<1>2. \A f \in Files : staged[Content[f]] # {} => staged'[Content[f]] # {}
  <2>1. \A f \in Files : Content[f] \in Hashes
    BY DEF Hashes
  <2> QED BY <1>1, <2>1, StagedGrows
<1>3. \A e \in Range(lane'.events) :
        e.kind = "staged" /\ e.ok => staged'[Content[e.of]] # {}
  <2>1. \A e \in Range(lane.events) : e.kind = "staged" /\ e.ok => staged[Content[e.of]] # {}
    BY <1>0 DEF FetchedInv
  <2>2. \A e \in Range(lane.events) : e.kind = "staged" => e.of \in Files
    <3>1. lane.events \in Seq(EventSet)
      BY DEF LaneTyped, Lanes
    <3>2. \A e \in Range(lane.events) : e \in EventSet
      BY <3>1, RangeOfSeq
    <3> QED BY <3>2, EventIs
  <2>3. \A e \in Range(lane.events) : e.kind = "staged" /\ e.ok => staged'[Content[e.of]] # {}
    BY <1>2, <2>1, <2>2
  <2>4. CASE lane'.events = lane.events
    BY <2>3, <2>4
  <2>5. CASE lane'.events = <<>>
    BY <2>5, EmptyList
  <2>6. CASE LaneStage
    <3>1. PICK f : f = Head(lane.tasks).of
      OBVIOUS
    <3>2. PICK ok \in BOOLEAN :
            /\ Reports([kind |-> "staged", of |-> f, ok |-> ok])
            /\ [kind |-> "staged", of |-> f, ok |-> ok] \in EventSet
            /\ staged' = IF ok THEN [staged EXCEPT ![Content[f]] = @ \union {f}] ELSE staged
      BY <2>6, <3>1, LaneSteps
    <3>3. PICK e : e = [kind |-> "staged", of |-> f, ok |-> ok]
      OBVIOUS
    <3>4. Range(lane'.events) = Range(lane.events) \union {e}
      BY <3>2, <3>3, ReportedIs
    <3>5. ok => staged'[Content[f]] # {}
      <4>1. staged \in [Hashes -> SUBSET Files] /\ f \in Files
        BY <2>6, <3>1, LaneSteps DEF ImportTyped
      <4>2. Content[f] \in Hashes
        BY <4>1 DEF Hashes
      <4> QED BY <3>2, <4>1, <4>2
    <3> QED BY <2>3, <3>3, <3>4, <3>5
  <2> QED BY <1>1, <2>4, <2>5, <2>6, LaneKinds DEF SameLane, Emptied, Queues, Taken, Becomes
<1> DEFINE Fetches == \A p \in Open' \intersect Range(Projects) :
                        p \notin Range(book'.left) => StagedFor(p, book')
<1>4. ASSUME verdict' = "none", step' # "plan" PROVE Fetches
  <2>1. verdict = "none" /\ ~Finish
    BY <1>4, BeforeVerdict
  <2>2. step # "plan" => \A p \in Open \intersect Range(Projects) :
                           p \notin Range(book.left) => StagedFor(p, book)
    BY <1>0, <2>1 DEF FetchedInv
  <2>3. ASSUME UNCHANGED <<step, book, results>> PROVE Fetches
    <3>1. Open' = Open
      BY <2>3 DEF Open
    <3>2. \A p : StagedFor(p, book) => StagedFor(p, book')
      BY <2>3 DEF StagedFor
    <3> QED BY <1>4, <2>2, <2>3, <3>1, <3>2
  <2>4. CASE Aside
    BY <2>3, <2>4 DEF Aside, ImportKept
  <2>5. CASE Plan
    <3>1. PICK failed \in SUBSET All :
            /\ results' = [p \in All |-> IF p \in failed THEN 1 ELSE 0]
            /\ Range(book'.left) = All \ failed
      BY <2>5, PlanIs DEF Late
    <3>2. Open' = Range(book'.left)
      BY <3>1 DEF Open
    <3> QED BY <3>2
  <2>6. CASE Discover
    <3>1. results' = results /\ step = "discover"
      BY <2>6 DEF Discover
    <3>2. Open' = Open
      BY <3>1 DEF Open
    <3>3. CASE UNCHANGED book
      <4>1. \A p : StagedFor(p, book) => StagedFor(p, book')
        BY <3>3 DEF StagedFor
      <4> QED BY <2>2, <3>1, <3>2, <3>3, <4>1
    <3>4. CASE book.left # <<>> /\ Found(Head(book.left))
      <4>1. ASSUME NEW p \in Open \intersect Range(Projects), p \notin Range(book'.left)
            PROVE  StagedFor(p, book')
        <5>1. p \in Range(book.left) \/ StagedFor(p, book)
          BY <2>2, <3>1, <4>1
        <5> QED BY <3>4, <4>1, <5>1, FoundFetched
      <4> QED BY <3>2, <4>1
    <3> QED BY <2>6, <3>3, <3>4, DiscoverIs
  <2>7. CASE Rest
    <3>1. BookKept(book, book') /\ results' = results
      BY <2>7, BookSteps
    <3>2. book'.left = book.left
      BY <3>1 DEF BookKept
    <3>3. Open' = Open
      BY <3>1 DEF Open
    <3>4. FetchKept(book, book')
      BY <1>0, <2>7, RestFetches
    <3>5. step # "plan"
      <4>1. (Lane \/ Peer \/ \E f \in Files : Receive(f)) => step' = step
        BY StepMoves
      <4>2. Handles => step # "plan"
        BY StepMoves DEF Handles
      <4> QED BY <1>4, <2>7, <4>1, <4>2, StepMoves DEF Rest
    <3> QED BY <2>2, <3>2, <3>3, <3>4, <3>5 DEF FetchKept
  <2> QED BY <2>1, <2>4, <2>5, <2>6, <2>7, Kinds, PartsAre
<1>5. ASSUME verdict' = "none", step' # "plan"
      PROVE  \A p \in Open' \intersect Range(Projects) :
               p \notin Range(book'.left) => StagedFor(p, book)'
  <2>1. \A p : StagedFor(p, book') => StagedFor(p, book)'
    <3> SUFFICES ASSUME NEW p, StagedFor(p, book'), p \notin book'.spoiled,
                        NEW f \in Needs(p) \ book'.awaited
                 PROVE  staged'[Content[f]] # {}
      BY DEF StagedFor
    <3>1. f \in Files /\ staged[Content[f]] # {}
      BY DEF StagedFor, Needs
    <3> QED BY <1>2, <3>1
  <2> QED BY <1>4, <1>5, <2>1
<1> QED BY <1>3, <1>5 DEF FetchedInv

(* When the import becomes late, the lane has nothing left to stage. *)
LEMMA LateWork ==
  ASSUME ImportTyped, LaneTyped, Flow, EarlyInv, UnqueuedInv, BookInv, WorkInv', ScratchInv',
         ImportTyped', LaneTyped', [Next]_vars, step \notin Late, step' \in Late, ~Dead'
  PROVE  /\ lane'.tasks = <<>> /\ lane'.queue = <<>> /\ Work' = jobs'.next
         /\ jobs'.next # <<>> => \E b \in Books : /\ BookIs(b) /\ Turns(b) /\ b.awaited = {}
                                                  /\ BookKept(book, b) /\ FetchKept(book, b)
<1>1. /\ SameLane /\ verdict = "none"
      /\ \/ /\ \E b \in Books : /\ BookIs(b) /\ Turns(b) /\ b.awaited = {}
                                /\ BookKept(book, b) /\ FetchKept(book, b)
            /\ step \in {"request", "drain"}
         \/ UNCHANGED jobs
  BY BecomesLate
<1>2. jobs.next = <<>> /\ \A t \in Range(lane'.tasks) \union Range(lane'.queue) : t.kind = "stage"
  BY <1>1 DEF SameLane, UnqueuedInv
<1>3. PICK s, q, n : s = lane'.tasks /\ q = lane'.queue /\ n = jobs'.next
  OBVIOUS
<1>4. s \in Seq(TaskSet) /\ q \in Seq(TaskSet)
  BY <1>3 DEF LaneTyped, Lanes
<1>5. n \in Seq(TaskSet)
  <2>1. n \in Seq([kind : {"apply"}, of : All])
    BY <1>3 DEF ImportTyped, JobSets
  <2>2. [kind : {"apply"}, of : All] \subseteq TaskSet
    BY DEF TaskSet
  <2>3. ASSUME NEW S, NEW T, S \subseteq T, NEW u \in Seq(S) PROVE u \in Seq(T)
    BY <2>3
  <2> QED BY <2>1, <2>2, <2>3
<1>6. Work' = (s \o q) \o n
  BY <1>3 DEF Work
<1>7. Range(Work') = (Range(s) \union Range(q)) \union Range(n)
  <2>1. s \o q \in Seq(TaskSet) /\ Range(s \o q) = Range(s) \union Range(q)
    BY <1>4, ConcatList
  <2>2. PICK u : u = s \o q
    OBVIOUS
  <2>3. u \in Seq(TaskSet)
    BY <2>1, <2>2
  <2>4. Range(u \o n) = Range(u) \union Range(n)
    BY <1>5, <2>3, ConcatList
  <2> QED BY <1>6, <2>1, <2>2, <2>4
<1>8. \A t \in Range(Work') : t.kind = "stage" => t.of \in jobs'.staging
  BY DEF WorkInv
<1>9. jobs'.staging = {}
  BY DEF ScratchInv
<1>10. Range(s) = {} /\ Range(q) = {}
  BY <1>2, <1>3, <1>7, <1>8, <1>9
<1>11. s = <<>> /\ q = <<>>
  <2>1. ASSUME NEW u \in Seq(TaskSet), Range(u) = {} PROVE u = <<>>
    <3>1. u # <<>> => Head(u) \in Range(u)
      BY TailList
    <3> QED BY <2>1, <3>1
  <2> QED BY <1>4, <1>10, <2>1
<1>12. Work' = n
  <2>1. <<>> \o <<>> = <<>> /\ <<>> \o n = n
    BY <1>5
  <2> QED BY <1>6, <1>11, <2>1
<1>13. ASSUME n # <<>> PROVE ~UNCHANGED jobs
  BY <1>2, <1>3, <1>13
<1> QED BY <1>1, <1>3, <1>11, <1>12, <1>13

(* When it is late, every task of a living lane is an apply task. *)
LEMMA LateApplies ==
  ASSUME LaneTyped, ImportTyped, WorkInv, ScratchInv, step \in Late, ~Dead
  PROVE  /\ \A t \in Range(Work) : t.kind = "apply" /\ t.of \in All
         /\ \A t, u \in Range(Work) : t.of = u.of => t = u
<1>1. Work \in Seq(TaskSet)
  BY WorkParts
<1>2. \A t \in Range(Work) : t \in TaskSet
  BY <1>1, RangeOfSeq
<1>3. \A t \in Range(Work) : t.kind # "stage"
  BY DEF WorkInv, ScratchInv
<1>4. \A t \in Range(Work) : t.kind = "apply" /\ t.of \in All /\ t = [kind |-> "apply", of |-> t.of]
  BY <1>2, <1>3, TaskIs
<1> QED BY <1>4

(* Then only Enqueue hands anything to the lane. *)
LEMMA LateLane ==
  ASSUME LaneTyped, ImportTyped, Flow, [Next]_vars, step \in Late, ~Enqueue
  PROVE  /\ UNCHANGED <<step, jobs>>
         /\ \/ SameLane
            \/ (Takes /\ Taken)
            \/ (LaneStage \/ LaneReport) /\ \E e \in EventSet : Reports(e)
            \/ (LaneApply /\ Becomes("skip")) \/ (LaneDies /\ Becomes("dead"))
<1>1. UNCHANGED <<step, jobs>>
  BY LateSteps
<1>2. ~\E t \in TaskSet : Queues(t) /\ ~Lane
  <2>1. ASSUME NEW t \in TaskSet, Queues(t), ~Lane PROVE FALSE
    <3>1. ~SameLane
      <4>1. lane.queue \in Seq(TaskSet)
        BY DEF LaneTyped, Lanes
      <4>2. Len(Append(lane.queue, t)) = Len(lane.queue) + 1 /\ Len(lane.queue) \in Nat
        BY <4>1
      <4> QED BY <2>1, <4>2 DEF Queues, SameLane
    <3>2. ~Handles /\ ~TakeReports
      BY StepMoves DEF Handles, Late
    <3>3. Peer \/ (\E f \in Files : Receive(f)) \/ Aside \/ Finish => SameLane
      BY SessionLane
    <3>4. (Plan \/ Discover \/ SkipBatch \/ RequestBatch \/ BatchBreaks \/ ReadEnd
           \/ CloseBatch \/ EndBatch) => SameLane
      BY SessionLane
    <3> QED BY <2>1, <3>1, <3>2, <3>3, <3>4, Kinds, PartsAre DEF Rest
  <2> QED BY <2>1
<1>3. ~TakeReports
  BY StepMoves DEF Late
<1>4. LaneStage \/ LaneReport => \E e \in EventSet : Reports(e)
  BY LaneSteps
<1> QED BY <1>1, <1>2, <1>3, <1>4, LaneKinds

(* Then the work only shrinks, from its front. *)
LEMMA LateWorkSteps ==
  ASSUME LaneTyped, ImportTyped, Flow, [Next]_vars, step \in Late, ~Dead
  PROVE  \/ Work' = Work
         \/ /\ LaneStage \/ LaneReport
            /\ \E e \in EventSet : Reports(e)
            /\ jobs'.next = jobs.next
            /\ Work' = lane.queue \o jobs.next /\ Work = lane.tasks \o Work'
<1>1. CASE Enqueue
  <2>1. CASE jobs.next = <<>>
    <3>1. UNCHANGED <<lane, jobs>>
      BY <1>1, <2>1, EnqueueIs
    <3> QED BY <3>1 DEF Work
  <2>2. CASE jobs.next # <<>>
    <3>1. PICK h : h = Head(jobs.next)
      OBVIOUS
    <3>2. h \in TaskSet
      BY <2>2, <3>1, WorkParts, TailList
    <3>3. jobs'.next = Tail(jobs.next) /\ lane' = [lane EXCEPT !.queue = Append(@, h)]
      BY <1>1, <2>2, <3>1, EnqueueIs
    <3>4. Queues(h)
      <4>1. lane.queue \in Seq(TaskSet) /\ lane \in Lanes
        BY DEF LaneTyped, Lanes
      <4>2. PICK q : q = Append(lane.queue, h)
        OBVIOUS
      <4>3. q \in Seq(TaskSet) /\ lane' = [lane EXCEPT !.queue = q]
        BY <3>2, <3>3, <4>1, <4>2
      <4> QED BY <4>1, <4>2, <4>3, LaneSet DEF Queues
    <3> QED BY <2>2, <3>1, <3>2, <3>3, <3>4, WorkSteps
  <2> QED BY <2>1, <2>2
<1>2. CASE ~Enqueue
  <2>1. jobs'.next = jobs.next
    BY <1>2, LateLane
  <2>2. ASSUME LaneStage \/ LaneReport, NEW e \in EventSet, Reports(e)
        PROVE  Work' = lane.queue \o jobs.next /\ Work = lane.tasks \o Work'
    BY <2>1, <2>2, WorkSteps
  <2>3. (SameLane \/ \E w : Becomes(w)) \/ Takes => Work' = Work
    BY <2>1, WorkSteps
  <2> QED BY <1>2, <2>1, <2>2, <2>3, LateLane
<1> QED BY <1>1, <1>2

(* The work keeps the order in which the projects became ready. *)
LEMMA OrderKeeps ==
  ASSUME ImportTyped, LaneTyped, Flow, EarlyInv, UnqueuedInv, BookInv, OrderInv, WorkInv',
         ScratchInv', ImportTyped', LaneTyped', [Next]_vars
  PROVE  OrderInv'
<1> SUFFICES ASSUME step' \in Late, ~Dead',
                    NEW a \in Range(Work'), NEW b \in Range(Work'), Precedes(Work', a, b)
             PROVE  Precedes(book'.ready \o book'.tombs, a.of, b.of)
  BY DEF OrderInv, Precedes
<1>0. ~Dead
  BY LateStays
<1>1. CASE step \notin Late
  <2>1. Work' = jobs'.next
    BY <1>1, LateWork
  <2>2. jobs'.next # <<>>
    BY <2>1, EmptyList
  <2>3. PICK c \in Books : Turns(c)
    BY <1>1, <2>2, LateWork
  <2>4. Work' = Tasks(c) /\ book' = c
    BY <2>1, <2>3 DEF Turns
  <2>5. Precedes(Tasks(c), a, b)
    BY <2>4
  <2> QED BY <2>4, <2>5, TasksAre
<1>2. CASE step \in Late
  <2>1. book' = book
    BY <1>2, LateSteps
  <2>2. \A x, y \in Range(Work) : Precedes(Work, x, y) => Precedes(book.ready \o book.tombs, x.of, y.of)
    BY <1>0, <1>2 DEF OrderInv
  <2>3. CASE Work' = Work
    BY <2>1, <2>2, <2>3
  <2>4. CASE Work' = lane.queue \o jobs.next /\ Work = lane.tasks \o Work'
    <3>1. PICK w, t : w = Work' /\ t = lane.tasks
      OBVIOUS
    <3>2. w \in Seq(TaskSet) /\ t \in Seq(TaskSet)
      BY <2>4, <3>1, WorkParts, ConcatList
    <3>3. Precedes(t \o w, a, b) /\ Range(t \o w) = Range(t) \union Range(w)
      BY <3>1, <3>2, ConcatList, ConcatOrder
    <3> QED BY <2>1, <2>2, <2>4, <3>1, <3>3
  <2> QED BY <1>0, <1>2, <2>3, <2>4, LateWorkSteps
<1> QED BY <1>1, <1>2

-----------------------------------------------------------------------------
(* What a call of the backend leaves to the tasks behind it.               *)

(* A call whose projects have what they need refuses none of them, and      *)
(* leaves what the projects of its cleanup context still wait for.          *)
LEMMA CallKeeps ==
  ASSUME NEW s \in Stores, NEW ps \in SUBSET All, NEW W \in SUBSET All,
         \A p \in ps : \A f \in Needs(p) : s.staged[Content[f]] # {},
         \A q \in W : q \notin s.applied \union ps,
         \A q \in W : \A f \in Needs(q) : s.staged[Content[f]] # {},
         \A q \in W \intersect Range(Projects), p \in ps : q \in CleanupContext(p)
  PROVE  /\ Call(s, ps) \in Stores /\ Call(s, ps).missing = s.missing
         /\ Call(s, ps).applied = s.applied \union ps
         /\ \A q \in W : \A f \in Needs(q) : Call(s, ps).staged[Content[f]] # {}
<1> DEFINE gone == {p \in ps : \E f \in Needs(p) : s.staged[Content[f]] = {}}
           done == s.applied \union (ps \ gone)
           context == UNION {CleanupContext(p) : p \in ps \intersect Range(Projects)}
           awaited == {Content[f] : f \in {g \in Files : Owner[g] \in context \ done}}
           imported == {f \in Files : Owner[f] \in context \intersect done}
<1>1. gone = {}
  OBVIOUS
<1>2. done = s.applied \union ps
  BY <1>1
<1>3. Call(s, ps) = [staged |-> Cleaned(s.staged, context, done), applied |-> done,
                     missing |-> s.missing \union gone]
  BY DEF Call
<1>4. Cleaned(s.staged, context, done)
        = [c \in Hashes |-> IF c \in Hashes \ awaited THEN s.staged[c] \ imported ELSE s.staged[c]]
  BY DEF Cleaned, Dereferenced
<1>5. ASSUME NEW q \in W, NEW f \in Needs(q)
      PROVE  Cleaned(s.staged, context, done)[Content[f]] # {}
  <2>1. f \in Files /\ Owner[f] = q /\ Content[f] \in Hashes /\ q \in Range(Projects)
    BY Offers DEF Needs, Hashes
  <2>2. s.staged[Content[f]] # {} /\ q \notin done
    BY <1>2
  <2>3. CASE ps \intersect Range(Projects) = {}
    <3>1. context = {}
      BY <2>3
    <3>2. imported = {}
      BY <3>1
    <3> HIDE DEF imported, awaited
    <3> QED BY <1>4, <2>1, <2>2, <3>2
  <2>4. ASSUME NEW p \in ps \intersect Range(Projects)
        PROVE  Cleaned(s.staged, context, done)[Content[f]] # {}
    <3>1. q \in CleanupContext(p)
      BY <2>1
    <3>2. q \in context
      BY <3>1
    <3> HIDE DEF context, done
    <3>3. Content[f] \in awaited
      BY <2>1, <2>2, <3>2
    <3> HIDE DEF awaited, imported
    <3> QED BY <1>4, <2>1, <2>2, <3>3
  <2> QED BY <2>3, <2>4
<1>6. Call(s, ps) \in Stores
  BY CallTyped
<1> HIDE DEF gone, done, context
<1>7. /\ Call(s, ps).staged = Cleaned(s.staged, context, done) /\ Call(s, ps).applied = done
      /\ Call(s, ps).missing = s.missing \union gone
  BY <1>3
<1> QED BY <1>1, <1>2, <1>5, <1>6, <1>7

(* The projects behind the first n tasks of the lane. *)
Behind(n) == ({lane.tasks[i].of : i \in (n + 1)..Len(lane.tasks)} \union Of(lane.queue))
             \union Of(jobs.next)

(* The further on in the tasks, the less is behind. *)
LEMMA BehindIs ==
  ASSUME ImportTyped, LaneTyped
  PROVE  /\ \A m, n \in Nat : m <= n => Behind(n) \subseteq Behind(m)
         /\ Behind(Len(lane.tasks)) = Of(lane.queue) \union Of(jobs.next)
         /\ \A n \in 1..Len(lane.tasks) : lane.tasks[n].of \in Behind(n - 1)
<1>1. lane.tasks \in Seq(TaskSet) /\ Len(lane.tasks) \in Nat
  BY DEF LaneTyped, Lanes
<1>2. PICK k, T : k = Len(lane.tasks) /\ T = lane.tasks
  OBVIOUS
<1>3. k \in Nat
  BY <1>1, <1>2
<1>4. ASSUME NEW m \in Nat, NEW n \in Nat, m <= n PROVE Behind(n) \subseteq Behind(m)
  <2>1. \A i \in (n + 1)..k : i \in (m + 1)..k
    BY <1>3, <1>4
  <2> QED BY <1>2, <2>1 DEF Behind
<1>5. Behind(k) = Of(lane.queue) \union Of(jobs.next)
  <2>1. (k + 1)..k = {}
    BY <1>3
  <2> QED BY <1>2, <2>1 DEF Behind
<1>6. ASSUME NEW n \in 1..k PROVE T[n].of \in Behind(n - 1)
  <2>1. n \in ((n - 1) + 1)..k
    BY <1>3
  <2> QED BY <1>2, <2>1 DEF Behind
<1> QED BY <1>2, <1>4, <1>5, <1>6

(* A task that is behind another one comes later in the work. *)
LEMMA BehindFollows ==
  ASSUME ImportTyped, LaneTyped, NEW n \in 1..Len(lane.tasks), NEW q \in Behind(n)
  PROVE  \E u \in Range(Work) : u.of = q /\ Precedes(Work, lane.tasks[n], u)
<1>1. PICK T, Q, N : T = lane.tasks /\ Q = lane.queue /\ N = jobs.next
  OBVIOUS
<1>2. T \in Seq(TaskSet) /\ Q \in Seq(TaskSet) /\ N \in Seq(TaskSet)
  BY <1>1, WorkParts
<1>3. PICK h : h = T[n]
  OBVIOUS
<1>4. PICK v : v = T \o Q
  OBVIOUS
<1>5. v \in Seq(TaskSet) /\ Range(v) = Range(T) \union Range(Q)
  BY <1>2, <1>4, ConcatList
<1>6. Work = v \o N /\ Range(v \o N) = Range(v) \union Range(N)
  <2>1. Range(v \o N) = Range(v) \union Range(N)
    BY <1>2, <1>5, ConcatList
  <2> QED BY <1>1, <1>4, <2>1 DEF Work
<1>7. DOMAIN T = 1..Len(T) /\ Len(T) \in Nat /\ n \in 1..Len(T)
  BY <1>1, <1>2
<1>8. h \in Range(T)
  BY <1>3, <1>7 DEF Range
<1>9. ASSUME NEW u, Precedes(v, h, u), u \in Range(v)
      PROVE  u \in Range(Work) /\ Precedes(Work, h, u)
  BY <1>2, <1>5, <1>6, <1>9, ConcatOrder
<1>10. ASSUME NEW i \in (n + 1)..Len(T), q = T[i].of
       PROVE  \E u \in Range(Work) : u.of = q /\ Precedes(Work, h, u)
  <2>1. i \in DOMAIN T /\ n \in DOMAIN T /\ n < i
    BY <1>7
  <2>2. T[i] \in Range(T) /\ Precedes(T, h, T[i])
    BY <1>3, <2>1 DEF Range, Precedes
  <2>3. PICK u : u = T[i]
    OBVIOUS
  <2>4. u \in Range(v) /\ Precedes(v, h, u)
    BY <1>2, <1>4, <1>5, <2>2, <2>3, ConcatOrder
  <2> QED BY <1>9, <1>10, <2>3, <2>4
<1>11. ASSUME NEW u \in Range(Q), q = u.of
       PROVE  \E x \in Range(Work) : x.of = q /\ Precedes(Work, h, x)
  <2>1. u \in Range(v) /\ Precedes(v, h, u)
    BY <1>2, <1>4, <1>5, <1>8, ConcatOrder
  <2> QED BY <1>9, <1>11, <2>1
<1>12. ASSUME NEW u \in Range(N), q = u.of
       PROVE  \E x \in Range(Work) : x.of = q /\ Precedes(Work, h, x)
  <2>1. h \in Range(v) /\ u \in Range(Work)
    BY <1>5, <1>6, <1>8
  <2>2. Precedes(Work, h, u)
    BY <1>2, <1>5, <1>6, <2>1, ConcatOrder
  <2> QED BY <1>12, <2>1, <2>2
<1>13. \/ \E i \in (n + 1)..Len(T) : q = T[i].of
       \/ \E u \in Range(Q) : q = u.of
       \/ \E u \in Range(N) : q = u.of
  BY <1>1 DEF Behind, Of
<1> QED BY <1>1, <1>3, <1>10, <1>11, <1>12, <1>13

(* What the work is of has been offered by the books. *)
LEMMA WorkOffered ==
  ASSUME ImportTyped, LaneTyped, JobsInv, ReportInv, step \in Late, verdict = "none",
         NEW u \in Range(Work), u.kind = "apply"
  PROVE  u.of \in Offered(book)
<1>1. (jobs.queued \union jobs.refused) \union Of(jobs.next) \subseteq Offered(book)
  BY DEF JobsInv
<1>2. Of(lane.tasks) \union Of(lane.queue) \subseteq jobs.queued
  BY DEF ReportInv
<1>3. u \in Range(lane.tasks) \/ u \in Range(lane.queue) \/ u \in Range(jobs.next)
  BY WorkParts
<1>4. u.of \in (Of(lane.tasks) \union Of(lane.queue)) \union Of(jobs.next)
  BY <1>3 DEF Of
<1> QED BY <1>1, <1>2, <1>4

(* A project behind another one is in the context of its cleanup. *)
LEMMA BehindContext ==
  ASSUME ImportTyped, LaneTyped, WorkInv, ScratchInv, BookInv, JobsInv, ReportInv, OrderInv,
         step \in Late, ~Dead, verdict = "none",
         NEW n \in 1..Len(lane.tasks), NEW q \in Behind(n)
  PROVE  /\ lane.tasks[n].of \in All /\ q \in All /\ q # lane.tasks[n].of
         /\ q \in Range(Projects) => q \in CleanupContext(lane.tasks[n].of)
<1>1. PICK h : h = lane.tasks[n]
  OBVIOUS
<1>2. PICK u \in Range(Work) : u.of = q /\ Precedes(Work, h, u)
  BY <1>1, BehindFollows
<1>3. h \in Range(Work)
  <2>1. Work \in Seq(TaskSet)
    BY WorkParts
  <2> QED BY <1>2 DEF Precedes, Range
<1>4. Work \in Seq(TaskSet) /\ IsInjective(Work)
  BY WorkParts DEF WorkInv
<1>5. h # u
  BY <1>2, <1>4, OneWay
<1>6. /\ h.of \in All /\ u.of \in All /\ u.kind = "apply" /\ h.of # u.of
  BY <1>2, <1>3, <1>5, LateApplies
<1>7. Precedes(book.ready \o book.tombs, h.of, q)
  BY <1>2, <1>3 DEF OrderInv
<1>8. book \in Books /\ BookIs(book)
  BY DEF ImportTyped, BookInv
<1>9. book.ready \in Seq(All) /\ book.tombs \in Seq(All) /\ IsInjective(book.ready \o book.tombs)
  BY <1>8, TasksAre DEF Books
<1>10. ~Precedes(book.ready, q, h.of)
  <2>1. PICK l : l = book.ready \o book.tombs
    OBVIOUS
  <2>2. l \in Seq(All)
    BY <1>9, <2>1, ConcatList
  <2>3. ~Precedes(l, q, h.of)
    BY <1>7, <1>9, <2>1, <2>2, OneWay
  <2> QED BY <1>9, <2>1, <2>3, ConcatOrder
<1>11. results[q] = 0
  <2>1. q \in Offered(book)
    BY <1>2, <1>6, WorkOffered
  <2> QED BY <1>8, <2>1 DEF BookIs, Offered, Open
<1>12. q \in Range(Projects) => q \in CleanupContext(h.of)
  BY <1>10, <1>11 DEF CleanupContext, Precedes
<1> QED BY <1>1, <1>2, <1>6, <1>12

(* What a backend call of the lane needs and what it must leave: the       *)
(* projects behind the first n tasks, with what they wait for.             *)
Kept(n) == Behind(n) \ book.spoiled
Fed(v, n) == \A q \in Kept(n) : \A f \in Needs(q) : v.staged[Content[f]] # {}

(* Before a call, the tasks of the lane are what comes first in the work.  *)
LEMMA BeforeApply ==
  ASSUME ImportTyped, LaneTyped, WorkInv, ScratchInv, BookInv, JobsInv, ReportInv, OrderInv,
         IdleInv, WaitingInv, step \in Late, LaneApply
  PROVE  /\ ~Dead /\ verdict = "none" /\ \A t \in Range(lane.tasks) : t.kind = "apply"
         /\ Behind(0) = Waiting /\ Fed(Now, 0)
         /\ \A n \in Nat : Behind(n) \subseteq Waiting /\ Behind(n) \subseteq All
         /\ applied \intersect Waiting = {}
         /\ Unspoiled = {lane.tasks[n].of : n \in 1..Len(lane.tasks)} \ book.spoiled
         /\ Unspoiled \subseteq Waiting
<1>1. lane.work = "do" /\ \A t \in Range(lane.tasks) : t.kind = "apply"
  BY LaneSteps
<1>2. ~Dead /\ verdict = "none"
  BY <1>1 DEF Dead, IdleInv
<1>3. PICK T : T = lane.tasks
  OBVIOUS
<1>4. T \in Seq(TaskSet) /\ DOMAIN T = 1..Len(T)
  BY <1>3, WorkParts
<1>5. Of(T) = {T[n].of : n \in 1..Len(T)}
  BY <1>1, <1>3, <1>4 DEF Of, Range
<1>6. Behind(0) = Waiting
  <2>1. 0 + 1 = 1
    OBVIOUS
  <2> QED BY <1>1, <1>3, <1>5, <2>1 DEF Behind, Waiting
<1>7. \A n \in Nat : Behind(n) \subseteq Behind(0)
  <2>1. \A n \in Nat : 0 <= n
    OBVIOUS
  <2> QED BY <2>1, BehindIs
<1>8. Waiting \subseteq All
  <2>1. \A t \in Range(Work) : t.of \in All
    BY <1>2, LateApplies
  <2>2. Waiting \subseteq {t.of : t \in Range(Work)}
    BY WorkParts DEF Waiting, Of
  <2> QED BY <2>1, <2>2
<1>9. /\ applied \intersect Waiting = {}
      /\ \A q \in Waiting \ book.spoiled : \A f \in Needs(q) : staged[Content[f]] # {}
  BY <1>2 DEF WaitingInv
<1>10. Fed(Now, 0)
  BY <1>6, <1>9 DEF Fed, Kept, Now
<1>11. Unspoiled = {lane.tasks[n].of : n \in 1..Len(lane.tasks)} \ book.spoiled
  BY <1>3, <1>5 DEF Unspoiled
<1>12. Unspoiled \subseteq Waiting
  BY <1>1 DEF Unspoiled, Waiting
<1> QED BY <1>1, <1>2, <1>6, <1>7, <1>8, <1>9, <1>10, <1>11, <1>12

(* One call for all tasks. *)
LEMMA ApplyTogether ==
  ASSUME ImportTyped, LaneTyped, WorkInv, ScratchInv, BookInv, JobsInv, ReportInv, OrderInv,
         IdleInv, WaitingInv, step \in Late, LaneApply
  PROVE  LET v == Call(Now, Unspoiled)
         IN /\ v.missing = missing /\ v.applied \subseteq applied \union Of(lane.tasks)
            /\ Fed(v, Len(lane.tasks))
<1> DEFINE k == Len(lane.tasks)
<1>1. /\ ~Dead /\ verdict = "none" /\ Fed(Now, 0)
      /\ Behind(0) = Waiting /\ Unspoiled \subseteq Waiting
      /\ \A n \in Nat : Behind(n) \subseteq Waiting /\ Behind(n) \subseteq All
      /\ applied \intersect Waiting = {}
      /\ Unspoiled = {lane.tasks[n].of : n \in 1..k} \ book.spoiled
  BY BeforeApply
<1>2. k \in Nat
  BY WorkParts
<1>3. Now \in Stores /\ Unspoiled \in SUBSET All
  BY LaneApplyIs
<1>4. /\ Now.staged = staged /\ Now.applied = applied /\ Now.missing = missing
  BY DEF Now
<1> HIDE DEF k
<1>5. Kept(k) \in SUBSET All
  BY <1>1, <1>2 DEF Kept
<1>6. \A p \in Unspoiled : \A f \in Needs(p) : Now.staged[Content[f]] # {}
  BY <1>1 DEF Fed, Kept
<1>7. \A q \in Kept(k) : \A f \in Needs(q) : Now.staged[Content[f]] # {}
  BY <1>1, <1>2 DEF Fed, Kept
<1>8. ASSUME NEW q \in Kept(k), NEW p \in Unspoiled
      PROVE  q # p /\ (q \in Range(Projects) => q \in CleanupContext(p))
  <2>1. PICK n \in 1..k : p = lane.tasks[n].of
    BY <1>1
  <2>2. q \in Behind(n)
    <3>1. n \in Nat /\ n <= k
      BY <1>2
    <3>2. q \in Behind(k)
      BY DEF Kept
    <3> QED BY <1>2, <3>1, <3>2, BehindIs
  <2> QED BY <1>1, <2>1, <2>2, BehindContext DEF k
<1>9. \A q \in Kept(k) : q \notin Now.applied \union Unspoiled
  BY <1>1, <1>2, <1>4, <1>8 DEF Kept
<1>10. \A q \in Kept(k) \intersect Range(Projects), p \in Unspoiled : q \in CleanupContext(p)
  BY <1>8
<1>11. PICK W : W = Kept(k)
  OBVIOUS
<1>12. /\ W \in SUBSET All
       /\ \A q \in W : q \notin Now.applied \union Unspoiled
       /\ \A q \in W : \A f \in Needs(q) : Now.staged[Content[f]] # {}
       /\ \A q \in W \intersect Range(Projects), p \in Unspoiled : q \in CleanupContext(p)
  BY <1>5, <1>7, <1>9, <1>10, <1>11
<1>13. /\ Call(Now, Unspoiled).missing = Now.missing
       /\ Call(Now, Unspoiled).applied = Now.applied \union Unspoiled
       /\ \A q \in W : \A f \in Needs(q) : Call(Now, Unspoiled).staged[Content[f]] # {}
  BY <1>3, <1>6, <1>12, CallKeeps
<1>14. Unspoiled \subseteq Of(lane.tasks)
  BY DEF Unspoiled
<1> QED BY <1>4, <1>11, <1>13, <1>14 DEF Fed, k

(* One call after the other. *)
LEMMA ApplyEach ==
  ASSUME ImportTyped, LaneTyped, WorkInv, ScratchInv, BookInv, JobsInv, ReportInv, OrderInv,
         IdleInv, WaitingInv, step \in Late, LaneApply, NEW ps \in SUBSET Unspoiled
  PROVE  LET v == CallEach(Now, ps)
         IN /\ v.missing = missing /\ v.applied \subseteq applied \union Of(lane.tasks)
            /\ Fed(v, Len(lane.tasks))
<1> DEFINE D == Range(lane.tasks)
           fn == [at \in Stores \X D |-> IF at[2].of \in ps THEN Call(at[1], {at[2].of}) ELSE at[1]]
           First(n) == {lane.tasks[i].of : i \in 1..n}
           Right(n, v) == /\ v.missing = missing /\ v.applied \subseteq applied \union First(n)
                          /\ Fed(v, n)
           Good == {g \in Nat \X Stores : Right(g[1], g[2])}
<1>1. /\ ~Dead /\ verdict = "none" /\ Fed(Now, 0)
      /\ Behind(0) = Waiting /\ \A t \in D : t.kind = "apply"
      /\ \A n \in Nat : Behind(n) \subseteq Waiting /\ Behind(n) \subseteq All
      /\ applied \intersect Waiting = {}
  BY BeforeApply
<1>2. lane.tasks \in Seq(TaskSet) /\ Len(lane.tasks) \in Nat
  BY WorkParts
<1>3. lane.tasks \in Seq(D) /\ \A t \in D : t.of \in All
  <2>1. \A t \in D : t \in TaskSet
    BY <1>2, RangeOfSeq
  <2>2. \A t \in D : t.of \in All
    BY <1>1, <2>1, TaskIs
  <2> QED BY <1>2, <2>2, SeqOfRange
<1>4. Now \in Stores
  BY LaneApplyIs
<1>5. fn \in [Stores \X D -> Stores]
  <2>1. ASSUME NEW at \in Stores \X D
        PROVE  (IF at[2].of \in ps THEN Call(at[1], {at[2].of}) ELSE at[1]) \in Stores
    <3>1. at[1] \in Stores /\ at[2] \in D
      OBVIOUS
    <3>2. {at[2].of} \in SUBSET All
      BY <1>3, <3>1
    <3> HIDE DEF D
    <3> QED BY <3>1, <3>2, CallTyped
  <2> QED BY <2>1
<1>6. CallEach(Now, ps) = FoldBy(fn, Now, lane.tasks)
  BY DEF CallEach
<1>7. <<0, Now>> \in Good
  <2>1. Right(0, Now)
    BY <1>1 DEF Now
  <2> HIDE DEF Right
  <2> QED BY <1>4, <2>1
<1>8. ASSUME NEW n \in 1..Len(lane.tasks), NEW v \in Stores, <<n - 1, v>> \in Good
      PROVE  <<n, fn[<<v, lane.tasks[n]>>]>> \in Good
  <2>1. PICK p, w : p = lane.tasks[n].of /\ w = fn[<<v, lane.tasks[n]>>]
    OBVIOUS
  <2>2. lane.tasks[n] \in D
    BY <1>3
  <2>3. n - 1 \in Nat /\ n \in Nat /\ n - 1 <= n
    BY <1>2
  <2>4. w = (IF p \in ps THEN Call(v, {p}) ELSE v) /\ w \in Stores
    <3>1. <<v, lane.tasks[n]>> \in Stores \X D
      BY <2>2
    <3>2. w = (IF p \in ps THEN Call(v, {p}) ELSE v)
      <4> HIDE DEF D
      <4> QED BY <2>1, <2>2
    <3> HIDE DEF fn, D
    <3> QED BY <1>5, <2>1, <3>1, <3>2
  <2>5. Right(n - 1, v)
    <3> HIDE DEF Right
    <3> QED BY <1>8
  <2>6. Behind(n) \subseteq Behind(n - 1) /\ p \in Behind(n - 1)
    BY <2>1, <2>3, BehindIs
  <2>7. First(n) = First(n - 1) \union {p}
    <3>1. 1..n = 1..(n - 1) \union {n}
      BY <2>3
    <3> QED BY <2>1, <3>1
  <2>8. CASE p \notin ps
    <3>1. w = v
      BY <2>4, <2>8
    <3>2. Fed(v, n)
      BY <2>5, <2>6 DEF Fed, Kept
    <3>3. Right(n, w)
      <4> HIDE DEF First
      <4> QED BY <2>5, <2>7, <3>1, <3>2
    <3> HIDE DEF Right
    <3> HIDE DEF fn, D, First
    <3> QED BY <2>1, <2>3, <2>4, <3>3
  <2>9. CASE p \in ps
    <3>1. w = Call(v, {p})
      BY <2>4, <2>9
    <3>2. p \notin book.spoiled /\ {p} \in SUBSET All
      BY <1>1, <2>3, <2>6, <2>9 DEF Unspoiled
    <3>3. \A r \in {p} : \A f \in Needs(r) : v.staged[Content[f]] # {}
      BY <2>5, <2>6, <3>2 DEF Fed, Kept
    <3>4. PICK W : W = Kept(n)
      OBVIOUS
    <3>5. W \in SUBSET All
      BY <1>1, <2>3, <3>4 DEF Kept
    <3>6. \A q \in W : \A f \in Needs(q) : v.staged[Content[f]] # {}
      BY <2>5, <2>6, <3>4 DEF Fed, Kept
    <3>7. ASSUME NEW q \in W
          PROVE  q \notin v.applied \union {p} /\ (q \in Range(Projects) => q \in CleanupContext(p))
      <4>1. q \in Behind(n) /\ q \in Waiting
        BY <1>1, <2>3, <3>4 DEF Kept
      <4>2. q # p /\ (q \in Range(Projects) => q \in CleanupContext(p))
        BY <1>1, <2>1, <4>1, BehindContext
      <4>3. ASSUME NEW i \in 1..(n - 1) PROVE q # lane.tasks[i].of
        <5>1. i \in 1..Len(lane.tasks) /\ i \in Nat /\ i <= n
          BY <1>2, <2>3
        <5>2. q \in Behind(i)
          BY <2>3, <4>1, <5>1, BehindIs
        <5> QED BY <1>1, <5>1, <5>2, BehindContext
      <4>4. q \notin First(n - 1)
        BY <4>3
      <4>5. v.applied \subseteq applied \union First(n - 1)
        BY <2>5
      <4>6. q \notin applied
        BY <1>1, <4>1
      <4> HIDE DEF First
      <4> QED BY <4>2, <4>4, <4>5, <4>6
    <3>8. /\ \A q \in W : q \notin v.applied \union {p}
          /\ \A q \in W \intersect Range(Projects), r \in {p} : q \in CleanupContext(r)
      BY <3>7
    <3>9. /\ Call(v, {p}).missing = v.missing /\ Call(v, {p}).applied = v.applied \union {p}
          /\ \A q \in W : \A f \in Needs(q) : Call(v, {p}).staged[Content[f]] # {}
      BY <3>2, <3>3, <3>5, <3>6, <3>8, CallKeeps
    <3>10. Right(n, w)
      <4>1. Fed(w, n)
        BY <3>1, <3>4, <3>9 DEF Fed
      <4> HIDE DEF First
      <4> QED BY <2>5, <2>7, <3>1, <3>9, <4>1
    <3> HIDE DEF Right
    <3> HIDE DEF fn, D, First
    <3> QED BY <2>1, <2>3, <2>4, <3>10
  <2> QED BY <2>8, <2>9
<1>9. FoldBy(fn, Now, lane.tasks) \in Stores
      /\ <<Len(lane.tasks), FoldBy(fn, Now, lane.tasks)>> \in Good
  <2> HIDE DEF fn, Good, D
  <2>1. \A n \in 1..Len(lane.tasks), v \in Stores :
          <<n - 1, v>> \in Good => <<n, fn[<<v, lane.tasks[n]>>]>> \in Good
    BY <1>8
  <2> QED BY <1>3, <1>4, <1>5, <1>7, <2>1, FoldKeeps
<1>10. Right(Len(lane.tasks), CallEach(Now, ps))
  <2> HIDE DEF Right, fn
  <2> QED BY <1>6, <1>9
<1>11. First(Len(lane.tasks)) \subseteq Of(lane.tasks)
  <2>1. \A i \in 1..Len(lane.tasks) : lane.tasks[i] \in D
    BY <1>3
  <2> QED BY <1>1, <2>1 DEF Of
<1> HIDE DEF First
<1> QED BY <1>10, <1>11

(* A call refuses no project, applies what it was given, and leaves what    *)
(* the projects behind it wait for.                                         *)
LEMMA Applies ==
  ASSUME ImportTyped, LaneTyped, WorkInv, ScratchInv, BookInv, JobsInv, ReportInv, OrderInv,
         IdleInv, WaitingInv, step \in Late, LaneApply
  PROVE  /\ missing' = missing /\ applied' \subseteq applied \union Of(lane.tasks)
         /\ Of(lane.tasks) \intersect (Of(lane.queue) \union Of(jobs.next)) = {}
         /\ \A q \in (Of(lane.queue) \union Of(jobs.next)) \ book.spoiled :
              \A f \in Needs(q) : staged'[Content[f]] # {}
<1> DEFINE Fine == /\ missing' = missing /\ applied' \subseteq applied \union Of(lane.tasks)
                   /\ \A q \in (Of(lane.queue) \union Of(jobs.next)) \ book.spoiled :
                        \A f \in Needs(q) : staged'[Content[f]] # {}
<1>1. ASSUME UNCHANGED <<staged, applied, missing>> PROVE Fine
  <2>1. \A q \in (Of(lane.queue) \union Of(jobs.next)) \ book.spoiled : q \in Waiting \ book.spoiled
    BY DEF Waiting
  <2>2. ~Dead
    BY DEF LaneApply, Dead
  <2> QED BY <1>1, <2>1, <2>2 DEF WaitingInv
<1>2. ASSUME ~UNCHANGED <<staged, applied, missing>> PROVE Fine
  <2>1. PICK v \in Stores :
          /\ v = Call(Now, Unspoiled) \/ \E ps \in SUBSET Unspoiled : v = CallEach(Now, ps)
          /\ staged' = v.staged /\ applied' = v.applied /\ missing' = v.missing
    BY <1>2, LaneApplyIs
  <2>2. /\ v.missing = missing /\ v.applied \subseteq applied \union Of(lane.tasks)
        /\ Fed(v, Len(lane.tasks))
    BY <2>1, ApplyTogether, ApplyEach
  <2>3. Kept(Len(lane.tasks)) = (Of(lane.queue) \union Of(jobs.next)) \ book.spoiled
    BY BehindIs DEF Kept
  <2> QED BY <2>1, <2>2, <2>3 DEF Fed
<1>3. Fine
  BY <1>1, <1>2
<1>4. PICK k : k = Len(lane.tasks)
  OBVIOUS
<1>5. k \in Nat /\ Behind(k) = Of(lane.queue) \union Of(jobs.next)
  BY <1>4, WorkParts, BehindIs
<1>6. ASSUME NEW q \in Behind(k) PROVE q \notin Of(lane.tasks)
  <2>1. ASSUME NEW n \in 1..k, q = lane.tasks[n].of PROVE FALSE
    <3>1. n \in Nat /\ n <= k
      BY <1>5
    <3>2. q \in Behind(n)
      BY <1>5, <3>1, BehindIs
    <3>3. ~Dead /\ verdict = "none"
      BY BeforeApply
    <3> QED BY <1>4, <2>1, <3>2, <3>3, BehindContext
  <2>2. \A t \in Range(lane.tasks) : \E n \in 1..k : t = lane.tasks[n]
    BY <1>4, WorkParts DEF Range
  <2> QED BY <2>1, <2>2 DEF Of
<1> QED BY <1>3, <1>5, <1>6

(* What is still to apply has what it needs, whatever is applied before it. *)
LEMMA WaitingKeeps ==
  ASSUME ImportTyped, LaneTyped, Flow, EarlyInv, UnqueuedInv, WorkInv, ScratchInv, BookInv,
         JobsInv, ReportInv, IdleInv, FetchedInv, OrderInv, WaitingInv,
         WorkInv', ScratchInv', ImportTyped', LaneTyped', [Next]_vars
  PROVE  WaitingInv'
<1> SUFFICES ASSUME step' \in Late, ~Dead'
             PROVE  /\ applied' \intersect Waiting' = {}
                    /\ \A p \in Waiting' \ book'.spoiled : \A f \in Needs(p) : staged'[Content[f]] # {}
  BY DEF WaitingInv
<1>0. ~Dead
  BY LateStays
<1>e. Of(<<>>) = {}
  BY EmptyList DEF Of
<1>w. Waiting' = ((IF lane'.work = "do" THEN Of(lane'.tasks) ELSE {}) \union Of(lane'.queue))
                 \union Of(jobs'.next)
  BY DEF Waiting, Of
<1>1. CASE step \notin Late
  <2>1. lane'.tasks = <<>> /\ lane'.queue = <<>>
    BY <1>1, LateWork
  <2>2. Waiting' = Of(jobs'.next)
    BY <1>e, <1>w, <2>1
  <2>3. verdict = "none" /\ UNCHANGED <<results, staged, applied>>
    BY <1>1, BecomesLate
  <2>4. applied = {} /\ jobs.next = <<>>
    BY <1>1 DEF UnqueuedInv
  <2>5. CASE jobs'.next = <<>>
    BY <1>e, <2>2, <2>5
  <2>6. CASE jobs'.next # <<>>
    <3>1. step # "plan"
      BY <1>1, <2>4, <2>6, BecomesLate
    <3>2. PICK b \in Books : /\ BookIs(b) /\ Turns(b) /\ b.awaited = {}
                             /\ BookKept(book, b) /\ FetchKept(book, b)
      BY <1>1, <2>6, LateWork
    <3>3. book' = b /\ Waiting' = Offered(b)
      BY <2>2, <3>2, OfTasks DEF Turns
    <3>4. ASSUME NEW p \in Offered(b) \ b.spoiled, NEW f \in Needs(p)
          PROVE  staged[Content[f]] # {}
      <4>1. p \in Range(Projects)
        BY <3>4, Offers DEF Needs
      <4>2. p \in Range(b.ready) /\ p \in Open /\ p \notin Range(b.left)
        BY <3>2, <3>4, <4>1, Offers DEF BookIs, Offered
      <4>3. StagedFor(p, book)
        BY <1>1, <2>3, <3>1, <3>2, <4>1, <4>2 DEF FetchedInv, BookKept
      <4> QED BY <3>2, <3>4, <4>1, <4>3 DEF FetchKept, StagedFor
    <3> QED BY <2>3, <2>4, <3>3, <3>4
  <2> QED BY <2>5, <2>6
<1>2. CASE step \in Late
  <2>0. /\ applied \intersect Waiting = {}
        /\ \A p \in Waiting \ book.spoiled : \A f \in Needs(p) : staged[Content[f]] # {}
    BY <1>0, <1>2 DEF WaitingInv
  <2>b. book' = book
    BY <1>2, LateSteps
  <2>c. \A p : \A f \in Needs(p) : Content[f] \in Hashes
    BY DEF Needs, Hashes
  <2>1. CASE LaneApply
    <3>1. Becomes("skip") /\ jobs' = jobs
      BY <2>1, LaneSteps DEF LaneApply
    <3>2. Waiting' = Of(lane.queue) \union Of(jobs.next)
      BY <1>w, <3>1 DEF Becomes
    <3>3. Waiting' \subseteq Waiting
      BY <3>2 DEF Waiting
    <3> QED BY <1>2, <2>0, <2>1, <2>b, <3>2, <3>3, Applies
  <2>2. ASSUME ~LaneApply, Waiting' \subseteq Waiting
        PROVE  /\ applied' \intersect Waiting' = {}
               /\ \A p \in Waiting' \ book'.spoiled : \A f \in Needs(p) : staged'[Content[f]] # {}
    <3>1. applied' = applied
      BY <2>2, ApplySteps
    <3>2. \A c \in Hashes : staged[c] # {} => staged'[c] # {}
      BY <2>2, StagedGrows
    <3> QED BY <2>0, <2>2, <2>b, <2>c, <3>1, <3>2
  <2>3. CASE Enqueue /\ ~LaneApply
    <3>1. CASE jobs.next = <<>>
      <4>1. UNCHANGED <<lane, jobs>>
        BY <2>3, <3>1, EnqueueIs
      <4> QED BY <1>w, <2>2, <2>3, <4>1 DEF Waiting
    <3>2. CASE jobs.next # <<>>
      <4>1. PICK h : h = Head(jobs.next)
        OBVIOUS
      <4>2. h \in TaskSet
        BY <3>2, <4>1, WorkParts, TailList
      <4>3. jobs'.next = Tail(jobs.next) /\ lane' = [lane EXCEPT !.queue = Append(@, h)]
        BY <1>0, <2>3, <3>2, <4>1, EnqueueIs
      <4>4. Queues(h)
        <5>1. lane.queue \in Seq(TaskSet) /\ lane \in Lanes
          BY DEF LaneTyped, Lanes
        <5>2. PICK q : q = Append(lane.queue, h)
          OBVIOUS
        <5>3. q \in Seq(TaskSet) /\ lane' = [lane EXCEPT !.queue = q]
          BY <4>2, <4>3, <5>1, <5>2
        <5> QED BY <5>1, <5>2, <5>3, LaneSet DEF Queues
      <4>5. Of(lane'.queue) \subseteq Of(lane.queue) \union {h.of}
        BY <4>2, <4>4, OfAppend
      <4>6. Of(jobs.next) = Of(jobs'.next) \union {h.of}
        BY <3>2, <4>1, <4>3, OfNext
      <4>7. lane'.work = lane.work /\ lane'.tasks = lane.tasks
        BY <4>4 DEF Queues
      <4>8. Waiting' \subseteq Waiting
        BY <1>w, <4>5, <4>6, <4>7 DEF Waiting
      <4> QED BY <2>2, <2>3, <4>8
    <3> QED BY <3>1, <3>2
  <2>4. CASE ~Enqueue /\ ~LaneApply
    <3>1. jobs'.next = jobs.next
      BY <1>2, <2>4, LateLane
    <3>2. CASE SameLane
      BY <1>w, <2>2, <2>4, <3>1, <3>2 DEF SameLane, Waiting
    <3>3. ASSUME Takes, Taken PROVE Waiting' \subseteq Waiting
      <4>1. lane.work = "do" \/ lane.tasks = <<>>
        BY <3>3, TakesIs DEF LaneTyped
      <4>2. Range(lane'.tasks) \union Range(lane'.queue) = Range(lane.tasks) \union Range(lane.queue)
        BY <3>3, TakesTyped
      <4>3. Of(lane'.tasks) \union Of(lane'.queue) \subseteq Of(lane.tasks) \union Of(lane.queue)
        BY <4>2 DEF Of
      <4> HIDE DEF Of
      <4> QED BY <1>e, <1>w, <3>1, <4>1, <4>3 DEF Waiting
    <3>4. ASSUME NEW e \in EventSet, Reports(e) PROVE Waiting' \subseteq Waiting
      BY <1>w, <3>1, <3>4 DEF Reports, Waiting
    <3>5. ~Becomes("dead")
      BY DEF Becomes, Dead
    <3> QED BY <1>2, <2>2, <2>4, <3>2, <3>3, <3>4, <3>5, LateLane
  <2> QED BY <2>1, <2>3, <2>4
<1> QED BY <1>1, <1>2

(* No project is refused. *)
LEMMA NoneMissing ==
  ASSUME ImportTyped, LaneTyped, UnqueuedInv, WorkInv, ScratchInv, BookInv, JobsInv, ReportInv,
         IdleInv, OrderInv, WaitingInv, missing = {}, [Next]_vars
  PROVE  missing' = {}
<1>1. CASE ~LaneApply
  BY <1>1, ApplySteps
<1>2. CASE LaneApply
  <2>1. step \in Late
    BY <1>2, NoApplyYet
  <2> QED BY <1>2, <2>1, Applies
<1> QED BY <1>1, <1>2

-----------------------------------------------------------------------------
(* The invariant of the import within its run.                             *)

(* The parts of the invariant: types and the run's flow, the lane and the   *)
(* files, the books and the reports, what is applied.                       *)
Typed    == ImportTyped /\ LaneTyped /\ RunTyped /\ Flow
LaneInvs == EarlyInv /\ UnqueuedInv /\ EventInv /\ WorkInv /\ ScratchInv /\ CreditInv
BookInvs == BookInv /\ JobsInv /\ ReportInv /\ IdleInv /\ OneResultEach
ApplyInvs == OffInv /\ FetchedInv /\ OrderInv /\ WaitingInv /\ missing = {}
ImportInv == IInv /\ Typed /\ LaneInvs /\ BookInvs /\ ApplyInvs

(* What the import starts with. *)
LEMMA InitialImport ==
  ASSUME Init
  PROVE  /\ step = "plan" /\ book \in Books /\ lane \in Lanes /\ window \in Windows
         /\ peer \in Peers /\ jobs \in JobSets
         /\ book.left = <<>> /\ book.ready = <<>> /\ book.tombs = <<>> /\ book.done = {}
         /\ book.awaited = {}
         /\ lane.queue = <<>> /\ lane.tasks = <<>> /\ lane.events = <<>> /\ lane.work = "idle"
         /\ jobs.staging = {} /\ jobs.next = <<>> /\ jobs.queued = {} /\ jobs.refused = {}
         /\ peer.does = "idle" /\ peer.sending = {} /\ peer.inbox = <<>>
         /\ Work = <<>> /\ Open = All
<1>1. /\ step = "plan" /\ book.left = <<>> /\ book.ready = <<>> /\ book.tombs = <<>>
      /\ book.done = {} /\ book.awaited = {} /\ book \in Books
  BY DEF Init, ImportInit, Books
<1>2. /\ lane.queue = <<>> /\ lane.tasks = <<>> /\ lane.events = <<>> /\ lane.work = "idle"
      /\ lane \in Lanes
  <2>1. lane = [queue |-> <<>>, work |-> "idle", tasks |-> <<>>, events |-> <<>>, off |-> FALSE]
    BY DEF Init, ImportInit
  <2>2. <<>> \in Seq(TaskSet) /\ <<>> \in Seq(EventSet)
    OBVIOUS
  <2> QED BY <2>1, <2>2 DEF Lanes
<1>3. /\ jobs.staging = {} /\ jobs.next = <<>> /\ jobs.queued = {} /\ jobs.refused = {}
      /\ jobs \in JobSets
  BY DEF Init, ImportInit, JobSets
<1>4. /\ peer.does = "idle" /\ peer.sending = {} /\ peer.inbox = <<>> /\ peer \in Peers
  BY DEF Init, ImportInit, Peers
<1>5. window \in Windows
  BY DEF Init, ImportInit, Windows
<1>6. Work = <<>>
  BY <1>2, <1>3 DEF Work
<1>7. Open = All
  BY DEF Init, ImportInit, Open
<1> QED BY <1>1, <1>2, <1>3, <1>4, <1>5, <1>6, <1>7

(* The invariant at the start. *)
LEMMA ImportInvStarts ==
  ASSUME Init, IInv
  PROVE  ImportInv
<1>s. /\ step = "plan" /\ step \notin Late /\ Work = <<>> /\ Open = All /\ ~Dead
      /\ book.left = <<>> /\ book.ready = <<>> /\ book.tombs = <<>> /\ book.done = {}
      /\ book.awaited = {}
      /\ lane.queue = <<>> /\ lane.tasks = <<>> /\ lane.events = <<>> /\ lane.work = "idle"
      /\ jobs.staging = {} /\ jobs.next = <<>> /\ jobs.queued = {} /\ jobs.refused = {}
      /\ peer.does = "idle" /\ peer.sending = {} /\ peer.inbox = <<>>
  BY InitialImport DEF Late, Dead
<1>e. Range(<<>>) = {} /\ IsInjective(<<>>) /\ Of(<<>>) = {}
  BY EmptyList DEF Of
<1>i. /\ verdict = "none" /\ phase = "new" /\ token = "clear" /\ scratch = {}
      /\ applied = {} /\ missing = {} /\ stream = [f \in Files |-> "none"]
      /\ batch = [ended |-> FALSE, broken |-> FALSE] /\ results = [p \in All |-> 0]
      /\ size \in [Files -> Nat] /\ staged \in [Hashes -> SUBSET Files]
  BY RequestsAreOfProjects DEF RequestsAreOfProjects, Init, ImportInit
<1>1. ImportTyped
  BY <1>i, InitialImport DEF ImportTyped, Batches, Streams
<1>2. LaneTyped
  <2>1. QueueCap \in Nat /\ ApplyMax \in Nat
    BY CapsArePositive DEF CapsArePositive
  <2>2. Len(lane.queue) = 0 /\ Len(lane.tasks) = 0
    BY <1>s
  <2>3. lane \in Lanes
    BY InitialImport
  <2> QED BY <1>s, <1>e, <2>1, <2>2, <2>3 DEF LaneTyped
<1>3. RunTyped
  <2>1. role \in {"initiator", "responder"}
    BY RequestsAreOfProjects DEF RequestsAreOfProjects, Init
  <2> QED BY <2>1, BoundsAreNatural DEF BoundsAreNatural, RunTyped, Init
<1>4. Flow
  BY <1>s, <1>i DEF Flow, Unleased
<1>5. EarlyInv /\ UnqueuedInv /\ EventInv
  BY <1>s, <1>e, <1>i DEF EarlyInv, UnqueuedInv, EventInv
<1>6. WorkInv /\ ScratchInv
  BY <1>s, <1>e, <1>i DEF WorkInv, ScratchInv
<1>7. CreditInv
  <2>1. Bytes({}) = 0
    BY <1>i, WeightBounds, FilesAreFinite DEF Bytes
  <2> QED BY <1>s, <1>i, <2>1, BoundsAreNatural DEF BoundsAreNatural, CreditInv, Batching
<1>8. BookInv
  <2>1. BookIs(book)
    BY <1>s, <1>e DEF BookIs
  <2>2. \A p \in All : results[p] \in 0..1
    BY <1>i
  <2> QED BY <1>s, <2>1, <2>2, <1>i DEF BookInv, Late
<1>9. JobsInv /\ ReportInv /\ IdleInv
  BY <1>s, <1>e, <1>i DEF JobsInv, ReportInv, IdleInv, Reported
<1>10. OneResultEach
  BY <1>i DEF OneResultEach
<1>11. OffInv /\ FetchedInv /\ OrderInv /\ WaitingInv
  BY <1>s, <1>e, <1>i DEF OffInv, FetchedInv, OrderInv, WaitingInv
<1> QED
  BY <1>1, <1>2, <1>3, <1>4, <1>5, <1>6, <1>7, <1>8, <1>9, <1>10, <1>11, <1>i
  DEF ImportInv, Typed, LaneInvs, BookInvs, ApplyInvs

(* Every step keeps the invariant: first what is typed and where the run   *)
(* is, then the lane, then the books, then what is applied.                *)
LEMMA ImportInvKeeps ==
  ASSUME ImportInv, IInv', [Next]_vars
  PROVE  ImportInv'
<1>1. Typed /\ LaneInvs /\ BookInvs /\ ApplyInvs /\ IInv
  BY DEF ImportInv
<1>2. /\ ImportTyped /\ LaneTyped /\ RunTyped /\ Flow /\ EarlyInv /\ UnqueuedInv /\ EventInv
      /\ WorkInv /\ ScratchInv /\ CreditInv /\ BookInv /\ JobsInv /\ ReportInv /\ IdleInv
      /\ OneResultEach /\ OffInv /\ FetchedInv /\ OrderInv /\ WaitingInv /\ missing = {}
  BY <1>1 DEF Typed, LaneInvs, BookInvs, ApplyInvs
<1>3. ImportTyped' /\ LaneTyped' /\ RunTyped' /\ Flow'
  BY <1>1, <1>2, ImportTypedKeeps, LaneTypedKeeps, RunTypedKeeps, FlowKeeps
<1>4. EarlyInv' /\ UnqueuedInv' /\ EventInv' /\ WorkInv'
  BY <1>2, EarlyKeeps, UnqueuedKeeps, EventKeeps, WorkKeeps
<1>5. ScratchInv' /\ CreditInv'
  BY <1>2, ScratchKeeps, CreditKeeps
<1>6. BookInv' /\ JobsInv' /\ ReportInv' /\ IdleInv'
  BY <1>2, BookKeeps, JobsKeeps, ReportKeeps, IdleKeeps
<1>7. OneResultEach'
  BY <1>2, <1>6, OneResultKeeps
<1>8. OffInv' /\ FetchedInv' /\ OrderInv'
  BY <1>2, <1>3, <1>4, <1>5, OffKeeps, FetchedKeeps, OrderKeeps
<1>9. WaitingInv' /\ missing' = {}
  BY <1>2, <1>3, <1>4, <1>5, WaitingKeeps, NoneMissing
<1> QED
  BY <1>3, <1>4, <1>5, <1>6, <1>7, <1>8, <1>9 DEF ImportInv, Typed, LaneInvs, BookInvs, ApplyInvs

(* The invariant holds at the start and after every step. *)
LEMMA ImportInductive == Spec => []ImportInv
<1>1. Init /\ IInv => ImportInv
  BY ImportInvStarts
<1>2. ImportInv /\ IInv' /\ [Next]_vars => ImportInv'
  BY ImportInvKeeps
<1> QED BY <1>1, <1>2, Inductive, PTL DEF Spec

(* Every variable of a run keeps its type, every bound of the import (the  *)
(* lane's queue and its calls) holds, and the count of the native power    *)
(* state stays within its two values.                                      *)
THEOREM TypesHold == Spec => []TypeOK
<1>1. ImportInv => TypeOK
  <2> SUFFICES ASSUME ImportInv PROVE TypeOK
    OBVIOUS
  <2>1. ImportTyped /\ LaneTyped /\ RunTyped /\ LeaseTyped
    BY DEF ImportInv, Typed, IInv
  <2>2. window.active \subseteq Files /\ Range(window.queue) \subseteq Files
    <3>1. window.queue \in Seq(Files) /\ window.active \in SUBSET Files
      BY <2>1 DEF ImportTyped, Windows
    <3> QED BY <3>1, RangeOfSeq
  <2>3. lane.work \in {"idle", "do", "skip", "dead"} /\ Len(lane.queue) <= QueueCap
        /\ Len(lane.tasks) <= ApplyMax
    BY <2>1 DEF LaneTyped, Lanes
  <2>4. epoch \in 0..MaxFaults /\ faults \in 0..MaxFaults
    BY <2>1, BoundsAreNatural DEF RunTyped, BoundsAreNatural
  <2>5. stream \in [Files -> {"none", "open", "reading", "received", "failed", "unread", "cut", "handled"}]
    BY <2>1 DEF ImportTyped, Streams
  <2> QED BY <2>1, <2>2, <2>3, <2>4, <2>5 DEF TypeOK, ImportTyped, RunTyped, LeaseTyped
<1> QED BY <1>1, ImportInductive, PTL

(* Received files never take more than the byte budget of the credit, and  *)
(* a run whose write lane lived leaves none behind (send_available_iroh_   *)
(* batch_credit, handle_iroh_receive_result, the lane's stage tasks).      *)
THEOREM ScratchStaysBounded == Spec => []ScratchBounded
<1>1. ImportInv => ScratchBounded
  <2> SUFFICES ASSUME ImportInv PROVE ScratchBounded
    OBVIOUS
  <2>1. CreditInv /\ ScratchInv /\ EarlyInv /\ Flow
    BY DEF ImportInv, Typed, LaneInvs
  <2>2. ASSUME phase \in {"release", "over"}, ~Dead PROVE scratch = {}
    <3>1. step \in {"plan", "after"}
      BY <2>1, <2>2 DEF Flow
    <3> QED BY <2>1, <2>2, <3>1 DEF EarlyInv, ScratchInv, Early, Late
  <2> QED BY <2>1, <2>2 DEF CreditInv, ScratchBounded
<1> QED BY <1>1, ImportInductive, PTL

(* No project is reported twice, and a run that reached its end and that    *)
(* nobody interrupted reports every offered project and every deletion that *)
(* the plan names (finish_staged_remote_import), also when streams, stage   *)
(* jobs or calls of the backend failed or the lane died.  A run that ends   *)
(* with an error or an interruption promises only the first half.           *)
THEOREM EachHasOneResult == Spec => []OneResultEach
<1>1. ImportInv => OneResultEach
  BY DEF ImportInv, BookInvs
<1> QED BY <1>1, ImportInductive, PTL

(* A project reaches the backend only with all that it needs staged, no    *)
(* matter what was cleaned up after other projects or how a failed call    *)
(* was split, and an import whose batch broke applies nothing.             *)
THEOREM WhatIsAppliedIsStaged == Spec => []AppliedIsStaged
<1>1. ImportInv => AppliedIsStaged
  BY DEF ImportInv, ApplyInvs, OffInv, AppliedIsStaged
<1> QED BY <1>1, ImportInductive, PTL
=============================================================================
