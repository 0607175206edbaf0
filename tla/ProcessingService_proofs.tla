----------------------- MODULE ProcessingService_proofs -----------------------
(***************************************************************************)
(* Proofs about ProcessingService for every number of starts and requests: *)
(* the service leaves nothing behind, and implements Protection.  Both     *)
(* rest on the order of the intents: the one that brings the service to    *)
(* the foreground is the last that is under way.                           *)
(***************************************************************************)
EXTENDS ProcessingService, SequenceTheorems, TLAPS

(* The intents in q are of generations up to g, the oldest first. *)
Ordered(q, g) ==
  /\ q \in Seq(Messages)
  /\ \A i \in DOMAIN q : q[i].kind = "start" =>
       /\ q[i].gen <= g
       /\ \A k \in DOMAIN q : k < i /\ q[k].kind = "start" => q[k].gen < q[i].gen

NoStart(q) == \A i \in DOMAIN q : q[i].kind # "start"

(* The object in the foreground is the instance that is ready, the one the *)
(* system knows, and no other is about to be started.                      *)
ReadyInv ==
  /\ wanted => ~failed
  /\ locks \subseteq foreground
  /\ ~ready => foreground = {}
  /\ ready => /\ wanted /\ instance # 0 /\ alive = instance
              /\ foreground = {instance}
              /\ NoStart(mailbox)
-----------------------------------------------------------------------------
(* The messages of the main thread.                                        *)

(* Delivering the head keeps the order; the intent of the current          *)
(* generation is the last one. *)
LEMMA TailOrdered ==
  ASSUME NEW q, NEW g \in Nat, Ordered(q, g), q # <<>>
  PROVE  /\ Ordered(Tail(q), g)
         /\ NoStart(q) => NoStart(Tail(q))
         /\ Head(q) = q[1] /\ Head(q) \in Messages
         /\ Head(q).kind = "start" /\ Head(q).gen = g => NoStart(Tail(q))
<1>1. q \in Seq(Messages) /\ Len(q) \in Nat \ {0} /\ DOMAIN q = 1..Len(q)
  BY DEF Ordered
<1>2. /\ Tail(q) \in Seq(Messages)
      /\ DOMAIN Tail(q) = 1..(Len(q) - 1)
      /\ \A i \in DOMAIN Tail(q) : i + 1 \in DOMAIN q /\ Tail(q)[i] = q[i + 1]
      /\ Head(q) = q[1] /\ 1 \in DOMAIN q /\ q[1] \in Messages
  BY <1>1, HeadTailProperties
<1>3. \A i \in DOMAIN q : q[i] \in Messages
  BY <1>1
<1>4. \A i \in DOMAIN q : q[i].kind = "start" => q[i].gen \in Nat
  BY <1>3 DEF Messages
<1>5. Ordered(Tail(q), g)
  <2>1. ASSUME NEW i \in DOMAIN Tail(q), Tail(q)[i].kind = "start"
        PROVE  /\ Tail(q)[i].gen <= g
               /\ \A k \in DOMAIN Tail(q) :
                    k < i /\ Tail(q)[k].kind = "start" => Tail(q)[k].gen < Tail(q)[i].gen
    <3>1. i + 1 \in DOMAIN q /\ q[i + 1].kind = "start" /\ i \in Int
      BY <2>1, <1>2
    <3>2. \A k \in DOMAIN Tail(q) : k < i => k + 1 < i + 1 /\ k + 1 \in DOMAIN q
      BY <3>1, <1>2
    <3> QED BY <3>1, <3>2, <1>2 DEF Ordered
  <2> QED BY <2>1, <1>2 DEF Ordered
<1>6. NoStart(q) => NoStart(Tail(q))
  BY <1>2 DEF NoStart
<1>7. ASSUME Head(q).kind = "start", Head(q).gen = g PROVE NoStart(Tail(q))
  <2>1. SUFFICES ASSUME NEW i \in DOMAIN Tail(q), Tail(q)[i].kind = "start"
                 PROVE  FALSE
    BY DEF NoStart
  <2>2. i + 1 \in DOMAIN q /\ 1 < i + 1 /\ q[i + 1].kind = "start"
    BY <2>1, <1>2
  <2>3. q[i + 1].gen <= g /\ g < q[i + 1].gen
    BY <2>2, <1>2, <1>7 DEF Ordered
  <2> QED BY <2>2, <2>3, <1>4
<1> QED BY <1>2, <1>5, <1>6, <1>7

(* A later generation does not disturb the order, nor does the             *)
(* destruction of an object; an intent of it comes last.                   *)
LEMMA AppendOrdered ==
  ASSUME NEW q, NEW g \in Nat, Ordered(q, g), NEW o \in 1..MaxStarts
  PROVE  /\ Ordered(q, g + 1)
         /\ Ordered(Append(q, Destroy(o)), g)
         /\ NoStart(q) => NoStart(Append(q, Destroy(o)))
         /\ Ordered(Append(q, Start(o, g + 1)), g + 1)
<1> DEFINE n == Len(q)
<1>1. q \in Seq(Messages) /\ n \in Nat /\ DOMAIN q = 1..n
  BY DEF Ordered
<1>2. \A i \in DOMAIN q : q[i].kind = "start" => q[i].gen \in Nat
  BY <1>1 DEF Messages
<1>3. Ordered(q, g + 1)
  BY <1>1, <1>2 DEF Ordered
<1>4. Destroy(o) \in Messages /\ Destroy(o).kind = "destroy"
  BY DEF Destroy, Messages
<1>5. /\ Start(o, g + 1) \in Messages /\ Start(o, g + 1).kind = "start"
      /\ Start(o, g + 1).gen = g + 1
  BY DEF Start, Messages
<1>6. ASSUME NEW m \in Messages
      PROVE  /\ Append(q, m) \in Seq(Messages)
             /\ DOMAIN Append(q, m) = 1..(n + 1)
             /\ \A i \in 1..n : Append(q, m)[i] = q[i]
             /\ Append(q, m)[n + 1] = m
  BY <1>1, AppendProperties
<1>7. Ordered(Append(q, Destroy(o)), g)
  <2> DEFINE a == Append(q, Destroy(o))
  <2>1. ASSUME NEW i \in DOMAIN a, a[i].kind = "start"
        PROVE  i \in DOMAIN q /\ a[i] = q[i]
    BY <2>1, <1>1, <1>4, <1>6
  <2> QED BY <2>1, <1>4, <1>6 DEF Ordered
<1>8. NoStart(q) => NoStart(Append(q, Destroy(o)))
  BY <1>1, <1>4, <1>6 DEF NoStart
<1>9. Ordered(Append(q, Start(o, g + 1)), g + 1)
  <2> DEFINE a == Append(q, Start(o, g + 1))
  <2>0. /\ a \in Seq(Messages) /\ DOMAIN a = 1..(n + 1)
        /\ \A i \in 1..n : a[i] = q[i]
        /\ a[n + 1].kind = "start" /\ a[n + 1].gen = g + 1
    BY <1>5, <1>6
  <2> HIDE DEF a
  <2>1. \A i \in DOMAIN a : (i \in DOMAIN q /\ a[i] = q[i]) \/ (i = n + 1 /\ a[i].gen = g + 1)
    BY <1>1, <2>0
  <2>2. \A i \in DOMAIN q : q[i].kind = "start" => q[i].gen < g + 1
    BY <1>2 DEF Ordered
  <2>3. ASSUME NEW i \in DOMAIN a, a[i].kind = "start",
               NEW k \in DOMAIN a, k < i, a[k].kind = "start"
        PROVE  a[k].gen < a[i].gen
    <3>1. k \in DOMAIN q /\ a[k] = q[k]
      BY <2>3, <2>0, <1>1
    <3> QED BY <3>1, <2>1, <2>2, <2>3 DEF Ordered
  <2>4. \A i \in DOMAIN a : a[i].kind = "start" => a[i].gen <= g + 1
    BY <2>1, <2>2, <1>2
  <2>5. Ordered(a, g + 1)
    BY <2>3, <2>4, <2>0 DEF Ordered
  <2> QED BY <2>5 DEF a
<1> QED BY <1>3, <1>7, <1>8, <1>9

(* So stopSelf keeps the order, and starts nothing. *)
LEMMA StopSelfOrdered ==
  ASSUME NEW q, NEW g \in Nat, Ordered(q, g), NEW o \in 0..MaxStarts,
         record \in 0..MaxStarts, StopSelf(o, q)
  PROVE  /\ Ordered(mailbox', g)
         /\ NoStart(q) => NoStart(mailbox')
         /\ record' \in 0..MaxStarts
<1>1. CASE record = o /\ o # 0
  <2>1. o \in 1..MaxStarts
    BY <1>1, ServiceAssumption
  <2>2. mailbox' = Append(q, Destroy(o)) /\ record' = 0
    BY <1>1 DEF StopSelf
  <2>3. Ordered(Append(q, Destroy(o)), g) /\ (NoStart(q) => NoStart(Append(q, Destroy(o))))
    BY <2>1, AppendOrdered
  <2> QED BY <2>2, <2>3, ServiceAssumption
<1>2. CASE ~ (record = o /\ o # 0)
  BY <1>2 DEF StopSelf
<1> QED BY <1>1, <1>2
-----------------------------------------------------------------------------
(* Types and the invariant.                                                *)

(* TypeOK with the field types one by one. *)
Typed ==
  /\ wanted \in BOOLEAN /\ ready \in BOOLEAN /\ failed \in BOOLEAN
  /\ visible \in BOOLEAN /\ calling \in BOOLEAN
  /\ generation \in Nat
  /\ instance \in 0..MaxStarts /\ alive \in 0..MaxStarts /\ record \in 0..MaxStarts
  /\ latch \in {"none", "up", "down"}
  /\ locks \subseteq 1..MaxStarts /\ foreground \subseteq 1..MaxStarts
  /\ starts \in 0..MaxStarts

(* It is TypeOK but for the mailbox. *)
LEMMA TypedIsTypeOK == TypeOK <=> Typed /\ mailbox \in Seq(Messages)
  BY DEF TypeOK, Typed

(* The inductive invariant. *)
IInv == Typed /\ Ordered(mailbox, generation) /\ ReadyInv

(* A message names the object that the system starts or destroys. *)
LEMMA Delivered ==
  ASSUME IInv, NEW k, Deliver(k)
  PROVE  /\ Head(mailbox).obj \in 1..MaxStarts
         /\ Ordered(Tail(mailbox), generation)
         /\ NoStart(mailbox) => NoStart(Tail(mailbox)) /\ k # "start"
         /\ Head(mailbox).kind = "start" /\ Head(mailbox).gen = generation
              => NoStart(Tail(mailbox))
<1>1. mailbox \in Seq(Messages) /\ mailbox # <<>> /\ generation \in Nat
  BY DEF IInv, Typed, Ordered, Deliver
<1>2. /\ Ordered(Tail(mailbox), generation)
      /\ NoStart(mailbox) => NoStart(Tail(mailbox))
      /\ Head(mailbox) = mailbox[1] /\ Head(mailbox) \in Messages
      /\ Head(mailbox).kind = "start" /\ Head(mailbox).gen = generation
           => NoStart(Tail(mailbox))
  BY <1>1, TailOrdered DEF IInv
<1>3. Head(mailbox).obj \in 1..MaxStarts
  BY <1>2 DEF Messages
<1>4. 1 \in DOMAIN mailbox
  BY <1>1
<1>5. NoStart(mailbox) => k # "start"
  BY <1>2, <1>4 DEF NoStart, Deliver
<1> QED BY <1>2, <1>3, <1>5

(* An object that ends takes the foreground with it, as no other object    *)
(* than the one the system knows is there. *)
LEMMA Finished ==
  ASSUME IInv, NEW o \in 0..MaxStarts, NEW q, Ordered(q, generation),
         ready => o = instance, FinishLocked(o, q)
  PROVE  /\ locks' = {} /\ foreground' = {}
         /\ Ordered(mailbox', generation)
         /\ record' \in 0..MaxStarts
<1>1. locks' = {} /\ foreground' = {}
  BY DEF IInv, ReadyInv, FinishLocked
<1>2. StopSelf(o, q) /\ record \in 0..MaxStarts /\ generation \in Nat
  BY DEF IInv, Typed, FinishLocked
<1> QED BY <1>1, <1>2, StopSelfOrdered

(* ...and so does an object that fails. *)
LEMMA Failed ==
  ASSUME IInv, NEW o \in 0..MaxStarts, NEW q, Ordered(q, generation),
         ready => o = instance, FailLocked(o, q)
  PROVE  /\ wanted' = FALSE /\ ready' = FALSE /\ failed' = TRUE
         /\ locks' = {} /\ foreground' = {}
         /\ Ordered(mailbox', generation')
         /\ record' \in 0..MaxStarts /\ generation' = generation
         /\ instance' \in 0..MaxStarts
         /\ latch' \in {"none", "up", "down"}
<1>1. FinishLocked(o, q)
  BY DEF FailLocked
<1>2. locks' = {} /\ foreground' = {} /\ Ordered(mailbox', generation)
      /\ record' \in 0..MaxStarts
  BY <1>1, Finished
<1> QED BY <1>2, ServiceAssumption DEF FailLocked, CountDown, IInv, Typed

(* Every step keeps the invariant. *)
LEMMA InductiveStep ==
  ASSUME IInv, [Next]_vars
  PROVE  IInv'
<1>0. /\ Typed /\ ReadyInv /\ Ordered(mailbox, generation)
      /\ generation \in Nat /\ generation + 1 \in Nat
      /\ ready => instance = alive
  BY DEF IInv, Typed, ReadyInv
<1> USE ServiceAssumption
<1>a. /\ 0 \in 0..MaxStarts /\ \A x \in 1..MaxStarts : x \in 0..MaxStarts /\ x # 0
      /\ instance \in 0..MaxStarts /\ alive \in 0..MaxStarts
  BY <1>0 DEF Typed
<1>1. CASE RequestStop
  <2>1. FinishLocked(instance, mailbox) /\ generation' = generation + 1 /\ wanted' = FALSE
        /\ ready' = FALSE /\ instance' = 0 /\ CountDown
        /\ UNCHANGED <<failed, visible, calling, alive, starts>>
    BY <1>1 DEF RequestStop
  <2>2. locks' = {} /\ foreground' = {} /\ Ordered(mailbox', generation) /\ record' \in 0..MaxStarts
    BY <1>0, <2>1, Finished DEF Typed
  <2>3. Ordered(mailbox', generation')
    BY <1>0, <2>1, <2>2 DEF Ordered, Messages
  <2>4. Typed'
    BY <1>0, <1>a, <2>1, <2>2 DEF Typed, CountDown
  <2>5. ReadyInv'
    BY <2>1, <2>2 DEF ReadyInv
  <2> QED BY <2>3, <2>4, <2>5 DEF IInv
<1>2. CASE RequestStart
  <2>1. ready' = FALSE /\ generation' = generation + 1 /\ ~ready /\ foreground = {}
        /\ UNCHANGED <<instance, visible, locks, foreground, alive>>
    BY <1>2, <1>0 DEF RequestStart, ReadyInv
  <2>2. CASE starts' = starts + 1
    <3> DEFINE o == IF record = 0 THEN starts' ELSE record
    <3>1. /\ wanted' = TRUE /\ failed' = FALSE /\ latch' = "up" /\ calling' = TRUE
          /\ starts < MaxStarts
          /\ record' = o /\ mailbox' = Append(mailbox, Start(o, generation'))
      BY <1>2, <1>0, <2>2 DEF RequestStart, Typed
    <3>2. o \in 1..MaxStarts /\ starts' \in 0..MaxStarts
      BY <1>0, <2>2, <3>1 DEF Typed
    <3>3. Ordered(mailbox', generation')
      BY <1>0, <2>1, <3>1, <3>2, AppendOrdered
    <3> QED BY <1>0, <2>1, <3>1, <3>2, <3>3 DEF IInv, Typed, ReadyInv
  <2>3. CASE /\ wanted' = FALSE /\ failed' = TRUE /\ latch' = "down"
             /\ UNCHANGED <<calling, starts, record, mailbox>>
    <3>1. Ordered(mailbox', generation')
      BY <1>0, <2>1, <2>3 DEF Ordered, Messages
    <3> QED BY <1>0, <2>1, <2>3, <3>1 DEF IInv, Typed, ReadyInv
  <2> QED BY <1>2, <2>2, <2>3 DEF RequestStart
<1>3. CASE StartReturns
  BY <1>0, <1>3 DEF StartReturns, fields, system, IInv, Typed, ReadyInv
<1>4. CASE StartTimesOut
  <2>1. FinishLocked(instance, mailbox) /\ generation' = generation + 1 /\ wanted' = FALSE
        /\ ready' = FALSE /\ failed' = TRUE /\ instance' = 0 /\ calling' = FALSE
        /\ UNCHANGED <<latch, visible, alive, starts>>
    BY <1>4 DEF StartTimesOut
  <2>2. locks' = {} /\ foreground' = {} /\ Ordered(mailbox', generation) /\ record' \in 0..MaxStarts
    BY <1>0, <2>1, Finished DEF Typed
  <2>3. Ordered(mailbox', generation')
    BY <1>0, <2>1, <2>2 DEF Ordered, Messages
  <2>4. Typed'
    BY <1>0, <1>a, <2>1, <2>2 DEF Typed
  <2>5. ReadyInv'
    BY <2>1, <2>2 DEF ReadyInv
  <2> QED BY <2>3, <2>4, <2>5 DEF IInv
<1>5. ASSUME NEW on \in BOOLEAN, RequestActive(on) PROVE IInv'
  <2>1. ready /\ instance # 0 /\ UNCHANGED <<visible, calling, alive, starts>>
    BY <1>5 DEF RequestActive
  <2>2. CASE /\ locks' = IF on THEN locks \union {instance} ELSE locks \ {instance}
             /\ UNCHANGED <<fields, foreground, record, mailbox>>
    BY <1>0, <2>1, <2>2 DEF fields, IInv, Typed, ReadyInv
  <2>3. CASE FailLocked(instance, mailbox)
    BY <1>0, <2>1, <2>3, Failed DEF IInv, Typed, ReadyInv
  <2> QED BY <1>5, <2>2, <2>3 DEF RequestActive
<1>6. CASE OnStartCommand
  <2> DEFINE m == Head(mailbox)
             rest == Tail(mailbox)
  <2>1. Deliver("start") /\ m.kind = "start"
    BY <1>6 DEF OnStartCommand, Deliver
  <2>2. /\ m.obj \in 1..MaxStarts /\ Ordered(rest, generation)
        /\ m.gen = generation => NoStart(rest)
        /\ ~NoStart(mailbox)
    BY <2>1, Delivered
  <2>3. ~ready /\ foreground = {} /\ locks = {}
    BY <1>0, <2>2 DEF ReadyInv
  <2>4. alive' = m.obj /\ UNCHANGED <<visible, calling, starts>>
    BY <1>6 DEF OnStartCommand
  <2>5. CASE wanted /\ m.gen = generation
    <3>1. Foreground(m.obj, rest)
      BY <1>6, <2>5 DEF OnStartCommand
    <3>2. CASE FailLocked(m.obj, rest)
      <4>1. m.obj \in 0..MaxStarts /\ (ready => m.obj = instance)
        BY <1>a, <2>2, <2>3
      <4>2. /\ wanted' = FALSE /\ ready' = FALSE /\ failed' = TRUE
            /\ locks' = {} /\ foreground' = {}
            /\ Ordered(mailbox', generation')
            /\ record' \in 0..MaxStarts /\ generation' = generation
            /\ instance' \in 0..MaxStarts /\ latch' \in {"none", "up", "down"}
        BY <2>2, <3>2, <4>1, Failed
      <4>3. Typed'
        BY <1>0, <2>4, <4>1, <4>2 DEF Typed
      <4> QED BY <4>2, <4>3 DEF IInv, ReadyInv
    <3>3. CASE /\ foreground' = foreground \union {m.obj}
               /\ instance' = m.obj /\ ready' = TRUE /\ CountDown
               /\ mailbox' = rest
               /\ UNCHANGED <<wanted, failed, generation, record, locks>>
      <4>1. Typed'
        BY <1>0, <1>a, <2>2, <2>3, <2>4, <3>3 DEF Typed, CountDown
      <4>2. ReadyInv'
        BY <1>0, <2>2, <2>3, <2>4, <2>5, <3>3 DEF ReadyInv, NoStart
      <4>3. Ordered(mailbox', generation')
        BY <2>2, <3>3
      <4> QED BY <4>1, <4>2, <4>3 DEF IInv
    <3> QED BY <3>1, <3>2, <3>3 DEF Foreground
  <2>6. CASE ~(wanted /\ m.gen = generation)
    <3>1. /\ StopSelf(m.obj, rest) \/ (mailbox' = rest /\ record' = record)
          /\ UNCHANGED <<fields, locks, foreground>>
      BY <1>6, <2>6 DEF OnStartCommand
    <3>2. Ordered(mailbox', generation) /\ record' \in 0..MaxStarts
      <4>1. record \in 0..MaxStarts /\ m.obj \in 0..MaxStarts
        BY <1>0, <2>2 DEF Typed
      <4> QED BY <1>0, <2>2, <3>1, <4>1, StopSelfOrdered
    <3> QED BY <1>0, <2>2, <2>3, <2>4, <3>1, <3>2 DEF fields, IInv, Typed, ReadyInv
  <2> QED BY <2>5, <2>6
<1>7. CASE OnTimeout
  <2>1. FailLocked(alive, mailbox) /\ UNCHANGED <<visible, calling, alive, starts>>
    BY <1>7 DEF OnTimeout
  <2>2. alive \in 0..MaxStarts
    BY <1>0 DEF Typed
  <2> QED BY <1>0, <2>1, <2>2, Failed DEF IInv, Typed, ReadyInv
<1>8. CASE OnDestroy
  <2> DEFINE o == Head(mailbox).obj
  <2>1. /\ o \in 1..MaxStarts
        /\ Ordered(Tail(mailbox), generation)
        /\ NoStart(mailbox) => NoStart(Tail(mailbox))
    BY <1>8, Delivered DEF OnDestroy
  <2>2. /\ locks' = locks \ {o} /\ foreground' = foreground \ {o}
        /\ alive' = IF alive = o THEN 0 ELSE alive
        /\ mailbox' = Tail(mailbox)
        /\ UNCHANGED <<generation, visible, calling, record, starts>>
    BY <1>8 DEF OnDestroy
  <2>3. CASE instance = o
    <3>1. /\ instance' = 0 /\ ready' = FALSE
          /\ failed' = (failed \/ wanted) /\ wanted' = FALSE
          /\ latch' = IF wanted /\ latch = "up" THEN "down" ELSE latch
      BY <1>8, <2>3 DEF OnDestroy
    <3>2. Typed'
      BY <1>0, <1>a, <2>2, <3>1 DEF Typed
    <3>3. ReadyInv'
      BY <1>0, <2>2, <2>3, <3>1 DEF ReadyInv
    <3>4. Ordered(mailbox', generation')
      BY <2>1, <2>2
    <3> QED BY <3>2, <3>3, <3>4 DEF IInv
  <2>4. CASE instance # o
    <3>1. UNCHANGED <<instance, ready, failed, wanted, latch>>
      BY <1>8, <2>4 DEF OnDestroy
    <3>2. Typed'
      BY <1>0, <1>a, <2>2, <3>1 DEF Typed
    <3>3. ReadyInv'
      BY <1>0, <2>1, <2>2, <2>4, <3>1 DEF ReadyInv, NoStart
    <3>4. Ordered(mailbox', generation')
      BY <2>1, <2>2
    <3> QED BY <3>2, <3>3, <3>4 DEF IInv
  <2> QED BY <2>3, <2>4
<1>9. CASE SystemStops
  <2>1. StopSelf(alive, mailbox)
        /\ UNCHANGED <<fields, visible, calling, locks, foreground, alive, starts>>
    BY <1>9 DEF SystemStops
  <2>2. /\ Ordered(mailbox', generation) /\ record' \in 0..MaxStarts
        /\ NoStart(mailbox) => NoStart(mailbox')
    BY <1>0, <2>1, StopSelfOrdered DEF Typed
  <2>3. ReadyInv'
    BY <1>0, <2>1, <2>2 DEF fields, ReadyInv, NoStart
  <2> QED BY <1>0, <2>1, <2>2, <2>3 DEF fields, IInv, Typed
<1>10. CASE Visibility
  BY <1>0, <1>10 DEF Visibility, fields, system, IInv, Typed, ReadyInv
<1>11. CASE UNCHANGED vars
  BY <1>0, <1>11 DEF vars, fields, system, IInv, Typed, ReadyInv
<1> QED
  BY <1>1, <1>2, <1>3, <1>4, <1>5, <1>6, <1>7, <1>8, <1>9, <1>10, <1>11 DEF Next

(* ...and so it holds throughout. *)
LEMMA Inductive == Spec => []IInv
<1>1. Init => IInv
  <2> SUFFICES ASSUME Init PROVE IInv
    OBVIOUS
  <2>0. 0 \in 0..MaxStarts /\ 0 \in Nat
    BY ServiceAssumption
  <2>1. Typed
    BY <2>0, Zenon DEF Init, Typed
  <2>2. mailbox = <<>> /\ mailbox \in Seq(Messages) /\ DOMAIN mailbox = {}
    BY DEF Init
  <2> QED BY <2>1, <2>2 DEF Init, IInv, ReadyInv, Ordered
<1> QED BY <1>1, InductiveStep, PTL DEF Spec
-----------------------------------------------------------------------------
(* Theorems.                                                               *)

(* The companion's fields and the system's state keep their types. *)
THEOREM TypeCorrect == Spec => []TypeOK
<1>1. IInv => TypeOK
  BY TypedIsTypeOK DEF IInv, Ordered
<1> QED BY <1>1, Inductive, PTL

(* No wake lock and no notification outlives the instance that is ready,   *)
(* whatever the system does late, twice or by itself (finishLocked,        *)
(* failLocked and onDestroy release all that an object holds).             *)
THEOREM NothingIsLeftBehind == Spec => []NothingLeftBehind
<1>1. IInv => NothingLeftBehind
  BY DEF IInv, ReadyInv, NothingLeftBehind
<1> QED BY <1>1, Inductive, PTL

(* The service keeps the promise that the processing queue relies on:      *)
(* every step of it is a step of Protection or changes nothing of it.      *)
THEOREM ServiceImplementsProtection == Spec => ImplementsProtection
<1> DEFINE prot == IF ~wanted \/ failed THEN "off" ELSE IF ready THEN "on" ELSE "starting"
           held == locks # {}
<1>1. Init => Guard!Init
  BY DEF Init, Guard!Init
<1>2. ASSUME IInv, IInv', [Next]_vars PROVE [Guard!Next]_(Guard!vars)
  <2>1. Typed /\ ReadyInv /\ ReadyInv'
    BY <1>2 DEF IInv
  (* The three ways in which a step is seen through the mapping. *)
  <2>2. ASSUME ~wanted' PROVE Guard!Next
    <3>1. prot' = "off" /\ held' = FALSE
      BY <2>1, <2>2 DEF ReadyInv
    <3> QED BY <3>1 DEF Guard!Next, Guard!Stop
  <2>3. ASSUME UNCHANGED <<wanted, ready, failed, locks>> PROVE UNCHANGED Guard!vars
    BY <2>3 DEF Guard!vars
  <2>4. ASSUME ready, ready', NEW on \in BOOLEAN, held' = on PROVE Guard!Next
    <3>1. prot = "on" /\ prot' = "on"
      BY <2>1, <2>4 DEF ReadyInv
    <3>2. Guard!SetActive(on)
      BY <3>1, <2>4 DEF Guard!SetActive
    <3> QED BY <3>2 DEF Guard!Next
  <2>5. CASE RequestStop
    BY <2>2, <2>5 DEF RequestStop
  <2>6. CASE RequestStart
    <3>1. CASE ~wanted'
      BY <2>2, <3>1
    <3>2. CASE wanted'
      <4>1. ~ready /\ ~ready' /\ ~failed' /\ locks' = locks
        BY <2>1, <2>6, <3>2 DEF RequestStart, ReadyInv
      <4>2. prot \in {"off", "starting"} /\ prot' = "starting" /\ held' = held
        BY <3>2, <4>1
      <4>3. CASE prot = "off"
        BY <4>2, <4>3 DEF Guard!Start, Guard!Next
      <4>4. CASE prot = "starting"
        BY <4>2, <4>4 DEF Guard!vars
      <4> QED BY <4>2, <4>3, <4>4
    <3> QED BY <3>1, <3>2
  <2>7. CASE StartReturns
    BY <2>3, <2>7 DEF StartReturns, fields
  <2>8. CASE StartTimesOut
    BY <2>2, <2>8 DEF StartTimesOut
  <2>9. ASSUME NEW on \in BOOLEAN, RequestActive(on) PROVE Guard!Next
    <3>1. CASE ~wanted'
      BY <2>2, <3>1
    <3>2. CASE wanted'
      <4>1. /\ ready /\ instance # 0 /\ UNCHANGED <<ready, wanted, failed>>
            /\ locks' = IF on THEN locks \union {instance} ELSE locks \ {instance}
        BY <2>9, <3>2 DEF RequestActive, fields, FailLocked
      <4>2. held' = on
        BY <2>1, <4>1 DEF ReadyInv
      <4> QED BY <2>4, <4>1, <4>2
    <3> QED BY <3>1, <3>2
  <2>10. CASE OnStartCommand
    <3>1. CASE ~wanted'
      BY <2>2, <3>1
    <3>2. CASE UNCHANGED fields
      <4>1. locks' = locks
        BY <2>10, <3>2 DEF OnStartCommand, Foreground, FailLocked, fields
      <4> QED BY <2>3, <3>2, <4>1 DEF fields
    <3>3. CASE wanted' /\ ~UNCHANGED fields
      <4>1. Foreground(Head(mailbox).obj, Tail(mailbox))
        BY <2>10, <3>3 DEF OnStartCommand
      <4>2. ready' /\ UNCHANGED <<wanted, failed, locks>>
        BY <3>3, <4>1 DEF Foreground, FailLocked
      <4>3. ~ready
        <5>1. Deliver("start")
          BY <2>10 DEF OnStartCommand
        <5>2. ~NoStart(mailbox)
          BY <1>2, <5>1, Delivered
        <5> QED BY <2>1, <5>2 DEF ReadyInv
      <4>4. prot = "starting" /\ prot' = "on" /\ held' = held
        BY <2>1, <3>3, <4>2, <4>3 DEF ReadyInv
      <4>5. Guard!Acknowledge
        BY <4>4 DEF Guard!Acknowledge
      <4> QED BY <4>5 DEF Guard!Next
    <3> QED BY <3>1, <3>2, <3>3
  <2>11. CASE OnTimeout
    BY <2>2, <2>11 DEF OnTimeout, FailLocked
  <2>12. CASE OnDestroy
    <3>1. CASE instance = Head(mailbox).obj
      BY <2>2, <2>12, <3>1 DEF OnDestroy
    <3>2. CASE instance # Head(mailbox).obj
      <4>1. /\ UNCHANGED <<ready, failed, wanted>>
            /\ locks' = locks \ {Head(mailbox).obj}
        BY <2>12, <3>2 DEF OnDestroy
      <4>2. locks' = locks
        BY <2>1, <3>2, <4>1 DEF ReadyInv
      <4> QED BY <2>3, <4>1, <4>2
    <3> QED BY <3>1, <3>2
  <2>13. CASE SystemStops
    BY <2>3, <2>13 DEF SystemStops, fields
  <2>14. CASE Visibility
    BY <2>3, <2>14 DEF Visibility, fields
  <2>15. CASE UNCHANGED vars
    BY <2>3, <2>15 DEF vars, fields
  <2> QED
    BY <1>2, <2>5, <2>6, <2>7, <2>8, <2>9, <2>10, <2>11, <2>12, <2>13, <2>14, <2>15
    DEF Next
<1>3. IInv /\ IInv' /\ [Next]_vars => [Guard!Next]_(Guard!vars)
  BY <1>2
<1> QED BY <1>1, <1>3, Inductive, PTL DEF Spec, ImplementsProtection, Guard!Spec
=============================================================================
