------------------------ MODULE PowerService_proofs -------------------------
(***************************************************************************)
(* Proofs about the Android power service, for any sets of reasons and any *)
(* bounds: what was asked for last is what is protected once nothing is    *)
(* under way, the window follows the desired reasons, and a stale failure  *)
(* takes nothing from a newer request.                                     *)
(***************************************************************************)
EXTENDS PowerService, ListLemmas

(* The messages to the service and the posts to the window. *)
Work == [kind : {"create", "start", "apply", "destroy"}, of : Objects]
ScreenPosts == [kind : {"screen"}, of : Activities, rev : Nat]
Messages == Work \union ScreenPosts

Attempts == [mask : SUBSET Service, rev : Nat]

TypeInv ==
  /\ TypeOK
  /\ mailbox \in Seq(Messages)
  /\ \/ caller = Idle
     \/ caller \in [pc : {"read"}, prev : SUBSET Service, attempt : Attempts]
     \/ caller \in [pc : {"act"}, attempt : Attempts, existing : {0} \union Objects]
  /\ \/ main = Idle \/ main = [pc |-> "destroyed"]
     \/ main \in [pc : {"apply"}, of : Objects, attempt : Attempts]
     \/ main \in [pc : {"shown"}, of : Activities, rev : Nat, mask : SUBSET Screen]

-----------------------------------------------------------------------------
(* Types.                                                                  *)

(* The work in a mailbox that a step leaves, and that it adds to.          *)
Keeps(b, t) ==
  /\ t \in Seq(Messages) /\ Range(b) \subseteq Range(t)
  /\ \A m \in Work : m \in Range(t) <=> m \in Range(b)
  /\ \A m, n \in Work : Precedes(t, m, n) => Precedes(b, m, n)

Adds(b, t, e) ==
  /\ t \in Seq(Messages) /\ Range(b) \subseteq Range(t)
  /\ \A m \in Work : m \in Range(t) <=> m \in Range(b) \/ m = e
  /\ \A m, n \in Work :
       Precedes(t, m, n) => Precedes(b, m, n) \/ (n = e /\ m \in Range(b))

(* An append adds its element, and a post to the window adds no work.      *)
LEMMA AppendAdds ==
  ASSUME NEW b \in Seq(Messages), NEW e \in Messages
  PROVE  /\ e \in Work => Adds(b, Append(b, e), e)
         /\ e \notin Work => Keeps(b, Append(b, e))
<1>1. /\ Append(b, e) \in Seq(Messages)
      /\ Range(Append(b, e)) = Range(b) \union {e}
  BY AppendList
<1>2. ASSUME NEW m, NEW n, Precedes(Append(b, e), m, n)
      PROVE  Precedes(b, m, n) \/ (n = e /\ m \in Range(b))
  BY <1>2, AppendBefore
<1> QED BY <1>1, <1>2 DEF Adds, Keeps

(* Posting the refresh of the window adds no work to the mailbox, and an  *)
(* activity that is there finds the refresh of the newest revision in it. *)
LEMMA PostKeeps ==
  ASSUME TypeOK, screenRevision' \in Nat, NEW b \in Seq(Messages)
  PROVE  /\ Keeps(b, PostScreen(b))
         /\ activity # 0 => ScreenPost(screenRevision') \in Range(PostScreen(b))
<1>1. CASE activity = 0
  BY <1>1 DEF PostScreen, Keeps
<1>2. CASE activity # 0
  <2>1. ScreenPost(screenRevision') \in Messages \ Work
    BY <1>2 DEF ScreenPost, ScreenPosts, Messages, Work, TypeOK
  <2>2. ScreenPost(screenRevision') \in Range(Append(b, ScreenPost(screenRevision')))
    BY <2>1, AppendList
  <2> QED BY <1>2, <2>1, <2>2, AppendAdds DEF PostScreen
<1> QED BY <1>1, <1>2

(* What keeps the work of a mailbox keeps the one message added to it. *)
LEMMA KeepsAdded ==
  ASSUME NEW b, NEW c, NEW t, NEW e, Adds(b, c, e), Keeps(c, t)
  PROVE  Adds(b, t, e)
  BY DEF Adds, Keeps

(* The messages of the platform to an object are work. *)
LEMMA MessageWork ==
  ASSUME NEW o \in Objects
  PROVE  {Message("create", o), Message("start", o), Message("apply", o),
          Message("destroy", o)} \subseteq Work
  BY DEF Message, Work

(* What a failure and a launch do to the state and to a mailbox b.         *)
Tidy ==
  /\ desired' \in SUBSET (Screen \union Service)
  /\ confirmed' \in SUBSET Service
  /\ lastFailure' \in {"none", "timeout", "control"}
  /\ revision' \in Nat /\ screenRevision' \in Nat

Still(b) == Keeps(b, mailbox') /\ UNCHANGED <<record, objects>>

Started(b) ==
  /\ record \in Objects /\ UNCHANGED <<record, objects>>
  /\ Adds(b, mailbox', Message("start", record))

Launched(b) ==
  /\ record = 0 /\ record' = objects + 1 /\ objects' = objects + 1
  /\ record' \in Objects
  /\ \E c \in Seq(Messages) : /\ Adds(b, c, Message("create", record'))
                            /\ Adds(c, mailbox', Message("start", record'))

(* The window is as it was, or a post to it is under way. *)
Calm ==
  \/ UNCHANGED <<desired, screenRevision>>
  \/ activity # 0 => ScreenPost(screenRevision') \in Range(mailbox')

(* A recorded failure leaves the work of the mailbox as it is. *)
LEMMA FailureBox ==
  ASSUME TypeInv, NEW a, NEW c \in SUBSET Service, NEW b \in Seq(Messages),
         RecordFailure(a, c, b)
  PROVE  Tidy /\ Keeps(b, mailbox') /\ Calm
<1>1. CASE a = DesiredServiceState
  <2>1. screenRevision' \in Nat /\ revision' \in Nat
    BY <1>1 DEF RecordFailure, Transition, TypeInv, TypeOK
  <2>2. Keeps(b, mailbox') /\ Calm
    BY <1>1, <2>1, PostKeeps DEF RecordFailure, Transition, TypeInv, Calm
  <2> QED BY <1>1, <2>1, <2>2 DEF RecordFailure, Transition, TypeInv, TypeOK, Tidy
<1>2. CASE a # DesiredServiceState
  BY <1>2 DEF RecordFailure, TypeInv, TypeOK, Tidy, Keeps, Calm
<1> QED BY <1>1, <1>2

(* A launch posts to the service, or records a failure and posts no work. *)
LEMMA LaunchBox ==
  ASSUME TypeInv, NEW a, NEW b \in Seq(Messages), Launch(a, b)
  PROVE  /\ Tidy /\ Calm
         /\ \/ (Started(b) \/ Launched(b)) /\ UNCHANGED <<desired, confirmed, revision>>
            \/ Still(b) /\ RecordFailure(a, confirmed, b)
<1>1. CASE RecordFailure(a, confirmed, b) /\ UNCHANGED <<record, objects>>
  <2>1. confirmed \in SUBSET Service
    BY DEF TypeInv, TypeOK
  <2> QED BY <1>1, <2>1, FailureBox DEF Still
<1>2. CASE ~(RecordFailure(a, confirmed, b) /\ UNCHANGED <<record, objects>>)
  <2> DEFINE o == IF record = 0 THEN objects + 1 ELSE record
             news == IF record = 0 THEN <<Message("create", o)>> ELSE <<>>
  <2>1. /\ o \in Objects /\ record' = o
        /\ objects' = IF record = 0 THEN objects + 1 ELSE objects
        /\ mailbox' = b \o news \o <<Message("start", o)>>
        /\ UNCHANGED <<desired, revision, screenRevision, confirmed, lastFailure>>
    BY <1>2 DEF Launch
  <2>2. Message("start", o) \in Work /\ Message("create", o) \in Work
    BY <2>1, MessageWork
  <2>3. Tidy /\ Calm
    BY <2>1 DEF Tidy, TypeInv, TypeOK, Calm
  <2>4. CASE record = 0
    <3> DEFINE c == Append(b, Message("create", o))
    <3>1. /\ Message("start", o) \in Messages /\ Message("create", o) \in Messages
      BY <2>2 DEF Messages
    <3>2. c \in Seq(Messages) /\ c = b \o news
      BY <2>4, <3>1, AppendIsConcat
    <3>3. mailbox' = Append(c, Message("start", o))
      <4> HIDE DEF c
      <4>1. mailbox' = c \o <<Message("start", o)>>
        BY <2>1, <3>2
      <4> HIDE DEF o
      <4> QED BY <3>1, <3>2, <4>1, AppendIsConcat
    <3>4. Adds(b, c, Message("create", o)) /\ Adds(c, mailbox', Message("start", o))
      BY <2>2, <3>1, <3>2, <3>3, AppendAdds
    <3> HIDE DEF c
    <3>5. Launched(b)
      BY <2>1, <2>4, <3>2, <3>4 DEF Launched
    <3> QED BY <2>1, <2>3, <3>5
  <2>5. CASE record # 0
    <3>1. /\ Message("start", o) \in Messages
      BY <2>2 DEF Messages
    <3>2. b \o news = b
      BY <2>5, ConcatEmptySeq
    <3>3. mailbox' = Append(b, Message("start", o))
      BY <2>1, <3>1, <3>2, AppendIsConcat
    <3>4. Adds(b, mailbox', Message("start", o)) /\ o = record
      BY <2>2, <2>5, <3>1, <3>3, AppendAdds
    <3> QED BY <2>1, <2>3, <2>5, <3>4 DEF Started
  <2> QED BY <2>4, <2>5
<1> QED BY <1>1, <1>2

(* Every step keeps the types. *)
LEMMA TypeStep == TypeInv /\ [Next]_vars => TypeInv'
<1> DEFINE Callers == {Idle}
               \union [pc : {"read"}, prev : SUBSET Service, attempt : Attempts]
               \union [pc : {"act"}, attempt : Attempts, existing : {0} \union Objects]
           Mains == {Idle, [pc |-> "destroyed"]}
               \union [pc : {"apply"}, of : Objects, attempt : Attempts]
               \union [pc : {"shown"}, of : Activities, rev : Nat, mask : SUBSET Screen]
<1> SUFFICES ASSUME TypeInv, [Next]_vars PROVE TypeInv'
  OBVIOUS
<1>0. TypeOK /\ mailbox \in Seq(Messages) /\ caller \in Callers /\ main \in Mains
  BY DEF TypeInv
<1>t. ASSUME TypeOK', mailbox' \in Seq(Messages), caller' \in Callers, main' \in Mains
      PROVE  TypeInv'
  BY <1>t DEF TypeInv
<1>p. /\ \A x \in Callers : x.pc \in {"idle", "read", "act"}
      /\ \A x \in Mains : x.pc \in {"idle", "apply", "destroyed", "shown"}
      /\ Idle \in Callers /\ Idle \in Mains /\ [pc |-> "destroyed"] \in Mains
  BY DEF Idle
<1>d. DesiredServiceState \in Attempts
  BY <1>0 DEF DesiredServiceState, Attempt, Attempts, TypeOK
<1>r. caller.pc = "read" =>
        caller \in [pc : {"read"}, prev : SUBSET Service, attempt : Attempts]
  BY <1>0 DEF Idle
<1>a. caller.pc = "act" =>
        caller \in [pc : {"act"}, attempt : Attempts, existing : {0} \union Objects]
  BY <1>0 DEF Idle
<1>m. main.pc = "apply" => main \in [pc : {"apply"}, of : Objects, attempt : Attempts]
  BY <1>0 DEF Idle
<1>s. main.pc = "shown" =>
        main \in [pc : {"shown"}, of : Activities, rev : Nat, mask : SUBSET Screen]
  BY <1>0 DEF Idle
<1>h. mailbox # <<>> => Head(mailbox) \in Messages /\ Tail(mailbox) \in Seq(Messages)
  BY <1>0
<1>k. \A k \in {"create", "start", "apply", "destroy"} :
        Deliver(k) => mailbox # <<>> /\ Head(mailbox) \in Work
  BY <1>h DEF Deliver, Messages, Work, ScreenPosts
<1>o. \A o \in Objects : /\ Message("apply", o) \in Messages
                         /\ Message("destroy", o) \in Messages
  BY MessageWork DEF Messages
<1> HIDE DEF Callers, Mains
<1>1. ASSUME NEW R \in Requests, RequestBegin(R) PROVE TypeInv'
  <2>1. R \in SUBSET (Screen \union Service)
    BY PowerAssumption
  <2>2. screenRevision' \in Nat /\ revision' \in Nat /\ desired' = R
    BY <1>1, <1>0 DEF RequestBegin, Transition, TypeOK
  <2>3. mailbox' \in Seq(Messages)
    BY <1>1, <1>0, <2>2, PostKeeps DEF RequestBegin, Transition, Keeps
  <2>4. caller' \in Callers
    BY <1>1, <2>1, <2>2 DEF RequestBegin, Attempt, Attempts, Callers
  <2>5. TypeOK'
    BY <1>1, <1>0, <1>p, <2>1, <2>2, <2>4 DEF RequestBegin, TypeOK, service, window
  <2> QED BY <1>1, <1>0, <1>t, <2>3, <2>4, <2>5 DEF RequestBegin
<1>2. ASSUME RequestRead PROVE TypeInv'
  <2>1. caller' \in Callers
    BY <1>2, <1>0, <1>r DEF RequestRead, TypeOK, Callers
  <2>2. lastFailure' \in {"none", "timeout", "control"}
    BY <1>2, <1>0 DEF RequestRead, TypeOK
  <2>3. TypeOK'
    BY <1>2, <1>0, <1>p, <2>1, <2>2 DEF RequestRead, TypeOK, service, window, system
  <2> QED BY <1>2, <1>0, <1>t, <2>1, <2>3 DEF RequestRead, system
<1>3. ASSUME RequestAct PROVE TypeInv'
  <2>1. Tidy /\ mailbox' \in Seq(Messages) /\ {record', objects'} \subseteq {0} \union Objects
    <3>1. CASE caller.existing # 0 /\ mailbox' = Append(mailbox, Message("apply", caller.existing))
               /\ UNCHANGED <<desired, confirmed, lastFailure, revision, screenRevision,
                             record, objects>>
      <4>1. caller.existing \in Objects
        BY <1>3, <1>a, <3>1 DEF RequestAct
      <4> QED BY <1>0, <1>o, <3>1, <4>1 DEF Tidy, TypeOK
    <3>2. CASE /\ confirmed' = {}
               /\ UNCHANGED <<desired, lastFailure, revision, screenRevision, system>>
      BY <1>0, <3>2 DEF Tidy, TypeOK, system
    <3>3. CASE Launch(caller.attempt, mailbox)
      BY <1>0, <3>3, LaunchBox DEF Started, Launched, Still, Adds, Keeps, TypeOK
    <3> QED BY <1>3, <3>1, <3>2, <3>3 DEF RequestAct
  <2>2. TypeOK'
    BY <1>3, <1>0, <1>p, <2>1 DEF RequestAct, TypeOK, service, window, Tidy, Idle
  <2> QED BY <1>3, <1>0, <1>t, <1>p, <2>1, <2>2 DEF RequestAct
<1>4. ASSUME OnCreate PROVE TypeInv'
  <2>1. Head(mailbox).of \in Objects
    BY <1>4, <1>k DEF OnCreate, Work
  <2>2. TypeOK'
    BY <1>4, <1>0, <2>1 DEF OnCreate, TypeOK, service, window, companion
  <2>3. mailbox' \in Seq(Messages)
    BY <1>4, <1>h DEF OnCreate, Deliver
  <2> QED BY <1>4, <1>0, <1>t, <2>2, <2>3 DEF OnCreate
<1>5. ASSUME ApplyRead PROVE TypeInv'
  <2>1. Head(mailbox).of \in Objects
    BY <1>5, <1>k DEF ApplyRead, Work
  <2>2. main' \in Mains
    BY <1>5, <2>1, <1>d DEF ApplyRead, Mains
  <2>3. TypeOK'
    BY <1>5, <1>0, <1>p, <2>2 DEF ApplyRead, TypeOK, service, window, companion
  <2>4. mailbox' \in Seq(Messages)
    BY <1>5, <1>h DEF ApplyRead, Deliver
  <2> QED BY <1>5, <1>0, <1>t, <2>2, <2>3, <2>4 DEF ApplyRead
<1>6. ASSUME ApplyWrite PROVE TypeInv'
  <2> DEFINE o == main.of  R == main.attempt.mask
  <2>1. o \in Objects /\ R \in SUBSET Service
    BY <1>6, <1>m DEF ApplyWrite, Attempts
  <2> HIDE DEF o, R
  <2>2. /\ Tidy /\ mailbox' \in Seq(Messages) /\ record' \in {0} \union Objects
        /\ mask' \in [Objects -> SUBSET Service]
        /\ locks' \subseteq Objects /\ foreground' \subseteq Objects
    <3>1. CASE /\ mask' = [mask EXCEPT ![o] = R] /\ confirmed' = R
               /\ HoldWakeLock(o, R)
               /\ IF R = {}
                  THEN foreground' = foreground \ {o} /\ StopSelf(o, mailbox)
                  ELSE /\ foreground' = foreground \union ({o} \intersect {record})
                       /\ UNCHANGED <<mailbox, record>>
               /\ UNCHANGED <<desired, revision, screenRevision, lastFailure>>
      <4>1. mailbox' \in Seq(Messages) /\ record' \in {0} \union Objects
            /\ foreground' \subseteq Objects
        <5>1. CASE R = {} /\ record = o
          <6>1. record' = 0 /\ mailbox' = Append(mailbox, Message("destroy", o))
            BY <3>1, <5>1 DEF StopSelf
          <6>2. Message("destroy", o) \in Messages
            BY <1>o, <2>1
          <6>3. foreground' = foreground \ {o}
            BY <3>1, <5>1
          <6> QED BY <1>0, <6>1, <6>2, <6>3 DEF TypeOK
        <5>2. CASE ~(R = {} /\ record = o)
          <6>1. UNCHANGED <<mailbox, record>>
            BY <3>1, <5>2 DEF StopSelf
          <6>2. foreground' \subseteq foreground \union {o}
            BY <3>1
          <6> QED BY <1>0, <2>1, <6>1, <6>2 DEF TypeOK
        <5> QED BY <5>1, <5>2
      <4>2. locks' \subseteq Objects
        BY <1>0, <2>1, <3>1 DEF HoldWakeLock, TypeOK
      <4> QED BY <1>0, <2>1, <3>1, <4>1, <4>2 DEF Tidy, TypeOK
    <3>2. CASE /\ locks' = locks \ {o} /\ mask' = [mask EXCEPT ![o] = {}]
               /\ foreground' = foreground \ {o} /\ record' = 0
               /\ RecordFailure(main.attempt, R, Append(mailbox, Message("destroy", o)))
      <4>1. Append(mailbox, Message("destroy", o)) \in Seq(Messages)
        BY <1>0, <1>o, <2>1
      <4>2. Tidy /\ mailbox' \in Seq(Messages)
        BY <2>1, <3>2, <4>1, FailureBox DEF Keeps
      <4> QED BY <1>0, <3>2, <4>2 DEF TypeOK
    <3> QED BY <1>6, <3>1, <3>2 DEF ApplyWrite, o, R
  <2>3. TypeOK'
    BY <1>6, <1>0, <1>p, <2>2 DEF ApplyWrite, TypeOK, window, Tidy, Idle
  <2> QED BY <1>6, <1>0, <1>t, <1>p, <2>2, <2>3 DEF ApplyWrite
<1>7. ASSUME OnDestroy PROVE TypeInv'
  <2>1. Head(mailbox).of \in Objects
    BY <1>7, <1>k DEF OnDestroy, Work
  <2>2. TypeOK'
    BY <1>7, <1>0, <1>p, <2>1 DEF OnDestroy, TypeOK, window
  <2>3. mailbox' \in Seq(Messages)
    BY <1>7, <1>h DEF OnDestroy, Deliver
  <2> QED BY <1>7, <1>0, <1>t, <1>p, <2>2, <2>3 DEF OnDestroy
<1>8. ASSUME Relaunch PROVE TypeInv'
  <2>1. Tidy /\ mailbox' \in Seq(Messages) /\ {record', objects'} \subseteq {0} \union Objects
    <3>1. CASE UNCHANGED <<desired, confirmed, lastFailure, revision, screenRevision, system>>
      BY <1>0, <3>1 DEF Tidy, TypeOK, system
    <3>2. CASE Launch(DesiredServiceState, mailbox)
      BY <1>0, <3>2, LaunchBox DEF Started, Launched, Still, Adds, Keeps, TypeOK
    <3> QED BY <1>8, <3>1, <3>2 DEF Relaunch
  <2>2. TypeOK'
    BY <1>8, <1>0, <1>p, <2>1 DEF Relaunch, TypeOK, service, window, Tidy, Idle
  <2> QED BY <1>8, <1>0, <1>t, <1>p, <2>1, <2>2 DEF Relaunch
<1>9. ASSUME OnTimeout PROVE TypeInv'
  <2>1. PICK box \in {mailbox, Append(mailbox, Message("destroy", record))} :
           /\ Transition(desired \ {"transfer"}, box)
           /\ record' \in {0, record}
    BY <1>9 DEF OnTimeout
  <2>2. box \in Seq(Messages)
    BY <1>9, <1>0, <1>o, <2>1 DEF OnTimeout, TypeOK
  <2>3. screenRevision' \in Nat /\ revision' \in Nat /\ desired' \in SUBSET (Screen \union Service)
    BY <1>0, <2>1 DEF Transition, TypeOK
  <2>4. mailbox' \in Seq(Messages)
    BY <1>0, <2>1, <2>2, <2>3, PostKeeps DEF Transition, Keeps
  <2>5. TypeOK'
    BY <1>9, <1>0, <2>1, <2>3 DEF OnTimeout, TypeOK, window
  <2> QED BY <1>9, <1>0, <1>t, <2>4, <2>5 DEF OnTimeout
<1>10. ASSUME AttachActivity PROVE TypeInv'
  <2>1. activities' \in Activities /\ screenRevision' \in Nat
    BY <1>10, <1>0, PowerAssumption DEF AttachActivity, TypeOK, Activities
  <2>2. [kind |-> "screen", of |-> activities', rev |-> screenRevision'] \in Messages
    BY <2>1 DEF Messages, ScreenPosts
  <2>3. mailbox' \in Seq(Messages)
    BY <1>10, <1>0, <2>2 DEF AttachActivity
  <2>4. TypeOK'
    BY <1>10, <1>0, <2>1 DEF AttachActivity, TypeOK, service
  <2> QED BY <1>10, <1>0, <1>t, <2>3, <2>4 DEF AttachActivity
<1>11. ASSUME DetachActivity PROVE TypeInv'
  <2>1. TypeOK'
    BY <1>11, <1>0 DEF DetachActivity, TypeOK, service, system
  <2> QED BY <1>11, <1>0, <1>t, <2>1 DEF DetachActivity, system
<1>12. ASSUME Show PROVE TypeInv'
  <2>1. mailbox' \in Seq(Messages)
    BY <1>12, <1>h DEF Show, Deliver
  <2>2. Head(mailbox) \in ScreenPosts
    BY <1>12, <1>h DEF Show, Deliver, Messages, Work, ScreenPosts
  <2>3. main' \in Mains /\ keepScreenOn' \subseteq Activities
    <3>1. desired \intersect Screen \in SUBSET Screen
      OBVIOUS
    <3>2. CASE UNCHANGED <<keepScreenOn, main>>
      BY <1>0, <3>2 DEF TypeOK
    <3>3. CASE ~UNCHANGED <<keepScreenOn, main>>
      <4>1. /\ main' = [pc |-> "shown", of |-> Head(mailbox).of, rev |-> Head(mailbox).rev,
                        mask |-> desired \intersect Screen]
            /\ keepScreenOn' \subseteq keepScreenOn \union {Head(mailbox).of}
        BY <1>12, <3>3 DEF Show
      <4> QED BY <1>0, <2>2, <3>1, <4>1 DEF ScreenPosts, Mains, TypeOK
    <3> QED BY <3>2, <3>3
  <2>4. TypeOK'
    BY <1>12, <1>0, <1>p, <2>3 DEF Show, TypeOK, service, companion
  <2> QED BY <1>12, <1>0, <1>t, <2>1, <2>3, <2>4 DEF Show
<1>13. ASSUME ConfirmScreenProtection PROVE TypeInv'
  <2>1. shown' \subseteq Screen
    BY <1>13, <1>0, <1>s DEF ConfirmScreenProtection, TypeOK
  <2>2. TypeOK'
    BY <1>13, <1>0, <1>p, <2>1 DEF ConfirmScreenProtection, TypeOK, service, system, window, Idle
  <2> QED BY <1>13, <1>0, <1>t, <1>p, <2>2 DEF ConfirmScreenProtection, system
<1>14. CASE UNCHANGED vars
  <2>1. TypeOK'
    BY <1>0, <1>14 DEF vars, companion, service, system, window, TypeOK
  <2> QED BY <1>0, <1>t, <1>14, <2>1 DEF vars, system
<1> QED BY <1>1, <1>2, <1>3, <1>4, <1>5, <1>6, <1>7, <1>8, <1>9, <1>10, <1>11, <1>12,
           <1>13, <1>14 DEF Next

-----------------------------------------------------------------------------
(* The window.                                                             *)

(* While an activity is attached, a post of the current revision is under  *)
(* way to its window, or it was shown and is to be confirmed, or it is     *)
(* confirmed.                                                              *)
FlagFor(R) == activity \in keepScreenOn <=> R # {}

ScreenInv ==
  activity # 0 =>
    \/ ScreenPost(screenRevision) \in Range(mailbox)
    \/ /\ main.pc = "shown" /\ main.of = activity /\ main.rev = screenRevision
       /\ main.mask = desired \intersect Screen /\ FlagFor(main.mask)
    \/ shown = desired \intersect Screen /\ FlagFor(shown)

(* What a step that is not of the window leaves of it. *)
WindowKept ==
  /\ UNCHANGED <<shown, activity, keepScreenOn>>
  /\ main.pc = "shown" => main' = main
  /\ \/ /\ UNCHANGED <<desired, screenRevision>>
        /\ \A m \in ScreenPosts : m \in Range(mailbox) => m \in Range(mailbox')
     \/ activity # 0 => ScreenPost(screenRevision') \in Range(mailbox')

(* A step that does not touch the window, and posts a refresh when the *)
(* reasons change, keeps the promise about it.                         *)
LEMMA KeptScreen ==
  ASSUME TypeInv, ScreenInv, WindowKept PROVE ScreenInv'
<1>1. CASE activity # 0 => ScreenPost(screenRevision') \in Range(mailbox')
  BY <1>1 DEF ScreenInv, WindowKept, ScreenPost
<1>2. CASE /\ UNCHANGED <<desired, screenRevision>>
           /\ \A m \in ScreenPosts : m \in Range(mailbox) => m \in Range(mailbox')
  <2>1. CASE activity = 0
    BY <2>1 DEF ScreenInv, WindowKept
  <2>2. CASE activity # 0
    <3>1. ScreenPost(screenRevision) \in ScreenPosts /\ UNCHANGED ScreenPost(screenRevision)
      BY <1>2, <2>2 DEF ScreenPost, ScreenPosts, TypeInv, TypeOK, WindowKept
    <3> QED BY <1>2, <2>2, <3>1 DEF ScreenInv, WindowKept, FlagFor
  <2> QED BY <2>1, <2>2
<1> QED BY <1>1, <1>2 DEF WindowKept

(* Every step keeps the promise about the window. *)
LEMMA ScreenStep == TypeInv /\ TypeInv' /\ ScreenInv /\ [Next]_vars => ScreenInv'
<1> SUFFICES ASSUME TypeInv, TypeInv', ScreenInv, [Next]_vars PROVE ScreenInv'
  OBVIOUS
<1>0. /\ TypeOK /\ mailbox \in Seq(Messages) /\ confirmed \in SUBSET Service
      /\ screenRevision' \in Nat
  BY DEF TypeInv, TypeOK
<1>g. ASSUME NEW b, NEW t, NEW e, Adds(b, t, e) \/ Keeps(b, t)
      PROVE  Range(b) \subseteq Range(t)
  BY <1>g DEF Adds, Keeps
<1>h. ASSUME mailbox # <<>>, mailbox' = Tail(mailbox)
      PROVE  \A m \in Range(mailbox) : m = Head(mailbox) \/ m \in Range(mailbox')
  BY <1>0, <1>h, TailList
<1>w. ASSUME NEW m \in Messages PROVE Range(Append(mailbox, m)) = Range(mailbox) \union {m}
  BY <1>0, <1>w, AppendList
<1>o. \A o \in Objects : /\ Message("apply", o) \in Messages
                         /\ Message("destroy", o) \in Messages
  BY MessageWork DEF Messages
<1>l. ASSUME NEW a, Launch(a, mailbox)
      PROVE  Calm /\ Range(mailbox) \subseteq Range(mailbox')
  <2>1. Calm /\ (Still(mailbox) \/ Started(mailbox) \/ Launched(mailbox))
    BY <1>0, <1>l, LaunchBox
  <2> QED BY <1>g, <2>1 DEF Still, Started, Launched
<1>1. ASSUME NEW R \in Requests, RequestBegin(R) PROVE WindowKept
  BY <1>0, <1>1, PostKeeps DEF RequestBegin, Transition, WindowKept, window
<1>2. ASSUME RequestRead PROVE WindowKept
  BY <1>2 DEF RequestRead, WindowKept, window, system
<1>3. ASSUME RequestAct PROVE WindowKept
  <2>1. CASE /\ caller.existing # 0
             /\ mailbox' = Append(mailbox, Message("apply", caller.existing))
             /\ UNCHANGED <<desired, screenRevision>>
    <3>1. caller.existing \in Objects
      BY <1>3, <2>1 DEF RequestAct, TypeInv, Idle
    <3> QED BY <1>3, <1>o, <1>w, <2>1, <3>1 DEF RequestAct, WindowKept, window
  <2>2. CASE UNCHANGED <<desired, screenRevision, mailbox>>
    BY <1>3, <2>2 DEF RequestAct, WindowKept, window
  <2>3. CASE Launch(caller.attempt, mailbox)
    BY <1>3, <1>l, <2>3 DEF RequestAct, WindowKept, window, Calm
  <2> QED BY <1>3, <2>1, <2>2, <2>3 DEF RequestAct, system
<1>4. ASSUME OnCreate \/ ApplyRead \/ OnDestroy PROVE WindowKept
  <2>1. mailbox # <<>> /\ mailbox' = Tail(mailbox) /\ Head(mailbox) \notin ScreenPosts
    BY <1>4 DEF OnCreate, ApplyRead, OnDestroy, Deliver, ScreenPosts
  <2> QED BY <1>4, <1>h, <2>1
          DEF OnCreate, ApplyRead, OnDestroy, Deliver, Idle, companion, window, WindowKept
<1>5. ASSUME ApplyWrite PROVE WindowKept
  <2>1. main.of \in Objects /\ main.attempt.mask \in SUBSET Service
    BY <1>5 DEF ApplyWrite, TypeInv, Attempts, Idle
  <2>2. CASE /\ UNCHANGED <<desired, screenRevision>>
             /\ mailbox' = mailbox \/ mailbox' = Append(mailbox, Message("destroy", main.of))
    BY <1>5, <1>o, <1>w, <2>1, <2>2 DEF ApplyWrite, WindowKept, window
  <2>3. CASE RecordFailure(main.attempt, main.attempt.mask,
                           Append(mailbox, Message("destroy", main.of)))
    <3>1. Append(mailbox, Message("destroy", main.of)) \in Seq(Messages)
      BY <1>0, <1>o, <2>1
    <3>2. Calm /\ Keeps(Append(mailbox, Message("destroy", main.of)), mailbox')
      BY <2>1, <2>3, <3>1, FailureBox
    <3>3. Range(mailbox) \subseteq Range(mailbox')
      <4>1. Range(mailbox) \subseteq Range(Append(mailbox, Message("destroy", main.of)))
        BY <1>o, <1>w, <2>1
      <4> QED BY <3>2, <4>1 DEF Keeps
    <3> QED BY <1>5, <3>2, <3>3 DEF ApplyWrite, WindowKept, window, Calm
  <2> QED BY <1>5, <2>2, <2>3 DEF ApplyWrite, StopSelf
<1>6. ASSUME Relaunch PROVE WindowKept
  BY <1>6, <1>l DEF Relaunch, WindowKept, window, system, Calm
<1>7. ASSUME OnTimeout PROVE WindowKept
  <2>1. PICK b \in {mailbox, Append(mailbox, Message("destroy", record))} :
           Transition(desired \ {"transfer"}, b)
    BY <1>7 DEF OnTimeout
  <2>2. b \in Seq(Messages)
    BY <1>7, <1>0, <1>o, <2>1 DEF OnTimeout, TypeOK
  <2>3. activity # 0 => ScreenPost(screenRevision') \in Range(mailbox')
    BY <1>0, <2>1, <2>2, PostKeeps DEF Transition
  <2> QED BY <1>7, <2>3 DEF OnTimeout, WindowKept, window
<1>8. ASSUME UNCHANGED vars PROVE WindowKept
  BY <1>8 DEF vars, companion, system, window, WindowKept
<1>9. ASSUME AttachActivity PROVE ScreenInv'
  <2>1. activities' \in Activities
    BY <1>9 DEF AttachActivity, TypeInv, TypeOK, Activities
  <2>2. [kind |-> "screen", of |-> activities', rev |-> screenRevision'] \in Messages
    BY <1>0, <2>1 DEF Messages, ScreenPosts
  <2>3. ScreenPost(screenRevision)' \in Range(mailbox')
    BY <1>9, <1>w, <2>2 DEF AttachActivity, ScreenPost
  <2> QED BY <2>3 DEF ScreenInv
<1>10. ASSUME DetachActivity PROVE ScreenInv'
  BY <1>10 DEF DetachActivity, ScreenInv
<1>11. ASSUME Show PROVE ScreenInv'
  <2> DEFINE m == Head(mailbox)
  <2>1. mailbox # <<>> /\ mailbox' = Tail(mailbox)
    BY <1>11 DEF Show, Deliver
  <2>2. CASE m.of = activity /\ m.rev = screenRevision
    <3>1. /\ main' = [pc |-> "shown", of |-> m.of, rev |-> m.rev,
                      mask |-> desired \intersect Screen]
          /\ activity \in keepScreenOn' <=> desired \intersect Screen # {}
      BY <1>11, <2>2 DEF Show
    <3> QED BY <1>11, <2>2, <3>1 DEF Show, ScreenInv, FlagFor, companion
  <2>3. CASE ~(m.of = activity /\ m.rev = screenRevision)
    <3>1. ScreenPost(screenRevision) # m
      BY <2>3 DEF ScreenPost
    <3>2. ScreenPost(screenRevision) \in Range(mailbox) =>
            ScreenPost(screenRevision) \in Range(mailbox')
      BY <1>h, <2>1, <3>1
    <3>3. main.pc # "shown" /\ UNCHANGED <<keepScreenOn, main, activity, companion>>
      BY <1>11, <2>3 DEF Show, Deliver, Idle
    <3>4. UNCHANGED <<desired, shown, screenRevision>> /\ UNCHANGED ScreenPost(screenRevision)
      BY <3>3 DEF companion, ScreenPost
    <3> QED BY <3>2, <3>3, <3>4 DEF ScreenInv, FlagFor
  <2> QED BY <2>2, <2>3
<1>12. ASSUME ConfirmScreenProtection PROVE ScreenInv'
  BY <1>12 DEF ConfirmScreenProtection, ScreenInv, FlagFor, ScreenPost, system, window
<1> QED BY <1>1, <1>2, <1>3, <1>4, <1>5, <1>6, <1>7, <1>8, <1>9, <1>10, <1>11, <1>12,
           KeptScreen DEF Next

-----------------------------------------------------------------------------
(* The service record and its objects.                                     *)

Kinds == {"create", "start", "apply", "destroy"}
Pending(k, o) == Message(k, o) \in Range(mailbox)
Before(k, o, l, p) == Precedes(mailbox, Message(k, o), Message(l, p))

(* The system's record names the youngest object.  An object that the      *)
(* record names and that is not the instance is to be created and started; *)
(* an instance that the record does not name is to be destroyed.           *)
RecordInv ==
  /\ record \in {0, objects} /\ objects \in Nat /\ instance \in 0..objects
  /\ \A o \in Objects :
       /\ Pending("create", o) => o = record /\ o # instance
       /\ Pending("destroy", o) => o = instance /\ o # record
       /\ Pending("start", o) => o \in {instance, record}
  /\ instance # 0 /\ record # instance => Pending("destroy", instance)
  /\ record # 0 /\ record # instance =>
       Pending("create", record) /\ Pending("start", record)

(* An object is created, started and destroyed in this order, and one      *)
(* object is destroyed before the next one is created.                     *)
OrderInv ==
  \A o, p \in Objects :
    /\ ~Before("create", o, "create", p)
    /\ ~Before("destroy", o, "destroy", p)
    /\ ~Before("create", o, "destroy", p)
    /\ ~Before("start", o, "create", o)
    /\ ~Before("destroy", o, "start", o)

(* The system has called onCreate. *)
Created(o) == o <= objects /\ ~Pending("create", o)

(* What a step does to the record, its objects and the mailbox. *)
Stilled == Still(mailbox) /\ UNCHANGED instance
Restarted == Started(mailbox) /\ UNCHANGED instance
Recorded == Launched(mailbox) /\ UNCHANGED instance
Told == /\ \E o \in Objects : /\ Created(o)
                             /\ Adds(mailbox, mailbox', Message("apply", o))
        /\ UNCHANGED <<record, objects, instance>>
Stopped == /\ record # 0 /\ record = instance /\ record' = 0
           /\ Adds(mailbox, mailbox', Message("destroy", record))
           /\ UNCHANGED <<instance, objects>>
Taken ==
  /\ OnCreate \/ ApplyRead \/ OnDestroy \/ Show
  /\ mailbox # <<>> /\ mailbox' = Tail(mailbox)
  /\ LET m == Head(mailbox)
     IN instance' = IF m.kind = "create" THEN m.of
                    ELSE IF m.kind = "destroy" THEN 0 ELSE instance
  /\ UNCHANGED <<record, objects>>

(* What steps of each kind do to what is pending and to its order.         *)
LEMMA KeepsFacts ==
  ASSUME Keeps(mailbox, mailbox')
  PROVE  /\ \A k \in Kinds, o \in Objects : Pending(k, o)' <=> Pending(k, o)
         /\ \A k, l \in Kinds, o, p \in Objects : Before(k, o, l, p)' => Before(k, o, l, p)
<1>1. \A k \in Kinds, o \in Objects : Message(k, o) \in Work
  BY DEF Kinds, Message, Work
<1>2. \A k, o : Message(k, o)' = Message(k, o)
  BY DEF Message
<1> QED BY <1>1, <1>2 DEF Keeps, Pending, Before

(* What one message more says of which messages are there, and of their *)
(* order.                                                               *)
LEMMA AddsFacts ==
  ASSUME NEW l \in Kinds, NEW p \in Objects, NEW b, NEW t, Adds(b, t, Message(l, p))
  PROVE  /\ \A k \in Kinds, o \in Objects :
              Message(k, o) \in Range(t) <=> Message(k, o) \in Range(b) \/ (k = l /\ o = p)
         /\ \A k, j \in Kinds, o, q \in Objects :
              Precedes(t, Message(k, o), Message(j, q)) =>
                \/ Precedes(b, Message(k, o), Message(j, q))
                \/ j = l /\ q = p /\ Message(k, o) \in Range(b)
<1>1. \A k \in Kinds, o \in Objects : Message(k, o) \in Work
  BY DEF Kinds, Message, Work
<1>2. \A k \in Kinds, o \in Objects : Message(k, o) = Message(l, p) <=> k = l /\ o = p
  BY DEF Message
<1> QED BY <1>1, <1>2 DEF Adds

(* The same of the mailbox, in the words of Pending and Before. *)
LEMMA AddFacts ==
  ASSUME NEW l \in Kinds, NEW p \in Objects, Adds(mailbox, mailbox', Message(l, p))
  PROVE  /\ \A k \in Kinds, o \in Objects :
              Pending(k, o)' <=> Pending(k, o) \/ (k = l /\ o = p)
         /\ \A k, j \in Kinds, o, q \in Objects :
              Before(k, o, j, q)' =>
                \/ Before(k, o, j, q)
                \/ j = l /\ q = p /\ Pending(k, o)
<1>1. \A k, o : Message(k, o)' = Message(k, o)
  BY DEF Message
<1> QED BY <1>1, AddsFacts DEF Pending, Before

(* A launch adds the creation and the start of the record, in this order. *)
LEMMA LaunchFacts ==
  ASSUME Launched(mailbox)
  PROVE  /\ \A k \in Kinds, o \in Objects :
              Pending(k, o)' <=> Pending(k, o) \/ (k \in {"create", "start"} /\ o = record')
         /\ \A k, j \in Kinds, o, q \in Objects :
              Before(k, o, j, q)' =>
                \/ Before(k, o, j, q)
                \/ q = record' /\ j \in {"create", "start"} /\ Pending(k, o)
                \/ q = record' /\ j = "start" /\ k = "create"
<1>1. PICK c \in Seq(Messages) : /\ Adds(mailbox, c, Message("create", record'))
                                 /\ Adds(c, mailbox', Message("start", record'))
  BY DEF Launched
<1>2. record' \in Objects /\ "create" \in Kinds /\ "start" \in Kinds
  BY DEF Launched, Kinds
<1>3. \A k, o : Message(k, o)' = Message(k, o)
  BY DEF Message
<1>4. /\ \A k \in Kinds, o \in Objects :
           Message(k, o) \in Range(c) <=> Pending(k, o) \/ (k = "create" /\ o = record')
      /\ \A k, j \in Kinds, o, q \in Objects :
           Precedes(c, Message(k, o), Message(j, q)) =>
             Before(k, o, j, q) \/ (j = "create" /\ q = record' /\ Pending(k, o))
  BY <1>1, <1>2, AddsFacts DEF Pending, Before
<1>5. /\ \A k \in Kinds, o \in Objects :
           Pending(k, o)' <=> Message(k, o) \in Range(c) \/ (k = "start" /\ o = record')
      /\ \A k, j \in Kinds, o, q \in Objects :
           Before(k, o, j, q)' =>
             \/ Precedes(c, Message(k, o), Message(j, q))
             \/ j = "start" /\ q = record' /\ Message(k, o) \in Range(c)
  BY <1>1, <1>2, <1>3, AddsFacts DEF Pending, Before
<1> QED BY <1>4, <1>5

(* Taking the head loses this message only, and the head was before all. *)
LEMMA TakeFacts ==
  ASSUME TypeInv, mailbox # <<>>, mailbox' = Tail(mailbox)
  PROVE  /\ \A k \in Kinds, o \in Objects :
              Pending(k, o) <=> Pending(k, o)' \/ Head(mailbox) = Message(k, o)
         /\ \A k, j \in Kinds, o, q \in Objects :
              /\ Before(k, o, j, q)' => Before(k, o, j, q)
              /\ Head(mailbox) = Message(k, o) /\ Pending(j, q)' => Before(k, o, j, q)
<1>1. mailbox \in Seq(Messages)
  BY DEF TypeInv
<1>2. \A k, o : Message(k, o)' = Message(k, o)
  BY DEF Message
<1>3. Range(mailbox) = Range(mailbox') \union {Head(mailbox)}
  BY <1>1, TailList
<1>4. \A a, b : /\ Precedes(mailbox', a, b) => Precedes(mailbox, a, b)
                /\ b \in Range(mailbox') => Precedes(mailbox, Head(mailbox), b)
  BY <1>1, TailBefore
<1> QED BY <1>2, <1>3, <1>4 DEF Pending, Before

(* A step of one of the kinds above keeps the record and the order. *)
LEMMA RecordStep ==
  ASSUME TypeInv, TypeInv', RecordInv, OrderInv,
         Stilled \/ Restarted \/ Recorded \/ Told \/ Stopped \/ Taken \/ UNCHANGED vars
  PROVE  RecordInv' /\ OrderInv'
<1>0. /\ {"create", "start", "apply", "destroy"} = Kinds /\ 0 \notin Objects
      /\ {record, instance, objects} \subseteq {0} \union Objects
      /\ {record', instance', objects'} \subseteq {0} \union Objects
      /\ objects' \in Nat
  BY DEF Kinds, Objects, TypeInv, TypeOK
<1>k. "create" \in Kinds /\ "start" \in Kinds /\ "apply" \in Kinds /\ "destroy" \in Kinds
  BY <1>0
<1>1. CASE Stilled
  <2>1. Keeps(mailbox, mailbox') /\ UNCHANGED <<record, objects, instance>>
    BY <1>1 DEF Stilled, Still
  <2> QED BY <1>0, <1>k, <2>1, KeepsFacts DEF RecordInv, OrderInv
<1>2. CASE Restarted
  <2>1. /\ record \in Objects /\ UNCHANGED <<record, objects, instance>>
        /\ Adds(mailbox, mailbox', Message("start", record))
    BY <1>2 DEF Restarted, Started
  <2>2. /\ \A k \in Kinds, o \in Objects :
             Pending(k, o)' <=> Pending(k, o) \/ (k = "start" /\ o = record)
        /\ \A k, j \in Kinds, o, q \in Objects :
             Before(k, o, j, q)' =>
               \/ Before(k, o, j, q)
               \/ j = "start" /\ q = record /\ Pending(k, o)
    BY <1>k, <2>1, AddFacts
  <2>3. ~Pending("destroy", record)
    BY <2>1 DEF RecordInv
  <2>4. RecordInv'
    BY <1>0, <1>k, <2>1, <2>2 DEF RecordInv
  <2>5. OrderInv'
    BY <1>k, <2>2, <2>3 DEF OrderInv
  <2> QED BY <2>4, <2>5
<1>3. CASE Recorded
  <2>1. /\ record = 0 /\ record' = objects + 1 /\ objects' = objects + 1
        /\ record' \in Objects /\ UNCHANGED instance
    BY <1>3 DEF Recorded, Launched
  <2>2. /\ \A k \in Kinds, o \in Objects :
             Pending(k, o)' <=> Pending(k, o) \/ (k \in {"create", "start"} /\ o = record')
        /\ \A k, j \in Kinds, o, q \in Objects :
             Before(k, o, j, q)' =>
               \/ Before(k, o, j, q)
               \/ q = record' /\ j \in {"create", "start"} /\ Pending(k, o)
               \/ q = record' /\ j = "start" /\ k = "create"
    BY <1>3, LaunchFacts DEF Recorded
  <2>3. record' # 0 /\ record' # instance /\ instance \in 0..objects'
    BY <1>0, <2>1 DEF RecordInv
  <2>4. \A o \in Objects : ~Pending("create", o) /\ ~Pending("start", record')
                           /\ ~Pending("destroy", record')
    BY <1>0, <2>1, <2>3 DEF RecordInv
  <2>5. RecordInv'
    <3>1. \A o \in Objects :
            /\ Pending("create", o)' => o = record' /\ o # instance'
            /\ Pending("destroy", o)' => o = instance' /\ o # record'
            /\ Pending("start", o)' => o \in {instance', record'}
      BY <1>0, <1>k, <2>1, <2>2, <2>3, <2>4 DEF RecordInv
    <3>2. instance # 0 => Pending("destroy", instance)'
      BY <1>0, <1>k, <2>1, <2>2 DEF RecordInv
    <3>3. Pending("create", record)' /\ Pending("start", record)'
      BY <1>k, <2>1, <2>2
    <3>4. record' \in {0, objects'} /\ instance' \in 0..objects'
      BY <2>1, <2>3
    <3> QED BY <1>0, <2>1, <3>1, <3>2, <3>3, <3>4 DEF RecordInv
  <2>6. OrderInv'
    <3> SUFFICES ASSUME NEW o \in Objects, NEW p \in Objects
                 PROVE  /\ ~Before("create", o, "create", p)'
                        /\ ~Before("destroy", o, "destroy", p)'
                        /\ ~Before("create", o, "destroy", p)'
                        /\ ~Before("start", o, "create", o)'
                        /\ ~Before("destroy", o, "start", o)'
      BY DEF OrderInv
    <3> QED BY <1>k, <2>2, <2>4 DEF OrderInv
  <2> QED BY <2>5, <2>6
<1>4. CASE Told
  <2>1. PICK o \in Objects : Adds(mailbox, mailbox', Message("apply", o))
    BY <1>4 DEF Told
  <2>2. UNCHANGED <<record, objects, instance>>
    BY <1>4 DEF Told
  <2> QED BY <1>0, <1>k, <2>1, <2>2, AddFacts DEF RecordInv, OrderInv
<1>5. CASE Stopped
  <2>1. /\ record \in Objects /\ record = instance /\ record' = 0
        /\ UNCHANGED <<instance, objects>>
        /\ Adds(mailbox, mailbox', Message("destroy", record))
    BY <1>0, <1>5 DEF Stopped
  <2>2. /\ \A k \in Kinds, o \in Objects :
             Pending(k, o)' <=> Pending(k, o) \/ (k = "destroy" /\ o = record)
        /\ \A k, j \in Kinds, o, q \in Objects :
             Before(k, o, j, q)' =>
               \/ Before(k, o, j, q)
               \/ j = "destroy" /\ q = record /\ Pending(k, o)
    BY <1>k, <2>1, AddFacts
  <2>3. \A o \in Objects : ~Pending("create", o) /\ ~Pending("destroy", o)
    BY <2>1 DEF RecordInv
  <2>4. RecordInv'
    BY <1>0, <1>k, <2>1, <2>2, <2>3 DEF RecordInv
  <2>5. OrderInv'
    BY <1>k, <2>2, <2>3 DEF OrderInv
  <2> QED BY <2>4, <2>5
<1>6. CASE Taken
  <2> DEFINE m == Head(mailbox)
  <2>1. /\ mailbox # <<>> /\ mailbox' = Tail(mailbox) /\ UNCHANGED <<record, objects>>
        /\ instance' = IF m.kind = "create" THEN m.of
                       ELSE IF m.kind = "destroy" THEN 0 ELSE instance
    BY <1>6 DEF Taken
  <2>2. /\ \A k \in Kinds, o \in Objects :
             Pending(k, o) <=> Pending(k, o)' \/ m = Message(k, o)
        /\ \A k, j \in Kinds, o, q \in Objects :
             /\ Before(k, o, j, q)' => Before(k, o, j, q)
             /\ m = Message(k, o) /\ Pending(j, q)' => Before(k, o, j, q)
    BY <2>1, TakeFacts
  <2>3. m \in Messages
    BY <2>1 DEF TypeInv
  <2>4. OrderInv'
    BY <1>k, <2>2 DEF OrderInv
  <2>5. CASE m.kind = "create"
    <3>1. PICK o \in Objects : m = Message("create", o) /\ o = m.of
      BY <2>3, <2>5 DEF Messages, Work, ScreenPosts, Message
    <3>2. Pending("create", o) /\ instance' = o
      BY <1>k, <2>1, <2>2, <2>5, <3>1
    <3> HIDE DEF m
    <3>3. o = record /\ o # instance
      BY <3>1, <3>2 DEF RecordInv
    <3>4. \A p \in Objects : ~Pending("create", p)' /\ ~Pending("destroy", p)'
      BY <1>k, <2>2, <3>1 DEF OrderInv
    <3>5. \A p \in Objects : m # Message("destroy", p) /\ m # Message("start", p)
      BY <2>5, <3>1 DEF Message
    <3>6. instance = 0
      BY <1>0, <1>k, <2>2, <3>3, <3>4, <3>5 DEF RecordInv
    <3>7. \A p \in Objects : Pending("start", p)' => p = record
      BY <1>0, <1>k, <2>2, <3>6 DEF RecordInv
    <3>8. RecordInv'
      BY <1>0, <2>1, <3>1, <3>2, <3>3, <3>4, <3>7 DEF RecordInv
    <3> QED BY <2>4, <3>8
  <2>6. CASE m.kind = "destroy"
    <3>1. PICK o \in Objects : m = Message("destroy", o) /\ o = m.of
      BY <2>3, <2>6 DEF Messages, Work, ScreenPosts, Message
    <3>2. Pending("destroy", o) /\ instance' = 0
      BY <1>k, <2>1, <2>2, <2>6, <3>1
    <3> HIDE DEF m
    <3>3. o = instance /\ o # record
      BY <3>1, <3>2 DEF RecordInv
    <3>4. \A p \in Objects : ~Pending("destroy", p)' /\ ~Pending("start", o)'
      BY <1>k, <2>2, <3>1 DEF OrderInv
    <3>5. \A p \in Objects : m # Message("create", p) /\ m # Message("start", p)
      BY <2>6, <3>1 DEF Message
    <3>6. \A p \in Objects : /\ Pending("create", p)' <=> Pending("create", p)
                             /\ Pending("start", p)' <=> Pending("start", p)
      BY <1>k, <2>2, <3>5
    <3>7. \A p \in Objects : Pending("start", p)' => p = record
      BY <3>3, <3>4, <3>6 DEF RecordInv
    <3>8. RecordInv'
      BY <1>0, <2>1, <3>1, <3>2, <3>3, <3>4, <3>6, <3>7 DEF RecordInv
    <3> QED BY <2>4, <3>8
  <2>7. CASE m.kind \notin {"create", "destroy"}
    <3>1. \A p \in Objects : m # Message("create", p) /\ m # Message("destroy", p)
      BY <2>7 DEF Message
    <3>2. instance' = instance
      BY <2>1, <2>7
    <3>3. CASE \E p \in Objects : m = Message("start", p)
      <4>1. PICK p \in Objects : m = Message("start", p)
        BY <3>3
      <4> HIDE DEF m
      <4>2. ~Pending("create", p)'
        BY <1>k, <2>2, <4>1 DEF OrderInv
      <4>3. \A q \in Objects : Pending("start", q) /\ q # p => Pending("start", q)'
        BY <1>k, <2>2, <4>1 DEF Message
      <4>4. record # 0 /\ record # instance => record # p
        BY <1>0, <1>k, <2>2, <3>1, <4>2 DEF RecordInv
      <4> QED BY <1>0, <1>k, <2>1, <2>2, <2>4, <3>1, <3>2, <4>3, <4>4 DEF RecordInv
    <3>4. CASE \A p \in Objects : m # Message("start", p)
      <4> HIDE DEF m
      <4> QED BY <1>0, <1>k, <2>1, <2>2, <2>4, <3>1, <3>2, <3>4 DEF RecordInv
    <3> QED BY <3>3, <3>4
  <2> QED BY <2>5, <2>6, <2>7
<1>7. CASE UNCHANGED vars
  <2>1. Keeps(mailbox, mailbox') /\ UNCHANGED <<record, objects, instance>>
    BY <1>7 DEF vars, system, Keeps, TypeInv
  <2> QED BY <1>0, <1>k, <2>1, KeepsFacts DEF RecordInv, OrderInv
<1> QED BY <1>1, <1>2, <1>3, <1>4, <1>5, <1>6, <1>7

(* An object that reasons are to be applied to has been created; only the  *)
(* instance is in the foreground, and onDestroy clears it.                 *)
CreatedInv ==
  /\ \A o \in Objects : Pending("apply", o) => Created(o)
  /\ main.pc = "apply" => Created(main.of)
  /\ caller.pc = "act" /\ caller.existing # 0 => Created(caller.existing)

ForegroundInv ==
  /\ foreground \subseteq {instance}
  /\ main.pc = "destroyed" => instance = 0

ServiceInv == TypeInv /\ RecordInv /\ OrderInv /\ CreatedInv /\ ForegroundInv

(* The record of a created object names the instance. *)
LEMMA CreatedIsInstance ==
  ASSUME TypeInv, RecordInv, record # 0, Created(record) PROVE record = instance
  BY DEF RecordInv, Created

(* Every step is of one of the kinds above. *)
LEMMA StepKind ==
  ASSUME ServiceInv, TypeInv', [Next]_vars
  PROVE  Stilled \/ Restarted \/ Recorded \/ Told \/ Stopped \/ Taken \/ UNCHANGED vars
<1>0. /\ TypeInv /\ TypeOK /\ mailbox \in Seq(Messages) /\ mailbox' \in Seq(Messages)
      /\ screenRevision' \in Nat
  BY DEF ServiceInv, TypeInv, TypeOK
<1>k. Keeps(mailbox, mailbox)
  BY <1>0 DEF Keeps
<1>w. \A o \in Objects : /\ Message("apply", o) \in Work /\ Message("apply", o) \in Messages
                         /\ Message("destroy", o) \in Work /\ Message("destroy", o) \in Messages
  BY MessageWork DEF Messages
<1>l. ASSUME NEW a, Launch(a, mailbox), UNCHANGED instance
      PROVE  Stilled \/ Restarted \/ Recorded
  BY <1>0, <1>l, LaunchBox DEF Stilled, Restarted, Recorded
<1>1. ASSUME NEW R \in Requests, RequestBegin(R) PROVE Stilled
  BY <1>0, <1>1, PostKeeps DEF RequestBegin, Transition, Stilled, Still
<1>2. ASSUME RequestRead \/ DetachActivity \/ ConfirmScreenProtection PROVE Stilled
  BY <1>2, <1>k DEF RequestRead, DetachActivity, ConfirmScreenProtection, Stilled, Still, system
<1>3. ASSUME RequestAct PROVE Stilled \/ Restarted \/ Recorded \/ Told
  <2>1. CASE /\ caller.existing # 0
             /\ mailbox' = Append(mailbox, Message("apply", caller.existing))
             /\ UNCHANGED <<record, objects>>
    <3>1. caller.existing \in Objects
      BY <1>0, <1>3, <2>1 DEF RequestAct, TypeInv, Idle
    <3>2. Adds(mailbox, mailbox', Message("apply", caller.existing))
      BY <1>0, <1>w, <2>1, <3>1, AppendAdds
    <3>3. Created(caller.existing)
      BY <1>3, <2>1 DEF RequestAct, ServiceInv, CreatedInv
    <3> QED BY <1>3, <2>1, <3>1, <3>2, <3>3 DEF RequestAct, Told
  <2>2. CASE UNCHANGED system
    BY <1>3, <1>k, <2>2 DEF RequestAct, system, Stilled, Still
  <2>3. CASE Launch(caller.attempt, mailbox)
    BY <1>3, <1>l, <2>3 DEF RequestAct
  <2> QED BY <1>3, <2>1, <2>2, <2>3 DEF RequestAct
<1>4. ASSUME OnCreate \/ ApplyRead \/ OnDestroy \/ Show PROVE Taken
  BY <1>4 DEF OnCreate, ApplyRead, OnDestroy, Show, Deliver, Taken
<1>5. ASSUME ApplyWrite PROVE Stilled \/ Stopped
  <2> DEFINE o == main.of  R == main.attempt.mask
             told == Append(mailbox, Message("destroy", o))
  <2>1. o \in Objects /\ R \in SUBSET Service /\ Created(o) /\ UNCHANGED <<instance, objects>>
    BY <1>0, <1>5 DEF ApplyWrite, TypeInv, Attempts, Idle, ServiceInv, CreatedInv
  <2>2. told \in Seq(Messages) /\ Adds(mailbox, told, Message("destroy", o))
    BY <1>0, <1>w, <2>1, AppendAdds
  <2>3. CASE UNCHANGED <<mailbox, record>>
    BY <1>k, <2>1, <2>3 DEF Stilled, Still
  <2>4. CASE record = o /\ record' = 0 /\ mailbox' = told
    <3>1. record # 0 /\ record = instance
      BY <2>1, <2>4, CreatedIsInstance DEF ServiceInv, Objects
    <3> QED BY <2>1, <2>2, <2>4, <3>1 DEF Stopped
  <2>5. CASE record = o /\ record' = 0 /\ RecordFailure(main.attempt, R, told)
    <3>1. record # 0 /\ record = instance
      BY <2>1, <2>5, CreatedIsInstance DEF ServiceInv, Objects
    <3>2. Keeps(told, mailbox')
      <4> HIDE DEF told, R
      <4> QED BY <1>0, <2>1, <2>2, <2>5, FailureBox
    <3>3. Adds(mailbox, mailbox', Message("destroy", o))
      <4> HIDE DEF told, o
      <4> QED BY <2>2, <3>2, KeepsAdded
    <3> QED BY <2>1, <2>5, <3>1, <3>3 DEF Stopped
  <2> QED BY <1>5, <2>3, <2>4, <2>5 DEF ApplyWrite, StopSelf
<1>6. ASSUME Relaunch PROVE Stilled \/ Restarted \/ Recorded
  <2>1. CASE UNCHANGED system
    BY <1>6, <1>k, <2>1 DEF Relaunch, system, Stilled, Still
  <2>2. CASE Launch(DesiredServiceState, mailbox)
    BY <1>6, <1>l, <2>2 DEF Relaunch
  <2> QED BY <1>6, <2>1, <2>2 DEF Relaunch
<1>7. ASSUME OnTimeout PROVE Stilled \/ Stopped
  <2> DEFINE told == Append(mailbox, Message("destroy", record))
  <2>1. record \in Objects /\ record = instance
    BY <1>0, <1>7 DEF OnTimeout, ServiceInv, ForegroundInv, TypeOK
  <2>2. told \in Seq(Messages) /\ Adds(mailbox, told, Message("destroy", record))
    BY <1>0, <1>w, <2>1, AppendAdds
  <2>3. UNCHANGED <<instance, objects>>
    BY <1>7 DEF OnTimeout
  <2> HIDE DEF told
  <2>4. CASE Transition(desired \ {"transfer"}, mailbox) /\ record' = record
    <3>1. Keeps(mailbox, mailbox')
      BY <1>0, <2>4, PostKeeps DEF Transition
    <3> QED BY <2>3, <2>4, <3>1 DEF Stilled, Still
  <2>5. CASE Transition(desired \ {"transfer"}, told) /\ record' = 0
    <3>1. Keeps(told, mailbox')
      BY <1>0, <2>2, <2>5, PostKeeps DEF Transition
    <3>2. Adds(mailbox, mailbox', Message("destroy", record))
      BY <2>2, <3>1, KeepsAdded
    <3> QED BY <1>7, <2>1, <2>3, <2>5, <3>2 DEF OnTimeout, Stopped
  <2> QED BY <1>7, <2>4, <2>5 DEF OnTimeout, told
<1>8. ASSUME AttachActivity PROVE Stilled
  <2> DEFINE m == [kind |-> "screen", of |-> activities', rev |-> screenRevision']
  <2>1. activities' \in Activities
    BY <1>8, <1>0 DEF AttachActivity, TypeInv, TypeOK, Activities
  <2>2. m \in Messages /\ m \notin Work
    BY <1>0, <2>1 DEF Messages, ScreenPosts, Work
  <2>3. Keeps(mailbox, mailbox')
    BY <1>0, <1>8, <2>2, AppendAdds DEF AttachActivity
  <2> QED BY <1>8, <2>3 DEF AttachActivity, Stilled, Still
<1> QED BY <1>1, <1>2, <1>3, <1>4, <1>5, <1>6, <1>7, <1>8 DEF Next

(* A created object stays created. *)
LEMMA CreatedKept ==
  ASSUME ServiceInv, [Next]_vars, TypeInv', NEW o \in Objects, Created(o)
  PROVE  Created(o)'
<1>0. "create" \in Kinds /\ TypeInv /\ objects \in Nat /\ o \in Nat
  BY DEF Kinds, ServiceInv, RecordInv, Objects
<1>1. CASE Stilled \/ UNCHANGED vars
  <2>1. Keeps(mailbox, mailbox') /\ UNCHANGED objects
    BY <1>0, <1>1 DEF Stilled, Still, vars, system, Keeps, TypeInv
  <2> QED BY <1>0, <2>1, KeepsFacts DEF Created
<1>2. CASE Restarted
  <2>1. "start" \in Kinds /\ record \in Objects /\ Adds(mailbox, mailbox', Message("start", record))
        /\ UNCHANGED objects
    BY <1>2 DEF Restarted, Started, Kinds
  <2> QED BY <1>0, <2>1, AddFacts DEF Created
<1>3. CASE Recorded
  <2>1. Launched(mailbox) /\ objects' = objects + 1 /\ record' = objects + 1
    BY <1>3 DEF Recorded, Launched
  <2> QED BY <1>0, <2>1, LaunchFacts DEF Created
<1>4. CASE Told
  <2>1. PICK p \in Objects : Adds(mailbox, mailbox', Message("apply", p))
    BY <1>4 DEF Told
  <2>2. "apply" \in Kinds /\ UNCHANGED objects
    BY <1>4 DEF Kinds, Told
  <2> QED BY <1>0, <2>1, <2>2, AddFacts DEF Created
<1>5. CASE Stopped
  <2>1. /\ "destroy" \in Kinds /\ record \in Objects /\ UNCHANGED objects
        /\ Adds(mailbox, mailbox', Message("destroy", record))
    BY <1>0, <1>5 DEF Stopped, Kinds, TypeInv, TypeOK
  <2> QED BY <1>0, <2>1, AddFacts DEF Created
<1>6. CASE Taken
  <2>1. mailbox # <<>> /\ mailbox' = Tail(mailbox) /\ UNCHANGED objects
    BY <1>6 DEF Taken
  <2> QED BY <1>0, <2>1, TakeFacts DEF Created
<1> QED BY <1>0, <1>1, <1>2, <1>3, <1>4, <1>5, <1>6, StepKind

(* What a delivered message is about has been created or is created now.   *)
LEMMA CreatedStep ==
  ASSUME ServiceInv, [Next]_vars, TypeInv' PROVE CreatedInv'
<1>0. /\ TypeInv /\ RecordInv /\ OrderInv /\ CreatedInv
      /\ {"create", "start", "apply", "destroy"} = Kinds
      /\ "create" \in Kinds /\ "start" \in Kinds /\ "apply" \in Kinds /\ "destroy" \in Kinds
  BY DEF Kinds, ServiceInv
<1>k. \A o \in Objects : Created(o) => Created(o)'
  BY CreatedKept
<1>o. instance \in Objects => Created(instance)
  BY <1>0 DEF RecordInv, Created
<1>d. ASSUME Deliver("start") \/ Deliver("apply")
      PROVE  Head(mailbox).of \in Objects /\ Created(Head(mailbox).of)
  <2>1. PICK o \in Objects, k \in {"start", "apply"} :
           Head(mailbox) = Message(k, o) /\ o = Head(mailbox).of
    BY <1>0, <1>d DEF Deliver, TypeInv, Messages, Work, ScreenPosts, Message
  <2>2. mailbox # <<>>
    BY <1>d DEF Deliver
  <2>3. Pending(k, o)
    <3>1. Head(mailbox) \in Range(mailbox)
      BY <1>0, <2>2, TailList DEF TypeInv
    <3> QED BY <2>1, <3>1 DEF Pending
  <2>4. CASE k = "apply"
    BY <1>0, <2>1, <2>3, <2>4 DEF CreatedInv
  <2>5. CASE k = "start"
    <3>1. o \in {instance, record}
      BY <1>0, <2>1, <2>3, <2>5 DEF RecordInv
    <3>2. CASE o = instance
      BY <1>o, <2>1, <3>2
    <3>3. CASE o = record
      <4>1. ASSUME Pending("create", o) PROVE FALSE
        <5>1. Head(mailbox) # Message("create", o)
          BY <2>1, <2>5 DEF Message
        <5>2. Range(mailbox) = Range(Tail(mailbox)) \union {Head(mailbox)}
          BY <1>0, <2>2, TailList DEF TypeInv
        <5>3. Message("create", o) \in Range(Tail(mailbox))
          BY <4>1, <5>1, <5>2 DEF Pending
        <5>4. Precedes(mailbox, Head(mailbox), Message("create", o))
          BY <1>0, <2>2, <5>3, TailBefore DEF TypeInv
        <5>5. Before("start", o, "create", o)
          BY <2>1, <2>5, <5>4 DEF Before
        <5> QED BY <1>0, <5>5 DEF OrderInv
      <4>2. o <= objects
        BY <1>0, <3>3 DEF RecordInv, Objects
      <4> QED BY <2>1, <4>1, <4>2 DEF Created
    <3> QED BY <3>1, <3>2, <3>3
  <2> QED BY <2>1, <2>4, <2>5
<1>1. \A o \in Objects : Pending("apply", o)' => Created(o)'
  <2> SUFFICES ASSUME NEW o \in Objects, Pending("apply", o)' PROVE Created(o)'
    OBVIOUS
  <2>1. CASE Pending("apply", o)
    BY <1>0, <1>k, <2>1 DEF CreatedInv
  <2>2. CASE ~Pending("apply", o)
    <3>1. ~(Stilled \/ UNCHANGED vars)
      BY <1>0, <2>2, KeepsFacts DEF Stilled, Still, vars, system, Keeps, TypeInv
    <3>2. ~Restarted
      BY <1>0, <2>2, AddFacts DEF Restarted, Started
    <3>3. ~Recorded
      BY <1>0, <2>2, LaunchFacts DEF Recorded
    <3>4. ~Stopped
      BY <1>0, <2>2, AddFacts DEF Stopped, TypeInv, TypeOK
    <3>5. ~Taken
      BY <1>0, <2>2, TakeFacts DEF Taken
    <3>6. Told
      BY <3>1, <3>2, <3>3, <3>4, <3>5, StepKind
    <3>7. PICK p \in Objects : Created(p) /\ Adds(mailbox, mailbox', Message("apply", p))
      BY <3>6 DEF Told
    <3>8. o = p
      BY <1>0, <2>2, <3>7, AddFacts
    <3> QED BY <1>k, <3>7, <3>8
  <2> QED BY <2>1, <2>2
<1>2. main'.pc = "apply" => Created(main.of)'
  <2>1. CASE ApplyRead
    <3>1. main'.of \in Objects /\ Created(main'.of)
      BY <1>d, <2>1 DEF ApplyRead
    <3>2. PICK o \in Objects : o = main'.of
      BY <3>1
    <3>3. Created(o)'
      BY <1>k, <3>1, <3>2
    <3> QED BY <3>2, <3>3 DEF Created
  <2>2. CASE ~ApplyRead /\ main'.pc = "apply"
    <3>1. main' = main /\ main.pc = "apply"
      BY <2>2 DEF Next, RequestBegin, RequestRead, RequestAct, OnCreate, ApplyWrite, OnDestroy,
         Relaunch, OnTimeout, AttachActivity, DetachActivity, Show, ConfirmScreenProtection,
         Idle, vars
    <3>2. main.of \in Objects /\ Created(main.of)
      BY <1>0, <3>1 DEF CreatedInv, TypeInv, Idle
    <3>3. PICK o \in Objects : o = main.of
      BY <3>2
    <3>4. Created(o)' /\ main'.of = o
      BY <1>k, <3>1, <3>2, <3>3
    <3> QED BY <3>4 DEF Created
  <2> QED BY <2>1, <2>2
<1>3. caller'.pc = "act" /\ caller'.existing # 0 => Created(caller.existing)'
  <2>1. CASE RequestRead /\ caller'.existing # 0
    <3>1. instance \in Objects /\ caller'.existing = instance
      BY <1>0, <2>1 DEF RequestRead, TypeInv, TypeOK
    <3>2. PICK o \in Objects : o = instance
      BY <3>1
    <3>3. Created(o)' /\ caller'.existing = o
      BY <1>k, <1>o, <3>1, <3>2
    <3> QED BY <3>3 DEF Created
  <2>2. CASE ~RequestRead /\ caller'.pc = "act" /\ caller'.existing # 0
    <3>1. caller' = caller
      BY <2>2 DEF Next, RequestBegin, RequestAct, OnCreate, ApplyRead, ApplyWrite, OnDestroy,
         Relaunch, OnTimeout, AttachActivity, DetachActivity, Show, ConfirmScreenProtection,
         Idle, vars
    <3>2. caller.existing \in Objects /\ Created(caller.existing)
      BY <1>0, <2>2, <3>1 DEF CreatedInv, TypeInv, Idle
    <3>3. PICK o \in Objects : o = caller.existing
      BY <3>2
    <3>4. Created(o)' /\ caller'.existing = o
      BY <1>k, <3>1, <3>2, <3>3
    <3> QED BY <3>4 DEF Created
  <2> QED BY <2>1, <2>2
<1> QED BY <1>1, <1>2, <1>3 DEF CreatedInv

(* An object is created when there is no instance, and the instance is the *)
(* one that is destroyed.                                                  *)
LEMMA DeliverFacts ==
  ASSUME ServiceInv
  PROVE  /\ Deliver("create") => /\ instance = 0 /\ record \in Objects
                                /\ Head(mailbox) = Message("create", record)
         /\ Deliver("destroy") => /\ instance \in Objects /\ instance # record
                                 /\ Head(mailbox) = Message("destroy", instance)
<1>0. /\ TypeInv /\ RecordInv /\ OrderInv /\ instance \in {0} \union Objects
  BY DEF ServiceInv, TypeInv, TypeOK
<1>1. ASSUME NEW k \in {"create", "destroy"}, Deliver(k)
      PROVE  \E o \in Objects : Head(mailbox) = Message(k, o) /\ Pending(k, o)
  <2>1. mailbox # <<>> /\ Head(mailbox).kind = k
    BY <1>1 DEF Deliver
  <2>2. PICK o \in Objects : Head(mailbox) = Message(k, o)
    BY <1>0, <2>1 DEF TypeInv, Messages, Work, ScreenPosts, Message
  <2>3. Head(mailbox) \in Range(mailbox)
    BY <1>0, <2>1, TailList DEF TypeInv
  <2> QED BY <2>2, <2>3 DEF Pending
<1>2. ASSUME Deliver("create")
      PROVE  instance = 0 /\ record \in Objects /\ Head(mailbox) = Message("create", record)
  <2>1. PICK o \in Objects : Head(mailbox) = Message("create", o) /\ Pending("create", o)
    BY <1>1, <1>2
  <2>2. o = record /\ o # instance
    BY <1>0, <2>1 DEF RecordInv
  <2>3. ASSUME instance # 0 PROVE FALSE
    <3>1. Pending("destroy", instance)
      BY <1>0, <2>2, <2>3 DEF RecordInv
    <3>2. mailbox # <<>> /\ Head(mailbox) # Message("destroy", instance)
      BY <1>2, <2>1 DEF Deliver, Message
    <3>3. Range(mailbox) = Range(Tail(mailbox)) \union {Head(mailbox)}
      BY <1>0, <3>2, TailList DEF TypeInv
    <3>4. Message("destroy", instance) \in Range(Tail(mailbox))
      BY <3>1, <3>2, <3>3 DEF Pending
    <3>5. Precedes(mailbox, Head(mailbox), Message("destroy", instance))
      BY <1>0, <3>2, <3>4, TailBefore DEF TypeInv
    <3>6. Before("create", o, "destroy", instance)
      BY <2>1, <3>5 DEF Before
    <3> QED BY <1>0, <2>3, <3>6 DEF OrderInv
  <2> QED BY <2>1, <2>2, <2>3
<1>3. ASSUME Deliver("destroy")
      PROVE  instance \in Objects /\ instance # record
             /\ Head(mailbox) = Message("destroy", instance)
  <2>1. PICK o \in Objects : Head(mailbox) = Message("destroy", o) /\ Pending("destroy", o)
    BY <1>1, <1>3
  <2> QED BY <1>0, <2>1 DEF RecordInv
<1> QED BY <1>2, <1>3

(* The foreground follows the instance. *)
LEMMA ForegroundStep ==
  ASSUME ServiceInv, [Next]_vars, TypeInv', RecordInv', OrderInv' PROVE ForegroundInv'
<1>0. /\ TypeInv /\ TypeOK /\ RecordInv /\ ForegroundInv /\ foreground \subseteq Objects
      /\ 0 \notin Objects
  <2>1. TypeInv /\ TypeOK /\ RecordInv /\ ForegroundInv
    BY DEF ServiceInv, TypeInv
  <2>2. foreground \subseteq Objects
    BY <2>1 DEF TypeOK
  <2>3. 0 \notin Objects
    BY DEF Objects
  <2> QED BY <2>1, <2>2, <2>3
<1>1. CASE OnCreate
  <2>1. instance = 0
    BY <1>1, DeliverFacts DEF OnCreate
  <2> QED BY <1>0, <1>1, <2>1 DEF OnCreate, ForegroundInv, service, Deliver, Idle
<1>2. CASE OnDestroy
  <2>1. Head(mailbox).of = instance
    BY <1>2, DeliverFacts DEF OnDestroy, Message
  <2> QED BY <1>0, <1>2, <2>1 DEF OnDestroy, ForegroundInv
<1>3. CASE ApplyWrite
  <2>1. main.of \in Objects /\ Created(main.of)
    BY <1>0, <1>3 DEF ApplyWrite, TypeInv, Idle, ServiceInv, CreatedInv
  <2>2. main.of = record => record = instance
    BY <1>0, <2>1, CreatedIsInstance
  <2> QED BY <1>0, <1>3, <2>1, <2>2 DEF ApplyWrite, ForegroundInv, Idle
<1>4. CASE ~OnCreate /\ ~OnDestroy /\ ~ApplyWrite
  <2>1. /\ foreground' \subseteq foreground /\ instance' = instance
        /\ main'.pc = "destroyed" => main.pc = "destroyed"
    BY <1>4 DEF Next, RequestBegin, RequestRead, RequestAct, ApplyRead, Relaunch, OnTimeout,
       AttachActivity, DetachActivity, Show, ConfirmScreenProtection, Idle, vars, service
  <2> QED BY <1>0, <2>1 DEF ForegroundInv
<1> QED BY <1>1, <1>2, <1>3, <1>4

-----------------------------------------------------------------------------
(* What was asked for.                                                     *)

(* Reasons are only taken away from what was asked for last, and a call    *)
(* under way has all of them.                                              *)
AskedInv ==
  /\ asked \subseteq Screen \union Service /\ desired \subseteq asked
  /\ caller # Idle => caller.attempt.mask = asked \intersect Service

(* Without an instance and a record, what is confirmed is nothing or what  *)
(* an object applied after its onDestroy.                                  *)
NobodyInv ==
  instance = 0 /\ record = 0 => confirmed = {} \/ \E o \in Objects : mask[o] = confirmed

(* A step is owed that will read the desired reasons: by the caller, by a  *)
(* message to the recorded object, by the destruction of another instance, *)
(* or by the method that the main thread is in.                            *)
Owed ==
  \/ caller.pc = "read" /\ caller.attempt = DesiredServiceState
  \/ caller.pc = "act" /\ caller.existing = record /\ record # 0
  \/ /\ caller.pc = "act" /\ caller.existing = 0 /\ caller.attempt.mask # {}
     /\ caller.attempt = DesiredServiceState
  \/ record # 0 /\ (Pending("start", record) \/ Pending("apply", record))
  \/ instance # 0 /\ instance # record
  \/ main.pc = "destroyed"
  \/ main.pc = "apply" /\ main.of = record /\ main.attempt = DesiredServiceState

(* The reasons R are applied: by no object, or by the recorded one, and a  *)
(* method that is still to write them will write the same.                 *)
Applied(R) ==
  /\ instance = record /\ (R = {} => record = 0)
  /\ R # {} => /\ record # 0 /\ foreground = {record} /\ mask[record] = R /\ confirmed = R
               /\ (record \in locks) <=> (R \intersect Partial # {})
               /\ main.pc = "apply" => main.attempt.mask = R

SettleInv == desired = asked => Owed \/ Applied(desired \intersect Service)

IInv == ServiceInv /\ AskedInv /\ NobodyInv /\ SettleInv /\ ScreenInv

(* A message that makes an object read the reasons stays until it is read. *)
LEMMA PendingKept ==
  ASSUME ServiceInv, TypeInv', [Next]_vars, ~ApplyRead,
         NEW k \in {"start", "apply"}, NEW o \in Objects, Pending(k, o)
  PROVE  Pending(k, o)'
<1>0. /\ TypeInv /\ k \in Kinds /\ {record} \subseteq {0} \union Objects
      /\ "create" \in Kinds /\ "start" \in Kinds /\ "apply" \in Kinds /\ "destroy" \in Kinds
  BY DEF ServiceInv, TypeInv, TypeOK, Kinds
<1>1. CASE Stilled \/ UNCHANGED vars
  <2>1. Keeps(mailbox, mailbox')
    BY <1>0, <1>1 DEF Stilled, Still, vars, system, Keeps, TypeInv
  <2> QED BY <1>0, <2>1, KeepsFacts
<1>2. CASE Restarted
  BY <1>0, <1>2, AddFacts DEF Restarted, Started
<1>3. CASE Recorded
  BY <1>0, <1>3, LaunchFacts DEF Recorded
<1>4. CASE Told
  <2>1. PICK p \in Objects : Adds(mailbox, mailbox', Message("apply", p))
    BY <1>4 DEF Told
  <2> QED BY <1>0, <2>1, AddFacts
<1>5. CASE Stopped
  <2>1. record \in Objects /\ Adds(mailbox, mailbox', Message("destroy", record))
    BY <1>0, <1>5 DEF Stopped
  <2> QED BY <1>0, <2>1, AddFacts
<1>6. CASE Taken
  <2>1. mailbox # <<>> /\ mailbox' = Tail(mailbox) /\ Head(mailbox) # Message(k, o)
    BY <1>6 DEF Taken, OnCreate, OnDestroy, Show, Deliver, Message
  <2> QED BY <1>0, <2>1, TakeFacts
<1> QED BY <1>1, <1>2, <1>3, <1>4, <1>5, <1>6, StepKind

(* What RecordFailure does to the reasons. *)
LEMMA FailureEffect ==
  ASSUME NEW a, NEW c, NEW b, RecordFailure(a, c, b)
  PROVE  \/ a = DesiredServiceState /\ desired' = desired \ Service /\ confirmed' = {}
         \/ UNCHANGED <<desired, revision>> /\ a # DesiredServiceState /\ confirmed' = c
  BY DEF RecordFailure, Transition

(* A launch leaves the reasons alone, or withdraws those of the service *)
(* when it failed for the newest request.                               *)
LEMMA LaunchEffect ==
  ASSUME TypeInv, NEW a, Launch(a, mailbox)
  PROVE  \/ /\ UNCHANGED <<desired, confirmed, revision>>
            /\ record' \in Objects /\ Pending("start", record)'
         \/ /\ a = DesiredServiceState /\ desired' = desired \ Service /\ confirmed' = {}
            /\ UNCHANGED record
         \/ UNCHANGED <<desired, confirmed, revision, record>> /\ a # DesiredServiceState
<1>0. mailbox \in Seq(Messages) /\ "start" \in Kinds
  BY DEF TypeInv, Kinds
<1>1. CASE Started(mailbox) /\ UNCHANGED <<desired, confirmed, revision>>
  BY <1>0, <1>1, AddFacts DEF Started
<1>2. CASE Launched(mailbox) /\ UNCHANGED <<desired, confirmed, revision>>
  <2>1. record' \in Objects
    BY <1>2 DEF Launched
  <2> QED BY <1>0, <1>2, <2>1, LaunchFacts
<1>3. CASE Still(mailbox) /\ RecordFailure(a, confirmed, mailbox)
  BY <1>3, FailureEffect DEF Still
<1> QED BY <1>0, <1>1, <1>2, <1>3, LaunchBox

(* No step but a request adds to the reasons, and a call keeps its own. *)
LEMMA AskedStep ==
  ASSUME IInv, [Next]_vars PROVE AskedInv'
<1>0. TypeInv /\ AskedInv /\ desired \subseteq asked
  BY DEF IInv, ServiceInv, AskedInv
<1>1. CASE \E R \in Requests : RequestBegin(R)
  BY <1>1, PowerAssumption DEF RequestBegin, Transition, AskedInv, Attempt
<1>2. CASE RequestRead
  BY <1>0, <1>2 DEF RequestRead, AskedInv, Idle
<1>3. CASE RequestAct
  <2>1. desired' \subseteq desired
    BY <1>0, <1>3, LaunchEffect DEF RequestAct
  <2> QED BY <1>0, <1>3, <2>1 DEF RequestAct, AskedInv
<1>4. CASE ApplyWrite
  <2>1. desired' \subseteq desired
    BY <1>0, <1>4, FailureEffect DEF ApplyWrite
  <2> QED BY <1>0, <1>4, <2>1 DEF ApplyWrite, AskedInv
<1>5. CASE Relaunch
  <2>1. desired' \subseteq desired
    BY <1>0, <1>5, LaunchEffect DEF Relaunch
  <2> QED BY <1>0, <1>5, <2>1 DEF Relaunch, AskedInv
<1>6. CASE OnTimeout
  BY <1>0, <1>6 DEF OnTimeout, Transition, AskedInv
<1>7. CASE \/ OnCreate \/ ApplyRead \/ OnDestroy \/ AttachActivity \/ DetachActivity
           \/ Show \/ ConfirmScreenProtection \/ UNCHANGED vars
  BY <1>0, <1>7 DEF OnCreate, ApplyRead, OnDestroy, AttachActivity, DetachActivity, Show,
     ConfirmScreenProtection, vars, companion, AskedInv
<1> QED BY <1>1, <1>2, <1>3, <1>4, <1>5, <1>6, <1>7 DEF Next

(* Every step keeps what is confirmed without an object. *)
LEMMA NobodyStep ==
  ASSUME IInv, [Next]_vars, TypeInv' PROVE NobodyInv'
<1>0. /\ TypeInv /\ NobodyInv /\ RecordInv /\ 0 \notin Objects
      /\ mask \in [Objects -> SUBSET Service]
  <2>1. TypeInv /\ NobodyInv /\ RecordInv /\ 0 \notin Objects
    BY DEF IInv, ServiceInv, Objects
  <2> QED BY <2>1 DEF TypeInv, TypeOK
<1>1. CASE RequestAct
  <2>1. CASE confirmed' = {}
    BY <2>1 DEF NobodyInv
  <2>2. CASE confirmed' # {}
    <3>1. confirmed' = confirmed /\ (record' = record \/ record' \in Objects)
      BY <1>0, <1>1, <2>2, LaunchEffect DEF RequestAct
    <3> QED BY <1>0, <1>1, <3>1 DEF RequestAct, NobodyInv, service
  <2> QED BY <2>1, <2>2
<1>2. CASE Relaunch
  <2>1. CASE confirmed' = {}
    BY <2>1 DEF NobodyInv
  <2>2. CASE confirmed' # {}
    <3>1. confirmed' = confirmed /\ (record' = record \/ record' \in Objects)
      BY <1>0, <1>2, <2>2, LaunchEffect DEF Relaunch, system
    <3> QED BY <1>0, <1>2, <3>1 DEF Relaunch, NobodyInv, service
  <2> QED BY <2>1, <2>2
<1>3. CASE OnCreate
  BY <1>0, <1>3, DeliverFacts DEF OnCreate, IInv, NobodyInv, Message
<1>4. CASE ApplyWrite
  <2>1. main.of \in Objects /\ Created(main.of)
    BY <1>0, <1>4 DEF ApplyWrite, TypeInv, Idle, IInv, ServiceInv, CreatedInv
  <2>2. main.of = record => instance # 0
    BY <1>0, <2>1, CreatedIsInstance
  <2> QED BY <1>0, <1>4, <2>1, <2>2 DEF ApplyWrite, NobodyInv
<1>5. CASE OnDestroy \/ OnTimeout
  BY <1>5 DEF OnDestroy, OnTimeout, NobodyInv
<1>6. CASE ~(RequestAct \/ Relaunch \/ OnCreate \/ ApplyWrite \/ OnDestroy \/ OnTimeout)
  <2>1. UNCHANGED <<instance, record, confirmed, mask>>
    BY <1>6 DEF Next, RequestBegin, RequestRead, ApplyRead, AttachActivity, DetachActivity,
       Show, ConfirmScreenProtection, vars, companion, service, system
  <2> QED BY <1>0, <2>1 DEF NobodyInv
<1> QED BY <1>1, <1>2, <1>3, <1>4, <1>5, <1>6

(* After every step the last request is applied, or a step is owed to it. *)
LEMMA SettleStep ==
  ASSUME IInv, [Next]_vars, TypeInv' PROVE SettleInv'
<1> DEFINE R == desired \intersect Service
<1> SUFFICES ASSUME desired' = asked' PROVE Owed' \/ Applied(R)'
  BY DEF SettleInv
<1>0. /\ ServiceInv /\ TypeInv /\ RecordInv /\ OrderInv /\ CreatedInv /\ ForegroundInv
      /\ AskedInv /\ SettleInv /\ desired \subseteq asked
      /\ "start" \in Kinds /\ "apply" \in Kinds
  BY DEF IInv, ServiceInv, AskedInv, Kinds
<1>t. /\ mask \in [Objects -> SUBSET Service] /\ foreground \subseteq Objects
      /\ record \in {0} \union Objects /\ instance \in {0} \union Objects /\ 0 \notin Objects
  BY <1>0 DEF TypeInv, TypeOK, Objects
<1>r. DesiredServiceState.mask = R
  BY DEF DesiredServiceState, Attempt
<1>p. ASSUME ~ApplyRead, NEW k \in {"start", "apply"}, NEW o \in Objects, Pending(k, o)
      PROVE  Pending(k, o)'
  BY <1>0, <1>p, PendingKept
<1>i. ASSUME record # 0, Created(record) PROVE record = instance
  BY <1>0, <1>i, CreatedIsInstance
<1>d. ASSUME record # 0, record # instance PROVE Pending("start", record)
  BY <1>0, <1>d DEF RecordInv
<1>1. CASE \E S \in Requests : RequestBegin(S)
  <2>1. caller'.pc = "read" /\ caller'.attempt = DesiredServiceState'
    BY <1>1 DEF RequestBegin, Transition, Attempt, DesiredServiceState
  <2> QED BY <2>1 DEF Owed
<1>2. CASE RequestRead
  <2>1. UNCHANGED <<desired, revision, record, instance, main, mailbox, foreground, mask, locks,
                    confirmed, asked>>
    BY <1>2 DEF RequestRead, service, system
  <2>2. /\ caller.pc = "read"
        /\ caller' = [pc |-> "act", attempt |-> caller.attempt, existing |-> instance]
    BY <1>2 DEF RequestRead
  <2>3. caller.attempt.mask = R
    <3>1. caller # Idle
      BY <2>2 DEF Idle
    <3>2. caller.attempt.mask = asked \intersect Service /\ desired = asked
      BY <1>0, <2>1, <3>1 DEF AskedInv
    <3> QED BY <3>2
  <2>4. CASE caller.attempt = DesiredServiceState
    <3>1. CASE instance # record
      BY <1>d, <2>1, <3>1 DEF Owed, Pending
    <3>2. CASE instance = record /\ (record # 0 \/ R # {})
      BY <2>1, <2>2, <2>3, <2>4, <3>2 DEF Owed, DesiredServiceState
    <3>3. CASE instance = record /\ record = 0 /\ R = {}
      BY <2>1, <3>3 DEF Applied
    <3> QED BY <3>1, <3>2, <3>3
  <2>5. CASE caller.attempt # DesiredServiceState
    BY <1>0, <2>1, <2>2, <2>5 DEF SettleInv, Owed, Applied, Pending, DesiredServiceState
  <2> QED BY <2>4, <2>5
<1>3. CASE RequestAct
  <2>1. UNCHANGED <<instance, main, foreground, mask, locks, asked>>
        /\ caller.pc = "act" /\ caller.attempt.mask = asked \intersect Service
    BY <1>0, <1>3 DEF RequestAct, service, AskedInv, Idle
  <2>2. CASE /\ caller.existing # 0
             /\ mailbox' = Append(mailbox, Message("apply", caller.existing))
             /\ UNCHANGED <<desired, confirmed, lastFailure, revision, screenRevision,
                            record, objects>>
    <3>1. CASE caller.existing = record
      <4>1. Message("apply", record) \in Messages /\ mailbox \in Seq(Messages)
        BY <1>0, <1>t, <2>2, <3>1, MessageWork DEF Messages, TypeInv
      <4>2. Pending("apply", record)'
        BY <2>2, <3>1, <4>1, AppendList DEF Pending, Message
      <4> QED BY <2>2, <3>1, <4>2 DEF Owed
    <3>2. CASE caller.existing # record
      <4>1. ~ApplyRead
        BY <2>2, <1>0, <2>1, <1>3 DEF RequestAct, ApplyRead, Idle
      <4> QED BY <1>0, <1>p, <1>t, <2>1, <2>2, <3>2, <4>1
              DEF SettleInv, Owed, Applied, DesiredServiceState
    <3> QED BY <3>1, <3>2
  <2>3. CASE /\ caller.existing = 0 /\ caller.attempt.mask = {}
             /\ UNCHANGED <<desired, lastFailure, revision, screenRevision, system>>
    <3>1. R = {}
      BY <2>1, <2>3
    <3> QED BY <1>0, <2>1, <2>3, <3>1
            DEF SettleInv, Owed, Applied, Pending, DesiredServiceState, system
  <2>4. CASE /\ caller.existing = 0 /\ caller.attempt.mask # {}
             /\ Launch(caller.attempt, mailbox)
    <3>1. CASE record' \in Objects /\ Pending("start", record)'
      BY <1>t, <3>1 DEF Owed
    <3>2. CASE caller.attempt = DesiredServiceState /\ desired' = desired \ Service
      <4>1. desired = asked /\ R # {}
        BY <1>0, <1>r, <2>1, <2>4, <3>2
      <4> QED BY <1>0, <2>1, <3>2, <4>1
    <3>3. CASE /\ UNCHANGED <<desired, confirmed, revision, record>>
               /\ caller.attempt # DesiredServiceState
      <4>1. ~ApplyRead
        BY <2>1, <1>3 DEF RequestAct, ApplyRead, Idle
      <4> QED BY <1>0, <1>p, <1>t, <2>1, <2>4, <3>3, <4>1
              DEF SettleInv, Owed, Applied, DesiredServiceState
    <3> QED BY <1>0, <2>4, <3>1, <3>2, <3>3, LaunchEffect
  <2> QED BY <1>3, <2>2, <2>3, <2>4 DEF RequestAct
<1>4. CASE OnCreate
  <2>1. /\ record \in Objects /\ instance = 0 /\ main = Idle
        /\ UNCHANGED <<desired, revision, record, caller, main, asked>>
    BY <1>0, <1>4, DeliverFacts DEF OnCreate, Deliver, companion
  <2>2. Owed
    BY <1>0, <1>t, <2>1 DEF SettleInv, Applied
  <2>3. ~ApplyRead
    BY <1>4 DEF OnCreate, ApplyRead, Idle, Deliver
  <2> QED BY <1>p, <1>t, <2>1, <2>2, <2>3 DEF Owed, DesiredServiceState, Idle
<1>5. CASE ApplyRead
  <2>1. /\ main = Idle /\ mailbox # <<>> /\ mailbox' = Tail(mailbox)
        /\ Deliver("start") \/ Deliver("apply")
        /\ main' = [pc |-> "apply", of |-> Head(mailbox).of, attempt |-> DesiredServiceState]
        /\ UNCHANGED <<desired, revision, record, instance, caller, asked, confirmed, foreground,
                      mask, locks>>
    BY <1>5 DEF ApplyRead, Deliver, companion, service
  <2>2. CASE Owed
    <3>1. ASSUME NEW k \in {"start", "apply"}, record # 0, Pending(k, record)
          PROVE  Owed'
      <4>1. Pending(k, record)' \/ Head(mailbox) = Message(k, record)
        BY <1>0, <1>t, <2>1, <3>1, TakeFacts DEF Pending
      <4>2. CASE Head(mailbox) = Message(k, record)
        BY <2>1, <4>2 DEF Owed, DesiredServiceState, Message
      <4> QED BY <2>1, <3>1, <4>1, <4>2 DEF Owed
    <3> QED BY <2>1, <2>2, <3>1 DEF Owed, DesiredServiceState, Idle
  <2>3. CASE Applied(R)
    BY <1>r, <2>1, <2>3 DEF Applied
  <2> QED BY <1>0, <2>1, <2>2, <2>3 DEF SettleInv
<1>6. CASE ApplyWrite
  <2> DEFINE o == main.of  S == main.attempt.mask
  <2>1. /\ main.pc = "apply" /\ o \in Objects /\ Created(o) /\ S \in SUBSET Service /\ main' = Idle
        /\ UNCHANGED <<instance, caller, asked>>
    BY <1>0, <1>6 DEF ApplyWrite, TypeInv, Idle, CreatedInv, Attempts
  <2>2. record = o => record # 0 /\ instance = record
    BY <1>i, <1>t, <2>1
  <2>3. ~ApplyRead
    BY <2>1 DEF ApplyRead, Idle, Deliver
  <2> HIDE DEF o, S
  <2>4. CASE record = o /\ record' = 0
    BY <2>1, <2>2, <2>4 DEF Owed
  <2>5. CASE /\ mask' = [mask EXCEPT ![o] = S] /\ confirmed' = S /\ HoldWakeLock(o, S)
             /\ IF S = {}
                THEN foreground' = foreground \ {o}
                ELSE foreground' = foreground \union ({o} \intersect {record})
             /\ S = {} => record # o
             /\ UNCHANGED <<desired, revision, record>>
    <3>0. desired = asked /\ DesiredServiceState' = DesiredServiceState
      BY <2>1, <2>5 DEF DesiredServiceState
    <3>1. CASE record = o /\ S = R
      <4>1. S # {} /\ instance = record /\ record # 0
        BY <2>2, <2>5, <3>1
      <4>2. foreground' = {record}
        BY <1>0, <2>5, <3>1, <4>1 DEF ForegroundInv
      <4>3. mask'[record] = R
        BY <1>t, <2>1, <2>5, <3>1
      <4>4. (record \in locks') <=> (R \intersect Partial # {})
        BY <2>5, <3>1 DEF HoldWakeLock
      <4>5. Applied(R)'
        BY <2>1, <2>5, <3>1, <4>1, <4>2, <4>3, <4>4 DEF Applied, Idle
      <4> QED BY <4>5 DEF Applied
    <3>2. CASE ~(record = o /\ S = R) /\ Owed
      <4>1. ~(main.of = record /\ main.attempt = DesiredServiceState)
        BY <1>r, <3>2 DEF o, S
      <4> QED BY <1>p, <1>t, <2>1, <2>3, <2>5, <3>0, <3>2, <4>1 DEF Owed
    <3>3. CASE Applied(R) /\ R = {}
      BY <2>1, <2>5, <3>3 DEF Applied
    <3>4. CASE Applied(R) /\ R # {} /\ record # o
      <4>1. S = R
        BY <2>1, <3>4 DEF Applied, S
      <4>2. foreground' = {record}
        BY <2>5, <3>4, <4>1 DEF Applied
      <4>3. mask'[record] = R
        BY <1>t, <2>1, <2>5, <3>4 DEF Applied
      <4>4. (record \in locks') <=> (R \intersect Partial # {})
        BY <2>5, <3>4 DEF Applied, HoldWakeLock
      <4>5. Applied(R)'
        BY <2>1, <2>5, <3>4, <4>1, <4>2, <4>3, <4>4 DEF Applied, Idle
      <4> QED BY <4>5 DEF Applied
    <3>5. Applied(R) /\ R # {} => S = R
      BY <2>1 DEF Applied, S
    <3> QED BY <1>0, <3>0, <3>1, <3>2, <3>3, <3>4, <3>5 DEF SettleInv
  <2> QED BY <1>6, <2>4, <2>5 DEF ApplyWrite, StopSelf, o, S
<1>7. CASE OnDestroy
  BY <1>7 DEF OnDestroy, Owed
<1>8. CASE Relaunch
  <2>1. main.pc = "destroyed" /\ main' = Idle /\ instance = 0
        /\ UNCHANGED <<instance, foreground, mask, locks, caller, asked>>
    BY <1>0, <1>8 DEF Relaunch, service, ForegroundInv
  <2>2. ~ApplyRead
    BY <2>1 DEF ApplyRead, Idle, Deliver
  <2>3. CASE /\ R = {}
             /\ UNCHANGED <<desired, confirmed, lastFailure, revision, screenRevision, system>>
    <3>1. CASE record = 0
      BY <2>1, <2>3, <3>1 DEF Applied, system
    <3>2. CASE record # 0
      BY <1>d, <2>1, <2>3, <3>2 DEF Owed, system, Pending
    <3> QED BY <3>1, <3>2
  <2>4. CASE R # {} /\ Launch(DesiredServiceState, mailbox)
    <3>1. CASE record' \in Objects /\ Pending("start", record)'
      BY <1>t, <3>1 DEF Owed
    <3>2. CASE desired' = desired \ Service
      BY <1>0, <2>1, <2>4, <3>2
    <3> QED BY <1>0, <2>4, <3>1, <3>2, LaunchEffect
  <2> QED BY <1>8, <2>3, <2>4 DEF Relaunch
<1>9. CASE OnTimeout
  <2>1. /\ record # 0 /\ record = instance /\ UNCHANGED <<instance, asked>>
        /\ desired' = desired \ {"transfer"}
    BY <1>0, <1>9 DEF OnTimeout, ForegroundInv, Transition
  <2>2. CASE record' = 0
    BY <2>1, <2>2 DEF Owed
  <2>3. CASE record' = record /\ \E i \in DOMAIN mailbox : mailbox[i] = Message("start", record)
    <3>1. Pending("start", record)
      BY <2>3 DEF Pending, Range
    <3>2. ~ApplyRead
      BY <1>9, <1>0 DEF OnTimeout, ApplyRead, Idle
    <3> QED BY <1>p, <1>t, <2>1, <2>3, <3>1, <3>2 DEF Owed
  <2> QED BY <1>9, <2>2, <2>3 DEF OnTimeout
<1>10. CASE AttachActivity \/ DetachActivity \/ Show \/ ConfirmScreenProtection
  <2>1. /\ UNCHANGED <<desired, confirmed, revision, instance, mask, locks, foreground, record,
                      caller, asked>>
        /\ main.pc \notin {"apply", "destroyed"} /\ main'.pc # "apply"
    BY <1>10 DEF AttachActivity, DetachActivity, Show, ConfirmScreenProtection, companion,
       service, system, Deliver, Idle
  <2>2. ~ApplyRead
    BY <1>10 DEF AttachActivity, DetachActivity, Show, ConfirmScreenProtection, ApplyRead, Idle,
       Deliver
  <2> QED BY <1>0, <1>p, <1>t, <2>1, <2>2 DEF SettleInv, Owed, Applied, DesiredServiceState
<1>11. CASE UNCHANGED vars
  BY <1>0, <1>11 DEF vars, companion, service, system, SettleInv, Owed, Applied, Pending,
     DesiredServiceState
<1> QED BY <1>1, <1>2, <1>3, <1>4, <1>5, <1>6, <1>7, <1>8, <1>9, <1>10, <1>11 DEF Next

-----------------------------------------------------------------------------
(* The invariant holds at first. *)
LEMMA InitInv == Init => IInv
<1> SUFFICES ASSUME Init PROVE IInv
  OBVIOUS
<1>1. TypeInv
  <2>1. MaxObjects \in Nat /\ MaxActivities \in Nat /\ Objects \subseteq Nat
    BY PowerAssumption DEF Objects
  <2>2. TypeOK
    BY <2>1 DEF Init, TypeOK, Idle, Objects, Activities
  <2> QED BY <2>2 DEF Init, TypeInv, Idle
<1>2. \A k, o : ~Pending(k, o)
  BY EmptyList DEF Init, Pending
<1>3. RecordInv /\ OrderInv
  <2>1. \A k, o, l, p : ~Before(k, o, l, p)
    BY DEF Init, Before, Precedes
  <2> QED BY <1>2, <2>1 DEF Init, RecordInv, OrderInv
<1>4. CreatedInv /\ ForegroundInv
  BY <1>2 DEF Init, CreatedInv, ForegroundInv, Idle
<1>5. AskedInv /\ NobodyInv /\ SettleInv /\ ScreenInv
  BY DEF Init, AskedInv, NobodyInv, SettleInv, Applied, ScreenInv
<1> QED BY <1>1, <1>3, <1>4, <1>5 DEF IInv, ServiceInv

(* Every step keeps the invariant. *)
LEMMA Inductive == IInv /\ [Next]_vars => IInv'
<1> SUFFICES ASSUME IInv, [Next]_vars PROVE IInv'
  OBVIOUS
<1>0. ServiceInv /\ TypeInv /\ RecordInv /\ OrderInv /\ ScreenInv
  BY DEF IInv, ServiceInv
<1>1. TypeInv'
  BY <1>0, TypeStep
<1>2. RecordInv' /\ OrderInv'
  BY <1>0, <1>1, StepKind, RecordStep
<1>3. CreatedInv' /\ ForegroundInv'
  BY <1>0, <1>1, <1>2, CreatedStep, ForegroundStep
<1>4. AskedInv' /\ NobodyInv' /\ SettleInv'
  BY <1>1, AskedStep, NobodyStep, SettleStep
<1>5. ScreenInv'
  BY <1>0, <1>1, ScreenStep
<1> QED BY <1>1, <1>2, <1>3, <1>4, <1>5 DEF IInv, ServiceInv

(* The variables of the service have their types. *)
THEOREM TypeCorrect == Spec => []TypeOK
<1>1. IInv => TypeOK
  BY DEF IInv, ServiceInv, TypeInv
<1> QED BY <1>1, InitInv, Inductive, PTL DEF Spec

(* Once nothing is under way, what was asked for last is what the service  *)
(* protects, however requests, callbacks, timeouts and failures interleave *)
(* (request, applyReasons, onDestroy, onTimeout).                          *)
THEOREM LastRequestSettles == Spec => []Settles
<1>1. IInv => Settles
  <2> SUFFICES ASSUME IInv, Quiet, desired = asked
               PROVE  LET R == desired \intersect Service
                          ByDestroyed == \E o \in Objects \ {instance} : mask[o] = confirmed
                      IN /\ confirmed = R \/ (R = {} /\ ByDestroyed)
                         /\ R = {} => instance = 0 /\ record = 0 /\ foreground = {}
                         /\ R # {} => /\ instance # 0 /\ record = instance
                                      /\ foreground = {instance} /\ mask[instance] = R
                                      /\ (instance \in locks) <=> (R \intersect Partial # {})
    BY DEF Settles
  <2> DEFINE R == desired \intersect Service
  <2>0. /\ TypeInv /\ RecordInv /\ ForegroundInv /\ SettleInv /\ NobodyInv
        /\ foreground \subseteq Objects /\ 0 \notin Objects
    BY DEF IInv, ServiceInv, TypeInv, TypeOK, Objects
  <2>1. \A k, o : ~Pending(k, o)
    BY EmptyList DEF Quiet, Pending
  <2>2. Applied(R)
    <3>1. instance = 0 \/ instance = record
      BY <2>0, <2>1 DEF RecordInv
    <3> QED BY <2>0, <2>1, <3>1 DEF SettleInv, Owed, Quiet, Idle
  <2>3. CASE R = {}
    <3>1. record = 0 /\ instance = 0
      BY <2>2, <2>3 DEF Applied
    <3>2. foreground = {}
      BY <2>0, <3>1 DEF ForegroundInv
    <3> QED BY <2>0, <2>3, <3>1, <3>2 DEF NobodyInv
  <2>4. CASE R # {}
    BY <2>2, <2>4 DEF Applied
  <2> QED BY <2>3, <2>4
<1> QED BY <1>1, InitInv, Inductive, PTL DEF Spec

(* The window of the attached activity follows the desired reasons: a post *)
(* that is overtaken has a successor (applyTuneForgeScreenProtection).     *)
THEOREM WindowFollows == Spec => []ScreenFollows
<1>1. IInv => ScreenFollows
  <2> SUFFICES ASSUME IInv, activity # 0, main.pc # "shown",
                      \A i \in DOMAIN mailbox : mailbox[i].kind # "screen"
               PROVE  /\ shown = desired \intersect Screen
                      /\ (activity \in keepScreenOn) <=> (shown # {})
    BY DEF ScreenFollows
  <2>1. ScreenPost(screenRevision) \notin Range(mailbox)
    BY DEF ScreenPost, Range
  <2> QED BY <2>1 DEF IInv, ScreenInv, FlagFor
<1> QED BY <1>1, InitInv, Inductive, PTL DEF Spec

(* A failure to apply reasons takes nothing from a newer request           *)
(* (recordPowerControlFailure).                                            *)
THEOREM StaleFailureIgnored == Spec => NewerRequestKept
<1>1. ASSUME IInv, [Next]_vars
      PROVE  [ main.pc = "apply" /\ main' = Idle /\ main.attempt.rev < revision
                 => desired' = desired ]_vars
  <2> SUFFICES ASSUME main.pc = "apply", main' = Idle, main.attempt.rev < revision
               PROVE  desired' = desired
    OBVIOUS
  <2>1. revision \in Nat /\ main # Idle
    BY <1>1 DEF IInv, ServiceInv, TypeInv, TypeOK, Idle
  <2>2. main.attempt # DesiredServiceState
    BY <2>1 DEF DesiredServiceState, Attempt
  <2>3. ApplyWrite
    BY <1>1, <2>1 DEF Next, RequestBegin, RequestRead, RequestAct, OnCreate, ApplyRead, OnDestroy,
       Relaunch, OnTimeout, AttachActivity, DetachActivity, Show, ConfirmScreenProtection,
       Deliver, vars
  <2> QED BY <2>2, <2>3, FailureEffect DEF ApplyWrite
<1> QED BY <1>1, InitInv, Inductive, PTL DEF Spec, NewerRequestKept
=============================================================================
