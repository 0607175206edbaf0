-------------------------- MODULE ProcessingService --------------------------
(***************************************************************************)
(* The Android service that protects processing in the background:         *)
(* android/kotlin/com/tuneforge/desktop/ProcessingService.kt.  The Rust    *)
(* queue calls request() with a state (0 stop, 1 start, 2 and 3 wake lock  *)
(* on and off, 4 healthy), one call at a time; the system calls the        *)
(* service's methods on the main thread, in the order of a mailbox.  Every *)
(* access to the companion's fields is synchronized, so a step is one      *)
(* synchronized block.  The system itself is external and is modelled by   *)
(* record, mailbox and the order in which it creates and destroys objects. *)
(***************************************************************************)
EXTENDS Naturals, Sequences

CONSTANTS
  MaxStarts,       \* bound: how many starts the system is asked for
  MaxGeneration    \* bound: no request is made at this generation

ASSUME ServiceAssumption == MaxStarts \in Nat /\ MaxGeneration \in Nat

VARIABLES
  wanted, ready, failed,  \* companion fields
  generation,
  instance,               \* the service object in the foreground, 0 for null
  latch,                  \* the acknowledgement: "none", "up" or "down"
  visible,                \* whether the activity is resumed
  calling,                \* whether a start request waits for the latch
  locks,                  \* the objects that hold a wake lock
  foreground,             \* the objects that called startForeground
  alive,                  \* the object the system has created, 0 for none
  record,                 \* the object the system's service record is for
  mailbox,                \* what the main thread is still to be told
  starts                  \* how many objects the system was asked for

fields == <<wanted, ready, failed, generation, instance, latch>>
system == <<alive, record, mailbox, starts>>
vars == <<fields, visible, calling, locks, foreground, system>>

Init ==
  /\ wanted = FALSE /\ ready = FALSE /\ failed = FALSE
  /\ generation = 0 /\ instance = 0 /\ latch = "none"
  /\ visible \in BOOLEAN
  /\ calling = FALSE
  /\ locks = {} /\ foreground = {}
  /\ alive = 0 /\ record = 0 /\ mailbox = <<>> /\ starts = 0

-----------------------------------------------------------------------------
Start(o, g) == [kind |-> "start", obj |-> o, gen |-> g]
Destroy(o)  == [kind |-> "destroy", obj |-> o]

(* stopSelf(), with the main thread's messages in box: the system destroys *)
(* the object, unless its record is gone. *)
StopSelf(o, box) ==
  IF record = o /\ o # 0
  THEN record' = 0 /\ mailbox' = Append(box, Destroy(o))
  ELSE mailbox' = box /\ UNCHANGED record

(* finishLocked of an object, or nothing for null. *)
FinishLocked(o, box) ==
  /\ locks' = locks \ {o}
  /\ foreground' = foreground \ {o}
  /\ StopSelf(o, box)

CountDown == latch' = IF latch = "up" THEN "down" ELSE latch

FailLocked(o, box) ==
  /\ wanted' = FALSE /\ ready' = FALSE /\ failed' = TRUE
  /\ CountDown
  /\ instance' = IF instance = o THEN 0 ELSE instance
  /\ FinishLocked(o, box)
  /\ UNCHANGED generation

-----------------------------------------------------------------------------
(* request(), called by the queue.                                         *)

(* Bug: the object is forgotten without being finished. *)
RequestStopForgets ==
  /\ ~calling /\ generation < MaxGeneration
  /\ wanted' = FALSE /\ ready' = FALSE
  /\ generation' = generation + 1
  /\ instance' = 0
  /\ CountDown
  /\ UNCHANGED <<failed, visible, calling, locks, foreground, system>>

(* State 0: everything is released. *)
RequestStop ==
  /\ ~calling /\ generation < MaxGeneration
  /\ wanted' = FALSE /\ ready' = FALSE
  /\ generation' = generation + 1
  /\ FinishLocked(instance, mailbox) /\ instance' = 0
  /\ CountDown
  /\ UNCHANGED <<failed, visible, calling, alive, starts>>

(* State 1, when it has to start the service: it posts the intent, or the  *)
(* system refuses it. *)
RequestStart ==
  /\ ~calling /\ starts < MaxStarts /\ generation < MaxGeneration
  /\ ~(wanted /\ ready /\ ~failed)
  /\ visible
  /\ ready' = FALSE /\ generation' = generation + 1
  /\ \/ /\ wanted' = TRUE /\ failed' = FALSE /\ latch' = "up"
        /\ calling' = TRUE
        /\ starts' = starts + 1
        /\ LET o == IF record = 0 THEN starts' ELSE record
           IN /\ record' = o
              /\ mailbox' = Append(mailbox, Start(o, generation'))
     \/ /\ wanted' = FALSE /\ failed' = TRUE /\ latch' = "down"
        /\ UNCHANGED <<calling, starts, record, mailbox>>
  /\ UNCHANGED <<instance, visible, locks, foreground, alive>>

(* The latch is down: the answer is what the fields say by now. *)
StartReturns ==
  /\ calling /\ latch = "down"
  /\ calling' = FALSE
  /\ UNCHANGED <<fields, visible, locks, foreground, system>>

(* Ten seconds have passed; the latch may have come down meanwhile. *)
StartTimesOut ==
  /\ calling
  /\ calling' = FALSE
  /\ wanted' = FALSE /\ ready' = FALSE /\ failed' = TRUE
  /\ generation' = generation + 1
  /\ FinishLocked(instance, mailbox) /\ instance' = 0
  /\ UNCHANGED <<latch, visible, alive, starts>>

(* Bug: the wake lock is changed without looking at the service. *)
RequestActiveUnchecked(on) ==
  /\ ~calling
  /\ locks' = IF on THEN locks \union {instance} ELSE locks \ {instance}
  /\ UNCHANGED <<fields, visible, calling, foreground, system>>

(* States 2 and 3; acquiring may throw. *)
RequestActive(on) ==
  /\ ~calling
  /\ wanted /\ ready /\ ~failed /\ instance # 0
  /\ \/ /\ locks' = IF on THEN locks \union {instance} ELSE locks \ {instance}
        /\ UNCHANGED <<fields, foreground, record, mailbox>>
     \/ FailLocked(instance, mailbox)
  /\ UNCHANGED <<visible, calling, alive, starts>>

-----------------------------------------------------------------------------
(* What the system calls on the main thread.                               *)

Deliver(kind) == mailbox # <<>> /\ Head(mailbox).kind = kind

(* The object goes to the foreground and acknowledges, or fails. *)
Foreground(o, box) ==
  \/ /\ foreground' = foreground \union {o}
     /\ instance' = o /\ ready' = TRUE /\ CountDown
     /\ mailbox' = box
     /\ UNCHANGED <<wanted, failed, generation, record, locks>>
  \/ FailLocked(o, box)

(* Bug: an intent starts the service although it was given up. *)
StartsUnwanted ==
  /\ Deliver("start")
  /\ alive' = Head(mailbox).obj
  /\ Foreground(Head(mailbox).obj, Tail(mailbox))
  /\ UNCHANGED <<visible, calling, starts>>

(* Bug: the object of an intent that was given up is left running. *)
StaleStartStays ==
  /\ Deliver("start")
  /\ LET m == Head(mailbox)
     IN /\ alive' = m.obj
        /\ IF wanted /\ m.gen = generation
           THEN Foreground(m.obj, Tail(mailbox))
           ELSE /\ mailbox' = Tail(mailbox)
                /\ UNCHANGED <<fields, locks, foreground, record>>
  /\ UNCHANGED <<visible, calling, starts>>

(* onStartCommand: an intent that is no longer wanted stops its object,    *)
(* unless a later intent is on its way.                                    *)
OnStartCommand ==
  /\ Deliver("start")
  /\ LET m    == Head(mailbox)
         rest == Tail(mailbox)
         last == \A i \in DOMAIN rest : rest[i].kind # "start"
     IN /\ alive' = m.obj
        /\ IF wanted /\ m.gen = generation
           THEN Foreground(m.obj, rest)
           ELSE /\ IF last THEN StopSelf(m.obj, rest)
                           ELSE mailbox' = rest /\ UNCHANGED record
                /\ UNCHANGED <<fields, locks, foreground>>
  /\ UNCHANGED <<visible, calling, starts>>

(* onTimeout: the system ends the foreground time of the object; its       *)
(* message may have been sent before the object was finished.              *)
OnTimeout ==
  /\ alive # 0
  /\ FailLocked(alive, mailbox)
  /\ UNCHANGED <<visible, calling, alive, starts>>

(* onDestroy. *)
OnDestroy ==
  /\ Deliver("destroy")
  /\ LET o == Head(mailbox).obj
     IN /\ locks' = locks \ {o} /\ foreground' = foreground \ {o}
        /\ alive' = IF alive = o THEN 0 ELSE alive
        /\ IF instance = o
           THEN /\ instance' = 0 /\ ready' = FALSE
                /\ failed' = (failed \/ wanted) /\ wanted' = FALSE
                /\ latch' = IF wanted /\ latch = "up" THEN "down" ELSE latch
           ELSE UNCHANGED <<instance, ready, failed, wanted, latch>>
  /\ mailbox' = Tail(mailbox)
  /\ UNCHANGED <<generation, visible, calling, record, starts>>

(* The system stops the service by itself. *)
SystemStops ==
  /\ record # 0 /\ record = alive
  /\ StopSelf(alive, mailbox)
  /\ UNCHANGED <<fields, visible, calling, locks, foreground, alive, starts>>

(* onResume and onPause of the activity. *)
Visibility ==
  /\ visible' = ~visible
  /\ UNCHANGED <<fields, calling, locks, foreground, system>>

Next ==
  \/ RequestStop
  \/ RequestStart
  \/ StartReturns
  \/ StartTimesOut
  \/ \E on \in BOOLEAN : RequestActive(on)
  \/ OnStartCommand
  \/ OnTimeout
  \/ OnDestroy
  \/ SystemStops
  \/ Visibility

(* The main thread goes on. *)
Spec == Init /\ [][Next]_vars
FairSpec == Spec /\ WF_vars(OnStartCommand) /\ WF_vars(OnDestroy)
-----------------------------------------------------------------------------
Messages == [kind : {"start"}, obj : 1..MaxStarts, gen : Nat]
            \union [kind : {"destroy"}, obj : 1..MaxStarts]

(* Types of the companion's fields and of the system's state. *)
TypeOK ==
  /\ {wanted, ready, failed, visible, calling} \subseteq BOOLEAN
  /\ generation \in Nat
  /\ {instance, alive, record} \subseteq 0..MaxStarts
  /\ latch \in {"none", "up", "down"}
  /\ locks \subseteq 1..MaxStarts /\ foreground \subseteq 1..MaxStarts
  /\ mailbox \in Seq(Messages)
  /\ starts \in 0..MaxStarts

(* The service promises what the queue assumes, although an object may be  *)
(* created after its start has timed out, destroyed after the next one was *)
(* started, or timed out by the system while a new start is under way.     *)
Guard == INSTANCE Protection WITH
  protection <- IF ~wanted \/ failed THEN "off"
                ELSE IF ready THEN "on" ELSE "starting",
  cpu        <- locks # {}

ImplementsProtection == Guard!Spec

(* A wake lock and a foreground notification belong to the instance that   *)
(* is ready: none is left behind by a failure, a stop or a late callback.  *)
NothingLeftBehind ==
  /\ locks \subseteq foreground
  /\ foreground \subseteq {instance}
  /\ foreground # {} => wanted /\ ready

(* When the service is no longer wanted its objects are destroyed, unless  *)
(* it is wanted again. *)
ObjectsEnd == ~wanted ~> (wanted \/ (alive = 0 /\ mailbox = <<>>))
=============================================================================
