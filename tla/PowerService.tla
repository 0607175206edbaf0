---------------------------- MODULE PowerService ----------------------------
(***************************************************************************)
(* The Android service that protects playback and sync from sleep:         *)
(* android/kotlin/com/tuneforge/desktop/PowerInhibitionService.kt and the  *)
(* screen flag of MainActivity.kt.  The Rust runtime calls request() from  *)
(* a native thread, one call at a time; everything else happens on the     *)
(* main thread, in the order of its mailbox.  A step is one synchronized   *)
(* method, or what one thread does between two reads that the other thread *)
(* can spoil.  A mask of reasons is a set of reasons.                      *)
(*                                                                         *)
(* The system is external: its service record, the order in which it       *)
(* creates and destroys service objects, and activities that come and go.  *)
(* The permission for notifications is left out.                           *)
(***************************************************************************)
EXTENDS Naturals, Sequences, FiniteSets

CONSTANTS
  Requests,       \* the sets of reasons that are requested
  MaxRequests,    \* bound: how many requests are made
  MaxObjects,     \* bound: how many service objects the system creates
  MaxActivities   \* bound: how many activities the system creates

Screen  == {"playback", "transfer", "tuner"}      \* SCREEN_REASON_MASK
Service == {"playback", "listener", "transfer"}   \* SERVICE_REASON_MASK
Partial == {"listener", "transfer"}               \* PARTIAL_WAKE_REASON_MASK

ASSUME PowerAssumption ==
  /\ Requests \subseteq SUBSET (Screen \union Service)
  /\ MaxRequests \in Nat /\ MaxObjects \in Nat /\ MaxActivities \in Nat

VARIABLES
  desired,          \* desiredMask, and with it its service and screen parts
  confirmed,        \* confirmedServiceMask
  shown,            \* confirmedScreenMask
  lastFailure,      \* "none", "timeout" or "control"
  revision,         \* serviceOwnershipRevision
  screenRevision,   \* screenProtectionRevision
  instance,         \* the companion's service object, 0 for null
  mask,             \* reasonMask of each object
  locks,            \* the objects whose wake lock is held and renewed
  activity,         \* the attached activity, 0 for none
  keepScreenOn,     \* the activities whose window has the flag
  caller,           \* the native thread: its place in request()
  main,             \* the main thread: its place in a method
  mailbox,          \* what the main thread is still to be told
  record,           \* the object of the system's service record, 0 for none
  foreground,       \* the objects in the foreground
  asked,            \* history: the reasons of the last request
  objects, activities, requests   \* counters

companion == <<desired, confirmed, shown, lastFailure, revision, screenRevision>>
service   == <<mask, locks, foreground>>
system    == <<mailbox, record, objects>>
window    == <<activity, keepScreenOn, activities>>
vars == <<companion, instance, service, system, window, caller, main, asked, requests>>

Objects    == 1..MaxObjects
Activities == 1..MaxActivities
Idle == [pc |-> "idle"]

Init ==
  /\ desired = {} /\ confirmed = {} /\ shown = {}
  /\ lastFailure = "none" /\ revision = 0 /\ screenRevision = 0
  /\ instance = 0 /\ mask = [o \in Objects |-> {}] /\ locks = {}
  /\ activity = 0 /\ keepScreenOn = {} /\ activities = 0
  /\ caller = Idle /\ main = Idle
  /\ mailbox = <<>> /\ record = 0 /\ foreground = {} /\ objects = 0
  /\ asked = {} /\ requests = 0

-----------------------------------------------------------------------------
Message(k, o) == [kind |-> k, of |-> o]
ScreenPost(r) == [kind |-> "screen", of |-> activity, rev |-> r]

(* Bug: the post carries the revision of before the transition. *)
PostEarlierRevision(box) == IF activity = 0 THEN box ELSE Append(box, ScreenPost(screenRevision))

(* activity.get()?.applyTuneForgeScreenProtection(revision) *)
PostScreen(box) == IF activity = 0 THEN box ELSE Append(box, ScreenPost(screenRevision'))

(* transitionDesiredState to the reasons R; the main thread has box. *)
Transition(R, box) ==
  /\ desired' = R
  /\ revision' = revision + 1
  /\ screenRevision' = screenRevision + 1
  /\ mailbox' = PostScreen(box)

(* desiredServiceState, and the state a transition to R returns. *)
Attempt(R, r) == [mask |-> R \intersect Service, rev |-> r]

(* Bug: the service is told of reasons that are for the screen only. *)
AllReasons == [mask |-> desired, rev |-> revision]
DesiredServiceState == Attempt(desired, revision)

(* Bug: the failure of an attempt that is over clears the reasons. *)
RecordAnyFailure(a, c, box) ==
  /\ Transition(desired \ Service, box)
  /\ confirmed' = {} /\ lastFailure' = "control"

(* recordPowerControlFailure: only the latest attempt counts; another one  *)
(* leaves c confirmed. *)
RecordFailure(a, c, box) ==
  IF a = DesiredServiceState
  THEN /\ Transition(desired \ Service, box)
       /\ confirmed' = {} /\ lastFailure' = "control"
  ELSE /\ mailbox' = box /\ confirmed' = c
       /\ UNCHANGED <<desired, revision, screenRevision, lastFailure>>

(* startForegroundService: the system creates an object for a new record;  *)
(* it may refuse, from the background. *)
Launch(a, box) ==
  \/ LET o == IF record = 0 THEN objects + 1 ELSE record
         news == IF record = 0 THEN <<Message("create", o)>> ELSE <<>>
     IN /\ o \in Objects
        /\ record' = o
        /\ objects' = IF record = 0 THEN objects + 1 ELSE objects
        /\ mailbox' = box \o news \o <<Message("start", o)>>
        /\ UNCHANGED <<desired, revision, screenRevision, confirmed, lastFailure>>
  \/ RecordFailure(a, confirmed, box) /\ UNCHANGED <<record, objects>>

(* stopSelf: the system destroys the object, unless its record is gone. *)
StopSelf(o, box) ==
  IF record = o
  THEN record' = 0 /\ mailbox' = Append(box, Message("destroy", o))
  ELSE mailbox' = box /\ UNCHANGED record

-----------------------------------------------------------------------------
(* request(), on the native thread.                                        *)

RequestBegin(R) ==
  /\ caller = Idle /\ requests < MaxRequests
  /\ requests' = requests + 1
  /\ asked' = R
  /\ Transition(R, mailbox)
  /\ caller' = [pc |-> "read", prev |-> desired \intersect Service,
                attempt |-> Attempt(R, revision')]
  /\ UNCHANGED <<confirmed, shown, lastFailure, instance, service, record,
                 objects, window, main>>

(* The failure of an earlier request is forgotten, a timeout only when the *)
(* transfer is new or over; then the companion's instance is read.         *)
RequestRead ==
  /\ caller.pc = "read"
  /\ lastFailure' =
       IF \/ lastFailure = "control"
          \/ lastFailure = "timeout"
             /\ "transfer" \notin caller.attempt.mask \intersect caller.prev
       THEN "none" ELSE lastFailure
  /\ caller' = [pc |-> "act", attempt |-> caller.attempt, existing |-> instance]
  /\ UNCHANGED <<desired, confirmed, shown, revision, screenRevision, instance,
                 service, system, window, main, asked, requests>>

(* An existing object is told to apply the reasons; else it is launched. *)
RequestAct ==
  /\ caller.pc = "act"
  /\ \/ /\ caller.existing # 0
        /\ mailbox' = Append(mailbox, Message("apply", caller.existing))
        /\ UNCHANGED <<desired, confirmed, lastFailure, revision, screenRevision,
                       record, objects>>
     \/ /\ caller.existing = 0 /\ caller.attempt.mask = {}
        /\ confirmed' = {}
        /\ UNCHANGED <<desired, lastFailure, revision, screenRevision, system>>
     \/ /\ caller.existing = 0 /\ caller.attempt.mask # {}
        /\ Launch(caller.attempt, mailbox)
  /\ caller' = Idle
  /\ UNCHANGED <<shown, instance, service, window, main, asked, requests>>

-----------------------------------------------------------------------------
(* The main thread.                                                        *)

Deliver(kind) == main = Idle /\ mailbox # <<>> /\ Head(mailbox).kind = kind

OnCreate ==
  /\ Deliver("create")
  /\ instance' = Head(mailbox).of
  /\ mailbox' = Tail(mailbox)
  /\ UNCHANGED <<companion, service, record, objects, window, caller, main,
                 asked, requests>>

(* onStartCommand and applyOnMainThread read the desired state, whatever   *)
(* the intent or the request asked for... *)
ApplyRead ==
  /\ Deliver("start") \/ Deliver("apply")
  /\ main' = [pc |-> "apply", of |-> Head(mailbox).of,
              attempt |-> DesiredServiceState]
  /\ mailbox' = Tail(mailbox)
  /\ UNCHANGED <<companion, instance, service, record, objects, window,
                 caller, asked, requests>>

HoldWakeLock(o, R) ==
  locks' = IF R \intersect Partial # {} THEN locks \union {o} ELSE locks \ {o}

(* ...and applyReasons applies it.  startForeground may throw; it does     *)
(* nothing for an object that the system has no record of.                 *)
ApplyWrite ==
  /\ main.pc = "apply"
  /\ LET o == main.of
         R == main.attempt.mask
     IN \/ /\ mask' = [mask EXCEPT ![o] = R]
           /\ confirmed' = R
           /\ HoldWakeLock(o, R)
           /\ IF R = {}
              THEN foreground' = foreground \ {o} /\ StopSelf(o, mailbox)
              ELSE /\ foreground' = foreground \union ({o} \intersect {record})
                   /\ UNCHANGED <<mailbox, record>>
           /\ UNCHANGED <<desired, revision, screenRevision, lastFailure>>
        \/ /\ R # {} /\ record = o
           /\ locks' = locks \ {o}
           /\ mask' = [mask EXCEPT ![o] = {}]
           /\ foreground' = foreground \ {o}
           /\ record' = 0
           /\ RecordFailure(main.attempt, R, Append(mailbox, Message("destroy", o)))
  /\ main' = Idle
  /\ UNCHANGED <<shown, instance, objects, window, caller, asked, requests>>

(* onDestroy: everything of the object is released... *)
OnDestroy ==
  /\ Deliver("destroy")
  /\ LET o == Head(mailbox).of
     IN /\ locks' = locks \ {o} /\ foreground' = foreground \ {o}
        /\ mask' = [mask EXCEPT ![o] = {}]
  /\ confirmed' = {} /\ instance' = 0
  /\ mailbox' = Tail(mailbox)
  /\ main' = [pc |-> "destroyed"]
  /\ UNCHANGED <<desired, shown, lastFailure, revision, screenRevision, record,
                 objects, window, caller, asked, requests>>

(* Bug: reasons requested while the object was ending are forgotten. *)
NeverRelaunch ==
  /\ main.pc = "destroyed"
  /\ main' = Idle
  /\ UNCHANGED <<companion, instance, service, system, window, caller, asked, requests>>

(* ...and reasons that were requested meanwhile launch the next object.    *)
Relaunch ==
  /\ main.pc = "destroyed"
  /\ \/ /\ desired \intersect Service # {}
        /\ Launch(DesiredServiceState, mailbox)
     \/ /\ desired \intersect Service = {}
        /\ UNCHANGED <<desired, confirmed, lastFailure, revision, screenRevision,
                       system>>
  /\ main' = Idle
  /\ UNCHANGED <<shown, instance, service, window, caller, asked, requests>>

(* onTimeout: Android 15 ends the foreground time of a transfer. *)
OnTimeout ==
  /\ main = Idle
  /\ record # 0 /\ record \in foreground /\ "transfer" \in mask[record]
  /\ LET o == record
         \* stopSelf(startId) does not stop a service that was started again
         again == \E i \in DOMAIN mailbox : mailbox[i] = Message("start", o)
         box   == IF again THEN mailbox ELSE Append(mailbox, Message("destroy", o))
     IN /\ Transition(desired \ {"transfer"}, box)
        /\ record' = IF again THEN record ELSE 0
        /\ lastFailure' = "timeout" /\ confirmed' = {}
        /\ locks' = locks \ {o} /\ foreground' = foreground \ {o}
        /\ mask' = [mask EXCEPT ![o] = {}]
  /\ UNCHANGED <<shown, instance, objects, window, caller, main, asked, requests>>

-----------------------------------------------------------------------------
(* The activity and its window.                                            *)

(* An activity is attached as it is created, in the place of one that is   *)
(* still there; the later end of that one does not detach the new one.     *)
AttachActivity ==
  /\ main = Idle /\ activities < MaxActivities
  /\ activities' = activities + 1
  /\ activity' = activities'
  /\ shown' = {}
  /\ screenRevision' = screenRevision + 1
  /\ mailbox' = Append(mailbox,
       [kind |-> "screen", of |-> activities', rev |-> screenRevision'])
  /\ UNCHANGED <<desired, confirmed, lastFailure, revision, instance, service,
                 record, objects, keepScreenOn, caller, main, asked, requests>>

DetachActivity ==
  /\ main = Idle /\ activity # 0
  /\ activity' = 0 /\ shown' = {}
  /\ screenRevision' = screenRevision + 1
  /\ UNCHANGED <<desired, confirmed, lastFailure, revision, instance, service,
                 system, keepScreenOn, activities, caller, main, asked, requests>>

(* applyTuneForgeScreenProtection, unless its revision is stale: the flag  *)
(* follows the reasons that are desired now... *)
Show ==
  /\ Deliver("screen")
  /\ LET m == Head(mailbox)
     IN IF m.of # activity \/ m.rev # screenRevision
        THEN UNCHANGED <<keepScreenOn, main>>
        ELSE /\ keepScreenOn' = IF desired \intersect Screen # {}
                                THEN keepScreenOn \union {m.of}
                                ELSE keepScreenOn \ {m.of}
             /\ main' = [pc |-> "shown", of |-> m.of, rev |-> m.rev,
                         mask |-> desired \intersect Screen]
  /\ mailbox' = Tail(mailbox)
  /\ UNCHANGED <<companion, instance, service, record, objects, activity,
                 activities, caller, asked, requests>>

(* ...and is confirmed if they are still the same. *)
ConfirmScreenProtection ==
  /\ main.pc = "shown"
  /\ shown' = IF /\ main.of = activity /\ main.rev = screenRevision
                 /\ main.mask = desired \intersect Screen
              THEN main.mask ELSE shown
  /\ main' = Idle
  /\ UNCHANGED <<desired, confirmed, lastFailure, revision, screenRevision,
                 instance, service, system, window, caller, asked, requests>>

-----------------------------------------------------------------------------
Next ==
  \/ \E R \in Requests : RequestBegin(R)
  \/ RequestRead
  \/ RequestAct
  \/ OnCreate
  \/ ApplyRead
  \/ ApplyWrite
  \/ OnDestroy
  \/ Relaunch
  \/ OnTimeout
  \/ AttachActivity
  \/ DetachActivity
  \/ Show
  \/ ConfirmScreenProtection

Spec == Init /\ [][Next]_vars
-----------------------------------------------------------------------------
TypeOK ==
  /\ {desired, confirmed, shown} \subseteq SUBSET (Screen \union Service)
  /\ confirmed \subseteq Service /\ shown \subseteq Screen
  /\ lastFailure \in {"none", "timeout", "control"}
  /\ {revision, screenRevision, requests} \subseteq Nat
  /\ {instance, record, objects} \subseteq {0} \union Objects
  /\ mask \in [Objects -> SUBSET Service]
  /\ locks \subseteq Objects /\ foreground \subseteq Objects
  /\ {activity, activities} \subseteq {0} \union Activities
  /\ keepScreenOn \subseteq Activities
  /\ caller.pc \in {"idle", "read", "act"}
  /\ main.pc \in {"idle", "apply", "destroyed", "shown"}

(* Nothing is under way: no call, no method, no message. *)
Quiet == caller = Idle /\ main = Idle /\ mailbox = <<>>

(* What was asked for is what the service protects, once nothing is under  *)
(* way: no request is lost while objects end and begin, and no reasons are *)
(* left behind by a stale intent.  A failure or a timeout may take reasons *)
(* away until the next request.  When nothing is wanted and the service is *)
(* gone, an object that applies after its onDestroy may still have its own *)
(* older reasons confirmed: the lack of a lock that the run power_leak     *)
(* shows.                                                                  *)
Settles ==
  Quiet /\ desired = asked =>
    LET R == desired \intersect Service
        ByDestroyed == \E o \in Objects \ {instance} : mask[o] = confirmed
    IN /\ confirmed = R \/ (R = {} /\ ByDestroyed)
       /\ R = {} => instance = 0 /\ record = 0 /\ foreground = {}
       /\ R # {} => /\ instance # 0 /\ record = instance
                    /\ foreground = {instance} /\ mask[instance] = R
                    /\ (instance \in locks) <=> (R \intersect Partial # {})

(* The window of the attached activity keeps the screen on exactly for the *)
(* desired reasons, and no confirmation stands for others, once no post to *)
(* the window is under way: a post that is overtaken has a successor.      *)
ScreenFollows ==
  /\ activity # 0 /\ main.pc # "shown"
  /\ \A i \in DOMAIN mailbox : mailbox[i].kind # "screen"
  => /\ shown = desired \intersect Screen
     /\ (activity \in keepScreenOn) <=> (shown # {})

(* A failure to apply reasons that a newer request has replaced takes      *)
(* nothing away from that request.                                         *)
NewerRequestKept ==
  [][ main.pc = "apply" /\ main' = Idle /\ main.attempt.rev < revision
        => desired' = desired ]_vars

(* docs/POWER_PROTECTION.md:23 says that shared protection releases after  *)
(* the final owner exits: when the last request is for nothing and nothing *)
(* is under way, no wake lock is held. *)
ReleasesAfterFinalOwner ==
  Quiet /\ asked \intersect Service = {} => locks = {}
=============================================================================
