----------------------- MODULE ResultRevisions_proofs -----------------------
(***************************************************************************)
(* Proofs about the revisions of a result, for any devices, clocks and     *)
(* bounds: what a device shows, what it knows of the bases of a revision,  *)
(* and that a stale replay changes nothing; and, for two devices, that     *)
(* what is current stays until there is another.                           *)
(***************************************************************************)
EXTENDS ResultRevisions, TLAPS

(* A revision lists itself and revisions that exist.  The line of one of   *)
(* them is a part of it, and of two of them one is on the other's line.    *)
LineInv ==
  /\ DOMAIN revision \subseteq Ids
  /\ \A id \in DOMAIN revision :
       /\ Content(id) \in Contents
       /\ id \in Line(id) /\ Line(id) \subseteq DOMAIN revision
       /\ \A x \in Line(id) : Line(x) \subseteq Line(id)
       /\ \A x \in Line(id), y \in Line(id) : x \in Line(y) \/ y \in Line(x)

(* A device and a manifest are sets of revisions in a state each, and hold *)
(* the bases of every revision that they hold, but for some that failed.   *)
IsMap(s) == s = [id \in DOMAIN s |-> s[id]]

Closed(s, lost) ==
  /\ IsMap(s) /\ DOMAIN s \subseteq DOMAIN revision
  /\ \A id \in DOMAIN s : s[id] \in States /\ Line(id) \subseteq DOMAIN s \cup lost

DeviceInv ==
  /\ state = [d \in Devices |-> state[d]]
  /\ row \in [Devices -> Contents \cup {NoResult}]
  /\ \A d \in Devices : Closed(state[d], failed[d])

ManifestInv ==
  /\ manifest = [p \in Pairs |-> manifest[p]]
  /\ \A p \in Pairs : /\ Closed(manifest[p], failed[p[1]])
                       /\ DOMAIN manifest[p] \subseteq DOMAIN state[p[1]]

(* The bases of a planned revision are known or planned, or failed. *)
TodoInv ==
  /\ todo = [d \in Devices |-> todo[d]]
  /\ \A d \in Devices :
       /\ todo[d] \subseteq [id : DOMAIN revision, state : States]
       /\ \A a \in todo[d] :
            Line(a.id) \subseteq DOMAIN state[d] \cup failed[d] \cup {b.id : b \in todo[d]}

FailedInv ==
  /\ failed = [d \in Devices |-> failed[d]]
  /\ \A d \in Devices : failed[d] \subseteq DOMAIN revision

(* One revision is current at most. *)
OneAtMost(ids) == ids = {} \/ \E id \in ids : ids = {id}
OneCurrent     == \A d \in Devices : OneAtMost(Active(state[d]))

(* An export has found one current revision at most. *)
ExportInv ==
  /\ export = [d \in Devices |-> export[d]]
  /\ \A d \in Devices : /\ export[d].at \in {"idle", "select", "write", "list"}
                         /\ export[d].found \subseteq DOMAIN state[d]
                         /\ OneAtMost(export[d].found)

IInv ==
  /\ LineInv /\ DeviceInv /\ ManifestInv /\ TodoInv
  /\ FailedInv /\ OneCurrent /\ ExportInv
  /\ faults \in 0..MaxFaults

-----------------------------------------------------------------------------
(* The last-writer-wins key.                                               *)

(* Of two different keys one is newer, and the newest of two is found.     *)
LEMMA NewerTotal ==
  ASSUME NEW x \in Ids, NEW y \in Ids
  PROVE  /\ x # y => Newer(x, y) \/ Newer(y, x)
         /\ ~(Newer(x, y) /\ Newer(y, x))
<1>1. x.at \in Nat /\ x.by \in Nat /\ y.at \in Nat /\ y.by \in Nat
  BY DevicesAndTimes DEF Ids
<1>2. x # y => x.at # y.at \/ x.by # y.by
  BY DEF Ids
<1> QED BY <1>1, <1>2 DEF Newer

(* The newest of one and of two revisions. *)
LEMMA WinnerOfOne == ASSUME NEW x PROVE Winner({x}) = x
  BY DEF Winner

(* The newest of two is one of them, and none is newer. *)
LEMMA WinnerOfTwo ==
  ASSUME NEW x \in Ids, NEW y \in Ids
  PROVE  /\ Winner({x, y}) \in {x, y}
         /\ Winner({x, y}) = x \/ Newer(Winner({x, y}), x)
<1>1. \E z \in {x, y} : \A w \in {x, y} \ {z} : Newer(z, w)
  BY NewerTotal
<1>2. /\ Winner({x, y}) \in {x, y}
      /\ \A w \in {x, y} \ {Winner({x, y})} : Newer(Winner({x, y}), w)
  BY <1>1 DEF Winner
<1> QED BY <1>2

(* What With and Supersede do to the states of revisions. *)
LEMMA WithFacts ==
  ASSUME NEW f, NEW x, NEW v
  PROVE  /\ DOMAIN With(f, x, v) = DOMAIN f \cup {x}
         /\ With(f, x, v)[x] = v
         /\ \A y \in DOMAIN f \ {x} : With(f, x, v)[y] = f[y]
  BY DEF With

(* Superseding all and making one active leaves this one active. *)
LEMMA SupersedeFacts ==
  ASSUME NEW s, NEW x
  PROVE  /\ Active(With(Supersede(s), x, "active")) = {x}
         /\ DOMAIN With(Supersede(s), x, "active") = DOMAIN s \cup {x}
         /\ \A y \in DOMAIN s \cup {x} : With(Supersede(s), x, "active")[y] \in States
  BY DEF With, Supersede, Active, States

(* Settling leaves the newest active revision active.  Among two at most   *)
(* it is one of them, and no known revision is lost or added.              *)
LEMMA SettleFacts ==
  ASSUME NEW s, NEW x \in Ids, NEW y \in Ids, Active(s) \subseteq {x, y},
         \A id \in DOMAIN s : s[id] \in States
  PROVE  /\ DOMAIN Settle(s) = DOMAIN s
         /\ \A id \in DOMAIN s : Settle(s)[id] \in States
         /\ Active(s) = {} => Settle(s) = s
         /\ Active(s) # {} => /\ Winner(Active(s)) \in Active(s)
                              /\ Active(Settle(s)) = {Winner(Active(s))}
<1>1. CASE Active(s) = {}
  BY <1>1 DEF Settle
<1>2. CASE Active(s) # {}
  <2>1. Active(s) = {x} \/ Active(s) = {y} \/ Active(s) = {x, y}
    BY <1>2
  <2>2. Winner(Active(s)) \in Active(s)
    BY <2>1, WinnerOfOne, WinnerOfTwo
  <2>3. Settle(s) = With(Supersede(s), Winner(Active(s)), "active")
    BY <1>2 DEF Settle
  <2>4. Winner(Active(s)) \in DOMAIN s
    BY <2>2 DEF Active
  <2>5. DOMAIN s \cup {Winner(Active(s))} = DOMAIN s
    BY <2>4
  <2> QED BY <1>2, <2>2, <2>3, <2>5, SupersedeFacts
<1> QED BY <1>1, <1>2

(* Settling and adding give a state to each revision. *)
LEMMA MapFacts ==
  ASSUME NEW s, NEW x, NEW v
  PROVE  IsMap(With(s, x, v)) /\ (IsMap(s) => IsMap(Settle(s)))
<1>1. \A t, y, w : IsMap(With(t, y, w))
  BY DEF IsMap, With
<1> QED BY <1>1 DEF Settle

(* What a device has current is one revision at most. *)
LEMMA CurrentFacts ==
  ASSUME LineInv, DeviceInv, OneCurrent, NEW d \in Devices
  PROVE  /\ Closed(state[d], failed[d]) /\ row[d] \in Contents \cup {NoResult}
         /\ \/ Active(state[d]) = {}
            \/ \E id \in Ids : /\ Active(state[d]) = {id} /\ id \in DOMAIN state[d]
                              /\ Winner(Active(state[d])) = id
<1>1. Closed(state[d], failed[d]) /\ row[d] \in Contents \cup {NoResult}
  BY DEF DeviceInv
<1>2. CASE Active(state[d]) # {}
  <2>1. PICK id \in Active(state[d]) : Active(state[d]) = {id}
    BY <1>2 DEF OneCurrent, OneAtMost
  <2>2. id \in DOMAIN state[d] /\ id \in Ids
    BY <1>1, <2>1 DEF Active, Closed, LineInv
  <2> QED BY <1>1, <2>1, <2>2, WinnerOfOne
<1> QED BY <1>1, <1>2

(* What Write does. *)
LEMMA WriteFacts ==
  ASSUME IInv, NEW d \in Devices, Write(d)
  PROVE  \E id \in Ids, c \in Contents :
           /\ id \notin DOMAIN revision /\ id.by = d
           /\ DOMAIN revision' = DOMAIN revision \cup {id}
           /\ \A x \in DOMAIN revision : revision'[x] = revision[x]
           /\ Content(id)' = c /\ Line(id)' \subseteq DOMAIN state[d] \cup failed[d] \cup {id}
           /\ id \in Line(id)' /\ \A x \in Line(id)' \ {id} : Line(x) \subseteq Line(id)'
           /\ \A x \in Line(id)' \ {id}, y \in Line(id)' \ {id} : x \in Line(y) \/ y \in Line(x)
           /\ state' = [state EXCEPT ![d] = With(Supersede(@), id, "active")]
           /\ row' = [row EXCEPT ![d] = c]
           /\ UNCHANGED <<manifest, todo, export, failed, faults>>
<1>1. PICK t \in Times, c \in Contents,
           line \in IF state[d] = Empty THEN {{}} ELSE {Line(b) : b \in Bases(state[d])} :
         LET id == [at |-> t, by |-> d]
         IN /\ ClockMayRead(d, t)
            /\ revision' = With(revision, id, [line |-> line \cup {id}, content |-> c])
            /\ state' = [state EXCEPT ![d] = With(Supersede(@), id, "active")]
            /\ row' = [row EXCEPT ![d] = c]
  BY DEF Write
<1>0. UNCHANGED <<manifest, todo, export, failed, faults>>
  BY DEF Write
<1> DEFINE id == [at |-> t, by |-> d]
<1>2. id \in Ids /\ id.by = d /\ id.at = t /\ t \in Nat
  BY DevicesAndTimes DEF Ids
<1>3. id \notin DOMAIN revision
  BY <1>1, <1>2 DEF ClockMayRead
<1>4. /\ line \subseteq DOMAIN state[d] \cup failed[d]
      /\ \A x \in line : x \in DOMAIN revision /\ Line(x) \subseteq line
      /\ \A x \in line, y \in line : x \in Line(y) \/ y \in Line(x)
  <2>1. CASE line = {}
    BY <2>1
  <2>2. CASE line # {}
    <3>1. PICK b \in Bases(state[d]) : line = Line(b)
      BY <1>1, <2>2
    <3>2. b \in DOMAIN state[d]
      BY <3>1 DEF Bases, Active
    <3> QED BY <3>1, <3>2 DEF IInv, DeviceInv, Closed, LineInv
  <2> QED BY <2>1, <2>2
<1>5. revision' = With(revision, id, [line |-> line \cup {id}, content |-> c])
  BY <1>1
<1> HIDE DEF id
<1>6. /\ DOMAIN revision' = DOMAIN revision \cup {id}
      /\ \A x \in DOMAIN revision : revision'[x] = revision[x]
      /\ revision'[id] = [line |-> line \cup {id}, content |-> c]
  <2> DEFINE new == [line |-> line \cup {id}, content |-> c]
  <2>1. revision' = With(revision, id, new)
    BY <1>5
  <2> HIDE DEF new
  <2>2. \A x \in DOMAIN revision : x \in DOMAIN revision \ {id}
    BY <1>3
  <2>3. /\ DOMAIN revision' = DOMAIN revision \cup {id} /\ revision'[id] = new
        /\ \A x \in DOMAIN revision \ {id} : revision'[x] = revision[x]
    <3>1. revision' = [y \in DOMAIN revision \cup {id} |-> IF y = id THEN new ELSE revision[y]]
      BY <2>1 DEF With
    <3> QED BY <3>1
  <2> QED BY <2>2, <2>3 DEF new
<1>7. revision'[id].content = c /\ revision'[id].line = line \cup {id}
  BY <1>6
<1>8. Line(id)' = line \cup {id} /\ Content(id)' = c
  BY <1>7 DEF Line, Content
<1> QED BY <1>0, <1>1, <1>2, <1>3, <1>4, <1>6, <1>8 DEF id

(* The import of the action a at e, where no revision but x was current:   *)
(* s is what it settles.                                                   *)
Imports(e, a, x, s) ==
  /\ s = With(state[e], a.id, a.state)
  /\ a.id \in DOMAIN revision /\ a.state \in States
  /\ Line(a.id) \subseteq DOMAIN s \cup failed[e] /\ DOMAIN s = DOMAIN state[e] \cup {a.id}
  /\ \A id \in DOMAIN s : s[id] \in States
  /\ Active(state[e]) \subseteq {x} /\ Active(s) \subseteq {x, a.id}
  /\ state' = [state EXCEPT ![e] = Settle(s)]
  /\ row' = [row EXCEPT ![e] = RowOf(s, row[e])]
  /\ todo' = [todo EXCEPT ![e] = @ \ {a}]
  /\ UNCHANGED <<revision, manifest, export, failed, faults>>

(* What ImportNext does. *)
LEMMA ImportFacts ==
  ASSUME IInv, NEW e \in Devices, ImportNext(e)
  PROVE  \E a \in todo[e], x \in Ids : \E s : Imports(e, a, x, s)
<1>0. LineInv /\ DeviceInv /\ TodoInv /\ OneCurrent
  BY DEF IInv
<1>1. PICK a \in todo[e] :
         /\ BasesApplied(e, a)
         /\ state' = [state EXCEPT ![e] = Settle(With(state[e], a.id, a.state))]
         /\ row' = [row EXCEPT ![e] = RowOf(With(state[e], a.id, a.state), row[e])]
         /\ todo' = [todo EXCEPT ![e] = @ \ {a}]
  <2>1. /\ row = [d \in Devices |-> row[d]] /\ state = [d \in Devices |-> state[d]]
    BY <1>0 DEF DeviceInv
  <2> QED BY <2>1 DEF ImportNext
<1>2. a.id \in DOMAIN revision /\ a.state \in States
  BY <1>0, <1>1 DEF TodoInv
<1> DEFINE s == With(state[e], a.id, a.state)
<1>3. DOMAIN s = DOMAIN state[e] \cup {a.id} /\ s[a.id] = a.state
      /\ \A y \in DOMAIN state[e] \ {a.id} : s[y] = state[e][y]
  <2>1. s = [y \in DOMAIN state[e] \cup {a.id} |-> IF y = a.id THEN a.state ELSE state[e][y]]
    BY DEF With
  <2> HIDE DEF s
  <2> QED BY <2>1
<1>4. Closed(state[e], failed[e])
  BY <1>0 DEF DeviceInv
<1>5. Line(a.id) \subseteq DOMAIN s \cup failed[e]
  <2>1. Line(a.id) \subseteq DOMAIN state[e] \cup failed[e] \cup {b.id : b \in todo[e]}
    BY <1>0, <1>1 DEF TodoInv
  <2>2. \A b \in todo[e] : b.id \in Line(a.id) => b.id = a.id
    BY <1>1 DEF BasesApplied
  <2> QED BY <1>3, <2>1, <2>2
<1>6. \A id \in DOMAIN s : s[id] \in States
  BY <1>2, <1>3, <1>4 DEF Closed
<1>7. PICK x \in Ids : Active(state[e]) \subseteq {x}
  <2>1. a.id \in Ids
    BY <1>0, <1>2 DEF LineInv
  <2> QED BY <1>0, <2>1, CurrentFacts
<1>8. Active(s) \subseteq {x, a.id}
  BY <1>3, <1>7 DEF Active
<1>9. UNCHANGED <<revision, manifest, export, failed, faults>>
  BY DEF ImportNext
<1>10. /\ s = With(state[e], a.id, a.state)
       /\ state' = [state EXCEPT ![e] = Settle(s)] /\ row' = [row EXCEPT ![e] = RowOf(s, row[e])]
  BY <1>1
<1> HIDE DEF s
<1>11. Imports(e, a, x, s)
  BY <1>1, <1>2, <1>3, <1>5, <1>6, <1>7, <1>8, <1>9, <1>10 DEF Imports
<1> QED BY <1>1, <1>11

-----------------------------------------------------------------------------
(* The invariants.                                                         *)

(* No revision is changed or lost, and what failed is remembered. *)
Extends ==
  /\ DOMAIN revision \subseteq DOMAIN revision'
  /\ \A x \in DOMAIN revision : revision'[x] = revision[x]
  /\ \A d \in Devices : failed[d] \subseteq failed'[d]

(* No device forgets a revision. *)
Grows == \A d \in Devices : DOMAIN state[d] \subseteq DOMAIN state'[d]

(* A closed set of revisions stays closed. *)
LEMMA KeptClosed ==
  ASSUME Extends, NEW s, NEW d \in Devices, Closed(s, failed[d])
  PROVE  /\ DOMAIN s \subseteq DOMAIN revision'
         /\ \A id \in DOMAIN s : s[id] \in States /\ Line(id)' \subseteq DOMAIN s \cup failed'[d]
         /\ IsMap(s)
  BY DEF Closed, Extends, Line

(* A step that changes the state s and the row r of the device d. *)
LEMMA DeviceStep ==
  ASSUME IInv, Extends, NEW d \in Devices, NEW s, NEW r \in Contents \cup {NoResult},
         state' = [state EXCEPT ![d] = s], row' = [row EXCEPT ![d] = r],
         DOMAIN state[d] \subseteq DOMAIN s, DOMAIN s \subseteq DOMAIN revision',
         \A id \in DOMAIN s : s[id] \in States /\ Line(id)' \subseteq DOMAIN s \cup failed'[d],
         IsMap(s), OneAtMost(Active(s))
  PROVE  DeviceInv' /\ OneCurrent' /\ Grows
<1>0. /\ DeviceInv /\ OneCurrent
      /\ state = [x \in Devices |-> state[x]] /\ row \in [Devices -> Contents \cup {NoResult}]
  BY DEF IInv, DeviceInv
<1>1. state'[d] = s /\ row'[d] = r
  BY <1>0
<1>2. \A x \in Devices \ {d} : state'[x] = state[x] /\ row'[x] = row[x]
  BY <1>0
<1>3. state' = [x \in Devices |-> state'[x]] /\ row' \in [Devices -> Contents \cup {NoResult}]
  BY <1>0
<1>4. ASSUME NEW x \in Devices \ {d} PROVE Closed(state[x], failed[x])'
  <2>1. Closed(state[x], failed[x]) /\ state'[x] = state[x]
    BY <1>0, <1>2 DEF DeviceInv
  <2> QED BY <2>1, KeptClosed DEF Closed
<1>5. Closed(state[d], failed[d])'
  BY <1>1 DEF Closed
<1>6. DeviceInv'
  BY <1>3, <1>4, <1>5 DEF DeviceInv
<1>7. OneCurrent'
  <2>1. ASSUME NEW x \in Devices PROVE OneAtMost(Active(state[x]))'
    <3>1. OneAtMost(Active(state'[x]))
      BY <1>0, <1>1, <1>2 DEF OneCurrent
    <3> QED BY <3>1 DEF OneAtMost, Active
  <2> QED BY <2>1 DEF OneCurrent
<1>8. Grows
  BY <1>1, <1>2 DEF Grows
<1> QED BY <1>6, <1>7, <1>8

(* A step that leaves the manifests alone. *)
LEMMA KeptManifests ==
  ASSUME ManifestInv, Extends, Grows, UNCHANGED manifest
  PROVE  ManifestInv'
<1>1. ASSUME NEW p \in Pairs
      PROVE  Closed(manifest[p], failed[p[1]])' /\ DOMAIN manifest'[p] \subseteq DOMAIN state'[p[1]]
  <2>1. /\ p[1] \in Devices /\ DOMAIN manifest[p] \subseteq DOMAIN state[p[1]]
        /\ Closed(manifest[p], failed[p[1]])
    BY DEF Pairs, ManifestInv
  <2>2. Closed(manifest[p], failed[p[1]])'
    BY <2>1, KeptClosed DEF Closed
  <2> QED BY <2>1, <2>2 DEF Grows
<1> QED BY <1>1 DEF ManifestInv

(* A plan stays closed while its actions are applied or fail, or dropped   *)
(* as a whole.                                                             *)
LEMMA KeptPlans ==
  ASSUME TodoInv, Extends, Grows, todo' = [d \in Devices |-> todo'[d]],
         \A d \in Devices :
           /\ todo'[d] \subseteq todo[d]
           /\ \/ todo'[d] = {}
              \/ \A a \in todo[d] \ todo'[d] : a.id \in DOMAIN state'[d] \cup failed'[d]
  PROVE  TodoInv'
<1> SUFFICES ASSUME NEW d \in Devices
             PROVE  /\ todo'[d] \subseteq [id : DOMAIN revision', state : States]
                    /\ \A a \in todo'[d] : Line(a.id)' \subseteq
                         DOMAIN state'[d] \cup failed'[d] \cup {b.id : b \in todo'[d]}
  BY DEF TodoInv, Line
<1>1. todo[d] \subseteq [id : DOMAIN revision, state : States] /\ todo'[d] \subseteq todo[d]
  BY DEF TodoInv
<1>2. todo'[d] \subseteq [id : DOMAIN revision', state : States]
  BY <1>1 DEF Extends
<1>3. ASSUME NEW a \in todo'[d]
      PROVE  Line(a.id)' \subseteq DOMAIN state'[d] \cup failed'[d] \cup {b.id : b \in todo'[d]}
  <2>1. Line(a.id)' = Line(a.id) /\ a \in todo[d]
    BY <1>1, <1>3 DEF Line, Extends
  <2>2. Line(a.id) \subseteq DOMAIN state[d] \cup failed[d] \cup {b.id : b \in todo[d]}
    BY <2>1 DEF TodoInv
  <2>3. \A b \in todo[d] : b.id \in DOMAIN state'[d] \cup failed'[d] \/ b \in todo'[d]
    BY <1>3
  <2>4. DOMAIN state[d] \subseteq DOMAIN state'[d] /\ failed[d] \subseteq failed'[d]
    BY DEF Grows, Extends
  <2> QED BY <2>1, <2>2, <2>3, <2>4
<1> QED BY <1>2, <1>3

(* A step that leaves the exports alone. *)
LEMMA KeptExports ==
  ASSUME ExportInv, Grows, UNCHANGED export PROVE ExportInv'
  BY DEF ExportInv, Grows

(* A step that leaves the failed imports alone. *)
LEMMA KeptFailed ==
  ASSUME FailedInv, Extends, UNCHANGED failed PROVE FailedInv'
  BY DEF FailedInv, Extends

(* A local result keeps the invariant. *)
LEMMA WriteStep ==
  ASSUME IInv, NEW d \in Devices, Write(d) PROVE IInv'
<1>0. /\ LineInv /\ DeviceInv /\ ManifestInv /\ TodoInv /\ OneCurrent
      /\ FailedInv /\ ExportInv
  BY DEF IInv
<1>1. PICK id \in Ids, c \in Contents :
         /\ id \notin DOMAIN revision /\ id.by = d
         /\ DOMAIN revision' = DOMAIN revision \cup {id}
         /\ \A x \in DOMAIN revision : revision'[x] = revision[x]
         /\ Content(id)' = c /\ Line(id)' \subseteq DOMAIN state[d] \cup failed[d] \cup {id}
         /\ id \in Line(id)' /\ \A x \in Line(id)' \ {id} : Line(x) \subseteq Line(id)'
         /\ \A x \in Line(id)' \ {id}, y \in Line(id)' \ {id} : x \in Line(y) \/ y \in Line(x)
         /\ state' = [state EXCEPT ![d] = With(Supersede(@), id, "active")]
         /\ row' = [row EXCEPT ![d] = c]
         /\ UNCHANGED <<manifest, todo, export, failed, faults>>
  BY WriteFacts
<1>2. Extends
  BY <1>1 DEF Extends
<1>3. Closed(state[d], failed[d]) /\ failed[d] \subseteq DOMAIN revision
  BY <1>0 DEF DeviceInv, FailedInv
<1>4. \A x \in DOMAIN revision : Line(x)' = Line(x) /\ Content(x)' = Content(x)
  BY <1>1 DEF Line, Content
<1>5. LineInv'
  <2> SUFFICES ASSUME NEW x \in DOMAIN revision'
               PROVE  /\ Content(x)' \in Contents
                      /\ x \in Line(x)' /\ Line(x)' \subseteq DOMAIN revision'
                      /\ \A y \in Line(x)' : Line(y)' \subseteq Line(x)'
                      /\ \A y \in Line(x)', z \in Line(x)' : y \in Line(z)' \/ z \in Line(y)'
    <3>1. DOMAIN revision' \subseteq Ids
      BY <1>0, <1>1 DEF LineInv
    <3> QED BY <3>1 DEF LineInv, Line
  <2>1. CASE x = id
    <3>1. Line(id)' \subseteq DOMAIN revision' /\ Line(id)' \ {id} \subseteq DOMAIN revision
      BY <1>1, <1>3 DEF Closed
    <3>2. ASSUME NEW y \in Line(id)' PROVE Line(y)' \subseteq Line(id)'
      <4>1. CASE y # id
        <5>1. y \in DOMAIN revision
          BY <3>1, <4>1
        <5> QED BY <1>1, <1>4, <4>1, <5>1
      <4> QED BY <4>1
    <3>3. ASSUME NEW y \in Line(id)', NEW z \in Line(id)' PROVE y \in Line(z)' \/ z \in Line(y)'
      <4>1. CASE y # id /\ z # id
        BY <1>1, <1>4, <3>1, <4>1
      <4> QED BY <4>1
    <3> QED BY <1>1, <2>1, <3>1, <3>2, <3>3
  <2>2. CASE x # id
    <3>1. x \in DOMAIN revision
      BY <1>1, <2>2
    <3>2. Line(x) \subseteq DOMAIN revision
      BY <1>0, <3>1 DEF LineInv
    <3> QED BY <1>0, <1>1, <1>4, <3>1, <3>2 DEF LineInv
  <2> QED BY <2>1, <2>2
<1>6. PICK s : s = With(Supersede(state[d]), id, "active")
  OBVIOUS
<1>7. /\ Active(s) = {id} /\ DOMAIN s = DOMAIN state[d] \cup {id}
      /\ \A y \in DOMAIN s : s[y] \in States
  BY <1>6, SupersedeFacts
<1>8. \A y \in DOMAIN s : Line(y)' \subseteq DOMAIN s \cup failed'[d]
  <2> SUFFICES ASSUME NEW y \in DOMAIN s PROVE Line(y)' \subseteq DOMAIN s \cup failed'[d]
    OBVIOUS
  <2>1. CASE y = id
    BY <1>1, <1>7, <2>1
  <2>2. CASE y # id
    BY <1>1, <1>3, <1>4, <1>7, <2>2 DEF Closed
  <2> QED BY <2>1, <2>2
<1>9. state' = [state EXCEPT ![d] = s] /\ IsMap(s)
  BY <1>1, <1>6, MapFacts
<1>10. DOMAIN s \subseteq DOMAIN revision' /\ DOMAIN state[d] \subseteq DOMAIN s
  BY <1>1, <1>3, <1>7 DEF Closed
<1>11. DeviceInv' /\ OneCurrent' /\ Grows
  <2>1. OneAtMost(Active(s))
    BY <1>7 DEF OneAtMost
  <2> QED BY <1>1, <1>2, <1>7, <1>8, <1>9, <1>10, <2>1, DeviceStep
<1>12. ManifestInv' /\ ExportInv' /\ FailedInv'
  BY <1>0, <1>1, <1>2, <1>11, KeptManifests, KeptExports, KeptFailed
<1>13. TodoInv'
  <2>1. todo' = [x \in Devices |-> todo'[x]] /\ \A x \in Devices : todo'[x] = todo[x]
    BY <1>0, <1>1 DEF TodoInv
  <2> QED BY <1>0, <1>2, <1>11, <2>1, KeptPlans
<1> QED BY <1>1, <1>5, <1>11, <1>12, <1>13 DEF IInv

(* A payload is written or no row. *)
LEMMA RowTyped ==
  ASSUME LineInv, NEW s, NEW x \in Ids, NEW y \in Ids, Active(s) \subseteq {x, y},
         DOMAIN s \subseteq DOMAIN revision, \A id \in DOMAIN s : s[id] \in States,
         NEW r \in Contents \cup {NoResult}
  PROVE  /\ RowOf(s, r) \in Contents \cup {NoResult}
         /\ Active(s) # {} => RowOf(s, r) = Content(Winner(Active(s)))
<1>1. ASSUME Active(s) # {} PROVE Content(Winner(Active(s))) \in Contents
  <2>1. Winner(Active(s)) \in Active(s)
    BY <1>1, SettleFacts
  <2> QED BY <2>1 DEF LineInv, Active
<1> QED BY <1>1 DEF RowOf

(* The import of one planned revision keeps the invariant. *)
LEMMA ImportStep ==
  ASSUME IInv, NEW e \in Devices, ImportNext(e) PROVE IInv'
<1>0. /\ LineInv /\ DeviceInv /\ ManifestInv /\ TodoInv /\ OneCurrent
      /\ FailedInv /\ ExportInv
  BY DEF IInv
<1>1. PICK a \in todo[e], x \in Ids : \E s : Imports(e, a, x, s)
  BY ImportFacts
<1>s. PICK s : Imports(e, a, x, s)
  BY <1>1
<1>2. /\ s = With(state[e], a.id, a.state)
      /\ a.id \in DOMAIN revision /\ a.state \in States
      /\ Line(a.id) \subseteq DOMAIN s \cup failed[e] /\ DOMAIN s = DOMAIN state[e] \cup {a.id}
      /\ \A id \in DOMAIN s : s[id] \in States
      /\ Active(state[e]) \subseteq {x} /\ Active(s) \subseteq {x, a.id}
      /\ state' = [state EXCEPT ![e] = Settle(s)]
      /\ row' = [row EXCEPT ![e] = RowOf(s, row[e])]
      /\ todo' = [todo EXCEPT ![e] = @ \ {a}]
      /\ UNCHANGED <<revision, manifest, export, failed, faults>>
  BY <1>s DEF Imports
<1>3. a.id \in Ids /\ Closed(state[e], failed[e]) /\ row[e] \in Contents \cup {NoResult}
  BY <1>0, <1>2 DEF LineInv, DeviceInv
<1>4. /\ DOMAIN s \subseteq DOMAIN revision /\ DOMAIN state[e] \subseteq DOMAIN s
      /\ \A id \in DOMAIN s : Line(id) \subseteq DOMAIN s \cup failed[e]
  BY <1>2, <1>3 DEF Closed
<1>5. PICK r, t : r = RowOf(s, row[e]) /\ t = Settle(s)
  OBVIOUS
<1>6. r \in Contents \cup {NoResult}
  BY <1>0, <1>2, <1>3, <1>4, <1>5, RowTyped
<1>7. /\ DOMAIN t = DOMAIN s /\ \A id \in DOMAIN t : t[id] \in States
      /\ Active(t) = {} \/ Active(t) = {Winner(Active(s))}
  BY <1>2, <1>3, <1>5, SettleFacts
<1>8. Extends /\ LineInv'
  BY <1>0, <1>2 DEF Extends, LineInv, Line, Content
<1>9. DeviceInv' /\ OneCurrent' /\ Grows
  <2>1. OneAtMost(Active(t))
    BY <1>7 DEF OneAtMost
  <2>2. \A id \in DOMAIN t : Line(id)' \subseteq DOMAIN t \cup failed'[e]
    BY <1>2, <1>4, <1>7 DEF Line
  <2>3. /\ DOMAIN t \subseteq DOMAIN revision' /\ DOMAIN state[e] \subseteq DOMAIN t
        /\ state' = [state EXCEPT ![e] = t] /\ row' = [row EXCEPT ![e] = r] /\ IsMap(t)
    BY <1>2, <1>4, <1>5, <1>7, MapFacts
  <2> QED BY <1>6, <1>7, <1>8, <2>1, <2>2, <2>3, DeviceStep
<1>10. ManifestInv' /\ ExportInv' /\ FailedInv'
  BY <1>0, <1>2, <1>8, <1>9, KeptManifests, KeptExports, KeptFailed
<1>11. a.id \in DOMAIN state'[e]
  BY <1>0, <1>2, <1>5, <1>7 DEF DeviceInv
<1>12. TodoInv'
  <2>1. /\ todo' = [d \in Devices |-> todo'[d]] /\ todo'[e] = todo[e] \ {a}
        /\ \A d \in Devices \ {e} : todo'[d] = todo[d]
    BY <1>0, <1>2 DEF TodoInv
  <2>2. \A d \in Devices :
          /\ todo'[d] \subseteq todo[d]
          /\ \A b \in todo[d] \ todo'[d] : b.id \in DOMAIN state'[d] \cup failed'[d]
    BY <1>11, <2>1
  <2> QED BY <1>0, <1>8, <1>9, <2>1, <2>2, KeptPlans
<1> QED BY <1>2, <1>8, <1>9, <1>10, <1>12 DEF IInv

(* A step that leaves the revisions and the devices alone. *)
LEMMA QuietStep ==
  ASSUME IInv, UNCHANGED <<revision, state, row>>,
         \A d \in Devices : failed[d] \subseteq failed'[d]
  PROVE  /\ Extends /\ Grows /\ LineInv' /\ DeviceInv' /\ OneCurrent'
         /\ UNCHANGED manifest => ManifestInv'
<1>1. LineInv /\ DeviceInv /\ OneCurrent /\ ManifestInv
  BY DEF IInv
<1>2. Extends /\ Grows
  BY DEF Extends, Grows
<1>3. LineInv' /\ OneCurrent'
  BY <1>1 DEF LineInv, OneCurrent, OneAtMost, Line, Content, Active
<1>4. DeviceInv'
  <2>1. ASSUME NEW d \in Devices PROVE Closed(state[d], failed[d])'
    BY <1>1, <1>2, KeptClosed DEF DeviceInv, Closed
  <2> QED BY <1>1, <2>1 DEF DeviceInv
<1> QED BY <1>1, <1>2, <1>3, <1>4, KeptManifests

(* What an export reads, and where it goes on. *)
LEMMA ExportAtStep ==
  ASSUME ExportInv, Grows, NEW d \in Devices, NEW found,
         NEW at \in {"idle", "select", "write", "list"}, ExportAt(d, at, found),
         found \subseteq DOMAIN state'[d], OneAtMost(found)
  PROVE  ExportInv' /\ export'[d] = [at |-> at, found |-> found]
         /\ \A x \in Devices \ {d} : export'[x] = export[x]
<1>1. /\ export' = [x \in Devices |-> export'[x]] /\ export'[d] = [at |-> at, found |-> found]
      /\ \A x \in Devices \ {d} : export'[x] = export[x]
  BY DEF ExportInv, ExportAt
<1>2. \A x \in Devices \ {d} : export[x].found \subseteq DOMAIN state'[x]
  BY DEF ExportInv, Grows
<1> QED BY <1>1, <1>2 DEF ExportInv

(* A reading export changes nothing but what it knows. *)
LEMMA LookStep ==
  ASSUME IInv, NEW d \in Devices, ExportLook(d) \/ ExportSelect(d)
  PROVE  /\ IInv' /\ UNCHANGED <<revision, state, row, manifest, todo, failed, faults>>
         /\ export[d].at # "write" /\ \A x \in Devices \ {d} : export'[x] = export[x]
<1>0. ExportInv /\ FailedInv /\ TodoInv /\ OneCurrent
  BY DEF IInv
<1>1. UNCHANGED <<revision, state, row, manifest, todo, failed, faults>>
  BY DEF ExportLook, ExportSelect
<1>2. \E at \in {"select", "write", "list"}, found \in {{}, Active(state[d])} :
        ExportAt(d, at, found)
  BY DEF ExportLook, ExportSelect
<1>3. PICK at \in {"select", "write", "list"}, found \in {{}, Active(state[d])} :
        ExportAt(d, at, found)
  BY <1>2
<1>4. /\ Extends /\ Grows /\ LineInv' /\ DeviceInv' /\ OneCurrent' /\ ManifestInv'
  BY <1>1, QuietStep
<1>5. found \subseteq DOMAIN state'[d] /\ OneAtMost(found)
  BY <1>0, <1>1, <1>3 DEF Active, OneCurrent, OneAtMost
<1>6. ExportInv' /\ \A x \in Devices \ {d} : export'[x] = export[x]
  BY <1>0, <1>3, <1>4, <1>5, ExportAtStep
<1>7. TodoInv' /\ FailedInv'
  BY <1>0, <1>1 DEF TodoInv, FailedInv, Line
<1>8. export[d].at # "write"
  BY DEF ExportLook, ExportSelect, Idle
<1> QED BY <1>1, <1>4, <1>6, <1>7, <1>8 DEF IInv

(* What an export writes of one revision at most: the states stay. *)
LEMMA WrittenFacts ==
  ASSUME IInv, NEW d \in Devices
  PROVE  /\ Outdated(export[d].found, state[d]) = state[d]
         /\ Written(export[d].found) \in Contents \cup {NoResult}
<1>1. /\ LineInv /\ export[d].found \subseteq DOMAIN state[d]
      /\ OneAtMost(export[d].found) /\ Closed(state[d], failed[d])
  BY DEF IInv, ExportInv, DeviceInv
<1>2. state[d] = [id \in DOMAIN state[d] |-> state[d][id]]
  BY <1>1 DEF Closed, IsMap
<1>3. CASE export[d].found = {}
  BY <1>2, <1>3 DEF Outdated, Written
<1>4. CASE export[d].found # {}
  <2>1. PICK id : export[d].found = {id} /\ id \in DOMAIN state[d]
    BY <1>1, <1>4 DEF OneAtMost
  <2>2. Winner({id}) = id /\ id \in DOMAIN revision
    BY <1>1, <2>1, WinnerOfOne DEF Closed
  <2>3. Outdated({id}, state[d]) = state[d]
    BY <1>2, <2>2 DEF Outdated
  <2> QED BY <1>1, <2>1, <2>2, <2>3 DEF Written, LineInv
<1> QED BY <1>3, <1>4

(* A manifest of what its sender has. *)
LEMMA SendStep ==
  ASSUME IInv, NEW d \in Devices, NEW e \in Devices, <<d, e>> \in Pairs,
         Send(d, e, state[d]), UNCHANGED <<revision, state, failed>>
  PROVE  /\ ManifestInv' /\ ExportInv' /\ export'[d] = Idle
         /\ \A x \in Devices \ {d} : export'[x] = export[x]
         /\ manifest'[<<d, e>>] = state[d]
         /\ \A p \in Pairs \ {<<d, e>>} : manifest'[p] = manifest[p]
<1>0. ManifestInv /\ ExportInv /\ DeviceInv
  BY DEF IInv
<1>1. Extends /\ Grows
  BY DEF Extends, Grows
<1>2. manifest' = [manifest EXCEPT ![<<d, e>>] = state[d]] /\ ExportAt(d, "idle", {})
  BY DEF Send
<1>3. /\ manifest' = [p \in Pairs |-> manifest'[p]] /\ manifest'[<<d, e>>] = state[d]
      /\ \A p \in Pairs \ {<<d, e>>} : manifest'[p] = manifest[p]
  BY <1>0, <1>2 DEF ManifestInv
<1>4. ASSUME NEW p \in Pairs
      PROVE  Closed(manifest[p], failed[p[1]])' /\ DOMAIN manifest'[p] \subseteq DOMAIN state'[p[1]]
  <2>1. p[1] \in Devices /\ <<d, e>>[1] = d
    BY DEF Pairs
  <2>2. \/ manifest'[p] = state[p[1]]
        \/ manifest'[p] = manifest[p]
    BY <1>3, <2>1
  <2>3. Closed(manifest'[p], failed[p[1]]) /\ DOMAIN manifest'[p] \subseteq DOMAIN state'[p[1]]
    BY <1>0, <2>1, <2>2 DEF ManifestInv, DeviceInv
  <2> QED BY <1>1, <2>1, <2>3, KeptClosed DEF Closed
<1>5. ManifestInv'
  BY <1>3, <1>4 DEF ManifestInv
<1>6. /\ ExportInv' /\ export'[d] = [at |-> "idle", found |-> {}]
      /\ \A x \in Devices \ {d} : export'[x] = export[x]
  BY <1>0, <1>1, <1>2, ExportAtStep DEF OneAtMost
<1> QED BY <1>3, <1>5, <1>6 DEF Idle

(* A writing export changes the row, and may send the manifest. *)
LEMMA ExportWriteStep ==
  ASSUME IInv, NEW d \in Devices, NEW e \in Devices, <<d, e>> \in Pairs, ExportWrite(d, e)
  PROVE  /\ IInv' /\ UNCHANGED <<revision, state, todo, failed, faults>>
         /\ row' = [row EXCEPT ![d] = Written(export[d].found)]
         /\ \A x \in Devices \ {d} : export'[x] = export[x]
         /\ export'[d] # export[d]
         /\ \A p \in Pairs : \/ manifest'[p] = manifest[p]
                             \/ p = <<d, e>> /\ manifest'[p] = state[d]
<1>0. /\ LineInv /\ DeviceInv /\ ManifestInv /\ TodoInv /\ OneCurrent
      /\ FailedInv /\ ExportInv
  BY DEF IInv
<1>1. PICK r : r = Written(export[d].found)
  OBVIOUS
<1>2. Outdated(export[d].found, state[d]) = state[d] /\ r \in Contents \cup {NoResult}
  BY <1>1, WrittenFacts
<1>3. /\ export[d].at = "write" /\ row' = [row EXCEPT ![d] = r]
      /\ state' = [state EXCEPT ![d] = state[d]] /\ UNCHANGED <<revision, todo, failed, faults>>
      /\ \/ ExportAt(d, "list", {}) /\ UNCHANGED manifest
         \/ Send(d, e, state[d])
  BY <1>1, <1>2 DEF ExportWrite
<1>4. UNCHANGED state
  BY <1>0, <1>3 DEF DeviceInv
<1>5. Extends /\ Grows /\ LineInv' /\ OneCurrent'
  BY <1>0, <1>3, <1>4 DEF Extends, Grows, LineInv, OneCurrent, OneAtMost, Line, Content, Active
<1>6. DeviceInv'
  <2>1. row' \in [Devices -> Contents \cup {NoResult}]
    BY <1>0, <1>2, <1>3 DEF DeviceInv
  <2>2. ASSUME NEW x \in Devices PROVE Closed(state[x], failed[x])'
    BY <1>0, <1>4, <1>5, KeptClosed DEF DeviceInv, Closed
  <2> QED BY <1>0, <1>4, <2>1, <2>2 DEF DeviceInv
<1>7. TodoInv' /\ FailedInv'
  BY <1>0, <1>3, <1>4 DEF TodoInv, FailedInv, Line
<1>8. /\ ManifestInv' /\ ExportInv' /\ export'[d] # export[d]
      /\ \A x \in Devices \ {d} : export'[x] = export[x]
      /\ \A p \in Pairs : \/ manifest'[p] = manifest[p]
                          \/ p = <<d, e>> /\ manifest'[p] = state[d]
  <2>1. CASE ExportAt(d, "list", {}) /\ UNCHANGED manifest
    <3>1. /\ ExportInv' /\ export'[d] = [at |-> "list", found |-> {}]
          /\ \A x \in Devices \ {d} : export'[x] = export[x]
      BY <1>0, <1>5, <2>1, ExportAtStep DEF OneAtMost
    <3>2. export'[d] # export[d]
      BY <1>3, <3>1
    <3> QED BY <1>0, <1>5, <2>1, <3>1, <3>2, KeptManifests
  <2>2. CASE Send(d, e, state[d])
    <3>1. /\ ManifestInv' /\ ExportInv' /\ export'[d] = Idle
          /\ \A x \in Devices \ {d} : export'[x] = export[x]
          /\ manifest'[<<d, e>>] = state[d]
          /\ \A p \in Pairs \ {<<d, e>>} : manifest'[p] = manifest[p]
      BY <1>3, <1>4, <2>2, SendStep
    <3>2. export'[d] # export[d]
      BY <1>3, <3>1 DEF Idle
    <3> QED BY <3>1, <3>2
  <2> QED BY <1>3, <2>1, <2>2
<1> QED BY <1>1, <1>3, <1>4, <1>5, <1>6, <1>7, <1>8 DEF IInv

(* An export that had nothing to write lists what there is. *)
LEMMA ExportListStep ==
  ASSUME IInv, NEW d \in Devices, NEW e \in Devices, <<d, e>> \in Pairs, ExportList(d, e)
  PROVE  /\ IInv' /\ UNCHANGED <<revision, state, row, todo, failed, faults>>
         /\ \A x \in Devices \ {d} : export'[x] = export[x]
         /\ export[d].at # "write"
         /\ \A p \in Pairs : \/ manifest'[p] = manifest[p]
                             \/ p = <<d, e>> /\ manifest'[p] = state[d]
<1>0. TodoInv /\ FailedInv
  BY DEF IInv
<1>1. /\ UNCHANGED <<revision, state, row, todo, failed, faults>>
      /\ Send(d, e, state[d]) /\ export[d].at = "list"
  BY DEF ExportList
<1>2. LineInv' /\ DeviceInv' /\ OneCurrent'
  BY <1>1, QuietStep
<1>3. TodoInv' /\ FailedInv'
  BY <1>0, <1>1 DEF TodoInv, FailedInv, Line
<1> QED BY <1>1, <1>2, <1>3, SendStep DEF IInv

(* Nothing on the line of a planned revision is left out, down to the      *)
(* first base that is known: what is unknown above it is planned, and what *)
(* is under it is known or failed.                                         *)
LEMMA GapIsPlanned ==
  ASSUME LineInv, NEW s, NEW lost, Closed(s, lost), NEW x \in DOMAIN revision,
         NEW y \in Line(x)
  PROVE  \/ y \in DOMAIN s \cup lost
         \/ y \in Gap(s, x) /\ Gap(s, y) \subseteq Gap(s, x)
<1>1. Line(y) \subseteq Line(x) /\ y \in DOMAIN revision
  BY DEF LineInv
<1>2. CASE (Line(x) \ Under(y)) \cap DOMAIN s = {}
  <2>1. y \in Gap(s, x)
    BY <1>2 DEF Gap
  <2>2. ASSUME NEW z \in Gap(s, y) PROVE (Line(x) \ Under(z)) \cap DOMAIN s = {}
    <3> SUFFICES ASSUME NEW u \in Line(x), u \notin Under(z), u \in DOMAIN s PROVE FALSE
      OBVIOUS
    <3>1. u \notin Line(y)
      BY <2>2 DEF Gap
    <3>2. u \notin Under(y)
      BY <3>1 DEF Under
    <3> QED BY <1>2, <3>2
  <2> QED BY <1>1, <2>1, <2>2 DEF Gap
<1>3. CASE (Line(x) \ Under(y)) \cap DOMAIN s # {}
  <2>1. PICK u \in Line(x) : u \notin Under(y) /\ u \in DOMAIN s
    BY <1>3
  <2>2. u \in Line(y) \/ y \in Line(u)
    BY DEF LineInv
  <2>3. u = y \/ y \in Line(u)
    BY <2>1, <2>2 DEF Under
  <2> QED BY <2>1, <2>3 DEF Closed
<1> QED BY <1>2, <1>3

(* A plan is closed: what is not known on the line of a planned revision   *)
(* is planned with it, because a refused base takes its revision along.    *)
LEMMA PlanStep ==
  ASSUME IInv, NEW e \in Devices, NEW d \in Devices, <<d, e>> \in Pairs, Plan(e, d)
  PROVE  IInv'
<1>0. /\ LineInv /\ DeviceInv /\ ManifestInv /\ TodoInv /\ OneCurrent
      /\ FailedInv /\ ExportInv
  BY DEF IInv
<1>1. UNCHANGED <<revision, state, row, manifest, export, failed, faults>>
  BY DEF Plan
<1>2. PICK s, m : s = state[e] /\ m = manifest[<<d, e>>]
  OBVIOUS
<1>3. PICK id \in Wanted(s, row[e], m) : \E refused :
         todo' = [todo EXCEPT ![e] = Actions(s, m, id, refused)]
  BY <1>2 DEF Plan
<1>4. PICK refused : todo' = [todo EXCEPT ![e] = Actions(s, m, id, refused)]
  BY <1>3
<1>5. PICK plan : plan = Actions(s, m, id, refused)
  OBVIOUS
<1>6. Closed(s, failed[e]) /\ Closed(m, failed[d])
  <2>1. <<d, e>>[1] = d
    OBVIOUS
  <2> QED BY <1>0, <1>2, <2>1 DEF DeviceInv, ManifestInv
<1>7. id \in DOMAIN revision
  BY <1>3, <1>6 DEF Wanted, Active, Closed
<1>8. Chain(m, id) \subseteq DOMAIN m
  <2>1. \A x \in Line(id) : x \in Line(id) \ Under(x)
    BY DEF Under
  <2> QED BY <2>1 DEF Chain
<1>9. \A a \in plan : \E x \in Chain(m, id) :
        /\ a = [id |-> x, state |-> m[x]]
        /\ x \notin DOMAIN s => Gap(s, x) \subseteq Chain(m, id) \ refused
  BY <1>5 DEF Actions
<1>10. plan \subseteq [id : DOMAIN revision, state : States]
  BY <1>6, <1>8, <1>9 DEF Closed
<1>11. ASSUME NEW a \in plan
       PROVE  Line(a.id) \subseteq DOMAIN s \cup failed[e] \cup {b.id : b \in plan}
  <2>1. PICK x \in Chain(m, id) :
          /\ a = [id |-> x, state |-> m[x]]
          /\ x \notin DOMAIN s => Gap(s, x) \subseteq Chain(m, id) \ refused
    BY <1>9
  <2>2. x = a.id /\ x \in DOMAIN revision
    BY <1>6, <1>8, <2>1 DEF Closed
  <2>3. SUFFICES ASSUME NEW y \in Line(x), y \notin DOMAIN s \cup failed[e]
                 PROVE  \E b \in plan : b.id = y
    BY <2>2
  <2>4. x \notin DOMAIN s
    BY <1>6, <2>3 DEF Closed
  <2>5. y \in Gap(s, x) /\ Gap(s, y) \subseteq Gap(s, x)
    BY <1>0, <1>6, <2>2, <2>3, GapIsPlanned
  <2>6. y \in Chain(m, id) /\ Gap(s, y) \subseteq Chain(m, id) \ refused
    BY <2>1, <2>4, <2>5
  <2>7. [id |-> y, state |-> m[y]] \in plan
    BY <1>5, <2>3, <2>6 DEF Actions
  <2> QED BY <2>7
<1>12. TodoInv'
  <2>1. /\ todo' = [x \in Devices |-> todo'[x]] /\ todo'[e] = plan
        /\ \A x \in Devices \ {e} : todo'[x] = todo[x]
    BY <1>0, <1>4, <1>5 DEF TodoInv
  <2>2. \A x \in Devices : todo'[x] \subseteq [id : DOMAIN revision', state : States]
    BY <1>0, <1>1, <1>10, <2>1 DEF TodoInv
  <2>3. \A x \in Devices : \A a \in todo'[x] : Line(a.id)' \subseteq
          DOMAIN state'[x] \cup failed'[x] \cup {b.id : b \in todo'[x]}
    <3>1. \A a : Line(a.id)' = Line(a.id)
      BY <1>1 DEF Line
    <3>2. \A a \in todo'[e] : Line(a.id)' \subseteq
            DOMAIN state'[e] \cup failed'[e] \cup {b.id : b \in todo'[e]}
      BY <1>1, <1>2, <1>11, <2>1, <3>1
    <3>3. \A x \in Devices \ {e} : \A a \in todo'[x] : Line(a.id)' \subseteq
            DOMAIN state'[x] \cup failed'[x] \cup {b.id : b \in todo'[x]}
      BY <1>0, <1>1, <2>1, <3>1 DEF TodoInv
    <3> QED BY <3>2, <3>3
  <2> QED BY <2>1, <2>2, <2>3 DEF TodoInv, Line
<1>13. LineInv' /\ DeviceInv' /\ ManifestInv' /\ OneCurrent' /\ ExportInv' /\ FailedInv'
  BY <1>0, <1>1, QuietStep, KeptExports, KeptFailed
<1> QED BY <1>1, <1>12, <1>13 DEF IInv

(* An import that fails is remembered as such. *)
LEMMA FailStep ==
  ASSUME IInv, NEW e \in Devices, ImportFails(e)
  PROVE  IInv' /\ faults' # 0
<1>0. TodoInv /\ FailedInv /\ ExportInv
  BY DEF IInv
<1>1. PICK a \in todo[e] : /\ failed' = [failed EXCEPT ![e] = @ \cup {a.id}]
                           /\ todo' = [todo EXCEPT ![e] = @ \ {a}]
  BY DEF ImportFails
<1>2. UNCHANGED <<revision, state, row, manifest, export>>
  BY DEF ImportFails
<1>3. a.id \in DOMAIN revision
  BY <1>0 DEF TodoInv
<1>4. /\ failed' = [d \in Devices |-> failed'[d]] /\ failed'[e] = failed[e] \cup {a.id}
      /\ \A d \in Devices \ {e} : failed'[d] = failed[d]
      /\ todo' = [d \in Devices |-> todo'[d]] /\ todo'[e] = todo[e] \ {a}
      /\ \A d \in Devices \ {e} : todo'[d] = todo[d]
  BY <1>0, <1>1 DEF TodoInv, FailedInv
<1>5. /\ Extends /\ Grows /\ LineInv' /\ DeviceInv' /\ OneCurrent' /\ ManifestInv'
  <2>1. \A d \in Devices : failed[d] \subseteq failed'[d]
    BY <1>4
  <2> QED BY <1>2, <2>1, QuietStep
<1>6. FailedInv' /\ ExportInv'
  <2>1. \A d \in Devices : failed'[d] \subseteq DOMAIN revision'
    BY <1>0, <1>2, <1>3, <1>4 DEF FailedInv
  <2> QED BY <1>0, <1>2, <1>4, <1>5, <2>1, KeptExports DEF FailedInv
<1>7. TodoInv'
  <2>1. \A d \in Devices :
          /\ todo'[d] \subseteq todo[d]
          /\ \A b \in todo[d] \ todo'[d] : b.id \in DOMAIN state'[d] \cup failed'[d]
    BY <1>4
  <2> QED BY <1>0, <1>4, <1>5, <2>1, KeptPlans
<1>8. faults' \in 0..MaxFaults /\ faults' # 0
  BY FaultsAreCounted DEF IInv, ImportFails
<1> QED BY <1>5, <1>6, <1>7, <1>8 DEF IInv

(* A crash drops a plan and an export as a whole. *)
LEMMA CrashStep ==
  ASSUME IInv, NEW e \in Devices, Crash(e) PROVE IInv' /\ faults' # 0 /\ faults' # faults
<1>0. TodoInv /\ FailedInv /\ ExportInv
  BY DEF IInv
<1>1. /\ UNCHANGED <<revision, state, row, manifest, failed>>
      /\ todo' = [todo EXCEPT ![e] = {}] /\ ExportAt(e, "idle", {})
  BY DEF Crash, ExportAt, Idle
<1>2. Extends /\ Grows /\ LineInv' /\ DeviceInv' /\ OneCurrent' /\ ManifestInv'
  BY <1>1, QuietStep
<1>3. TodoInv'
  <2>1. /\ todo' = [x \in Devices |-> todo'[x]] /\ todo'[e] = {}
        /\ \A x \in Devices \ {e} : todo'[x] = todo[x]
    BY <1>0, <1>1 DEF TodoInv
  <2>2. \A x \in Devices :
          /\ todo'[x] \subseteq todo[x]
          /\ \/ todo'[x] = {}
             \/ \A a \in todo[x] \ todo'[x] : a.id \in DOMAIN state'[x] \cup failed'[x]
    BY <2>1
  <2> QED BY <1>0, <1>2, <2>1, <2>2, KeptPlans
<1>4. FailedInv' /\ ExportInv'
  BY <1>0, <1>1, <1>2, KeptFailed, ExportAtStep DEF OneAtMost
<1>5. faults' \in 0..MaxFaults /\ faults' # 0 /\ faults' # faults
  BY FaultsAreCounted DEF IInv, Crash
<1> QED BY <1>2, <1>3, <1>4, <1>5 DEF IInv

(* The invariant holds at first, and every step keeps it. *)
LEMMA InitInv == Init => IInv
<1> SUFFICES ASSUME Init PROVE IInv
  OBVIOUS
<1>1. DOMAIN Empty = {} /\ Active(Empty) = {} /\ IsMap(Empty)
  BY DEF Empty, Active, IsMap
<1>2. LineInv
  BY <1>1 DEF Init, LineInv
<1>3. DeviceInv /\ OneCurrent
  BY <1>1 DEF Init, DeviceInv, OneCurrent, OneAtMost, Closed
<1>4. ManifestInv
  <2>1. \A p \in Pairs : p[1] \in Devices
    BY DEF Pairs
  <2> QED BY <1>1, <2>1 DEF Init, ManifestInv, Closed
<1>5. TodoInv /\ FailedInv
  BY DEF Init, TodoInv, FailedInv
<1>6. ExportInv
  BY DEF Init, ExportInv, OneAtMost, Idle
<1>7. faults \in 0..MaxFaults
  BY FaultsAreCounted DEF Init
<1> QED BY <1>2, <1>3, <1>4, <1>5, <1>6, <1>7 DEF IInv

(* A step that changes nothing keeps the invariant. *)
LEMMA Stutter == ASSUME IInv, UNCHANGED vars PROVE IInv'
  BY DEF vars, IInv, LineInv, DeviceInv, ManifestInv, TodoInv, FailedInv, OneCurrent, OneAtMost,
         ExportInv, Closed, Line, Content, Active

(* Every step is one of these. *)
LEMMA Cases ==
  ASSUME Next
  PROVE  \/ \E d \in Devices : \/ Write(d) \/ ExportLook(d) \/ ExportSelect(d)
                               \/ ImportNext(d) \/ ImportFails(d) \/ Crash(d)
         \/ \E d \in Devices, e \in Devices :
              /\ <<d, e>> \in Pairs
              /\ \/ ExportWrite(d, e) \/ ExportList(d, e) \/ Plan(e, d)
<1>1. ASSUME NEW p \in Pairs
      PROVE  /\ p[1] \in Devices /\ p[2] \in Devices
             /\ <<p[1], p[2]>> \in Pairs /\ <<p[2], p[1]>> \in Pairs
  BY DEF Pairs
<1> QED BY <1>1 DEF Next

(* Every step keeps the invariant. *)
LEMMA Inductive == ASSUME IInv, [Next]_vars PROVE IInv'
<1>1. CASE Next
  BY <1>1, Cases, WriteStep, LookStep, ImportStep, FailStep, CrashStep,
     ExportWriteStep, ExportListStep, PlanStep
<1> QED BY <1>1, Stutter

-----------------------------------------------------------------------------
(* What a device shows.                                                    *)

(* The current revision of d gives way to a newer one only. *)
GivesWay(d) == /\ Active(state[d]) # {}
               /\ Active(state'[d]) # {}
               /\ \A id \in DOMAIN revision' \ DOMAIN revision : id.by # d
               => \/ Winner(Active(state'[d])) = Winner(Active(state[d]))
                  \/ Newer(Winner(Active(state'[d])), Winner(Active(state[d])))

(* A local result of one device changes no other. *)
LEMMA WriteGives ==
  ASSUME IInv, NEW w \in Devices, Write(w), NEW d \in Devices PROVE GivesWay(d)
<1>1. PICK id \in Ids : id \notin DOMAIN revision /\ id.by = w /\ id \in DOMAIN revision'
  BY WriteFacts
<1>2. CASE d = w
  BY <1>1, <1>2 DEF GivesWay
<1>3. CASE d # w
  <2>1. state'[d] = state[d]
    BY <1>3 DEF Write, IInv, DeviceInv
  <2> QED BY <2>1 DEF GivesWay
<1> QED BY <1>2, <1>3

(* An import leaves the newer of the current revision and the imported one. *)
LEMMA ImportGives ==
  ASSUME IInv, NEW e \in Devices, ImportNext(e), NEW d \in Devices PROVE GivesWay(d)
<1>0. LineInv /\ DeviceInv /\ OneCurrent
  BY DEF IInv
<1>1. CASE d # e
  <2>1. state'[d] = state[d]
    BY <1>0, <1>1 DEF ImportNext, DeviceInv
  <2> QED BY <2>1 DEF GivesWay
<1>2. CASE d = e
  <2> SUFFICES ASSUME Active(state[e]) # {}, Active(state'[e]) # {}
               PROVE  \/ Winner(Active(state'[e])) = Winner(Active(state[e]))
                      \/ Newer(Winner(Active(state'[e])), Winner(Active(state[e])))
    BY <1>2 DEF GivesWay
  <2>1. PICK a \in todo[e], y \in Ids : \E s : Imports(e, a, y, s)
    BY ImportFacts
  <2>s. PICK s : Imports(e, a, y, s)
    BY <2>1
  <2>2. /\ s = With(state[e], a.id, a.state)
        /\ a.id \in DOMAIN revision
        /\ \A id \in DOMAIN s : s[id] \in States
        /\ Active(state[e]) \subseteq {y} /\ Active(s) \subseteq {y, a.id}
        /\ state' = [state EXCEPT ![e] = Settle(s)]
    BY <2>s DEF Imports
  <2>3. a.id \in Ids /\ state'[e] = Settle(s)
    BY <1>0, <2>2 DEF LineInv, DeviceInv
  <2>4. Active(s) # {}
    BY <2>2, <2>3, SettleFacts
  <2>5. PICK w : w = Winner(Active(s))
    OBVIOUS
  <2>6. w \in Active(s) /\ Active(state'[e]) = {w}
    BY <2>2, <2>3, <2>4, <2>5, SettleFacts
  <2>7. Winner(Active(state'[e])) = w
    BY <2>6, WinnerOfOne
  <2>8. Active(state[e]) = {y} /\ Winner(Active(state[e])) = y
    BY <2>2, WinnerOfOne
  <2>9. w = y \/ Newer(w, y)
    <3>1. CASE a.id = y
      BY <2>2, <2>6, <3>1
    <3>2. CASE a.id # y
      <4>1. y \in Active(s)
        <5>1. s = [z \in DOMAIN state[e] \cup {a.id} |->
                     IF z = a.id THEN a.state ELSE state[e][z]]
          BY <2>2 DEF With
        <5>2. y \in DOMAIN state[e] /\ state[e][y] = "active"
          BY <2>8 DEF Active
        <5> QED BY <3>2, <5>1, <5>2 DEF Active
      <4>2. Active(s) = {y} \/ Active(s) = {y, a.id}
        BY <2>2, <4>1
      <4> QED BY <2>3, <2>5, <4>2, WinnerOfOne, WinnerOfTwo
    <3> QED BY <3>1, <3>2
  <2> QED BY <2>7, <2>8, <2>9
<1> QED BY <1>1, <1>2

(* Whatever step is taken. *)
LEMMA StepGives ==
  ASSUME IInv, Next, NEW d \in Devices PROVE GivesWay(d)
<1>1. ASSUME NEW x \in Devices, Write(x) PROVE GivesWay(d)
  BY <1>1, WriteGives
<1>2. ASSUME NEW x \in Devices, ImportNext(x) PROVE GivesWay(d)
  BY <1>2, ImportGives
<1>3. ASSUME UNCHANGED state PROVE GivesWay(d)
  BY <1>3 DEF GivesWay
<1>4. ASSUME NEW x \in Devices, ImportFails(x) \/ Crash(x) PROVE UNCHANGED state
  BY <1>4 DEF ImportFails, Crash
<1>5. ASSUME NEW x \in Devices, NEW e \in Devices, Plan(x, e) PROVE UNCHANGED state
  BY <1>5 DEF Plan
<1> QED BY <1>1, <1>2, <1>3, <1>4, <1>5, Cases, LookStep, ExportWriteStep, ExportListStep

(* What RowFollowsCurrent says of a device. *)
Follows(d) == /\ ~ (Exports(d) /\ Overtaken(d))
              /\ Shows(d) \/ Exports(d) \/ state'[d] # state[d]
              => Shows(d)'

(* A step that changes neither the revisions nor the row of a device. *)
LEMMA SameShown ==
  ASSUME IInv, NEW d \in Devices, Extends, state'[d] = state[d], row'[d] = row[d], ~ Exports(d)
  PROVE  Follows(d)
<1>1. Active(state[d]) \subseteq DOMAIN revision
  BY DEF IInv, DeviceInv, Closed, Active
<1>2. \A id \in Active(state[d]) : Content(id)' = Content(id)
  BY <1>1 DEF Content, Extends
<1>3. Active(state[d])' = Active(state[d])
  BY DEF Active
<1> QED BY <1>2, <1>3 DEF Follows, Shows

(* A local result is shown by its device. *)
LEMMA WriteFollows ==
  ASSUME IInv, NEW w \in Devices, Write(w), NEW d \in Devices PROVE Follows(d)
<1>0. DeviceInv
  BY DEF IInv
<1>1. PICK id \in Ids, c \in Contents :
         /\ DOMAIN revision' = DOMAIN revision \cup {id}
         /\ \A x \in DOMAIN revision : revision'[x] = revision[x]
         /\ Content(id)' = c
         /\ state' = [state EXCEPT ![w] = With(Supersede(@), id, "active")]
         /\ row' = [row EXCEPT ![w] = c]
         /\ UNCHANGED <<manifest, todo, export, failed, faults>>
  BY WriteFacts
<1>2. CASE d = w
  <2>1. PICK s : s = With(Supersede(state[w]), id, "active")
    OBVIOUS
  <2>2. state'[w] = s /\ row'[w] = c
    BY <1>0, <1>1, <2>1 DEF DeviceInv
  <2>3. Active(s) = {id}
    BY <2>1, SupersedeFacts
  <2>4. Active(state[d])' = {id}
    BY <1>2, <2>2, <2>3 DEF Active
  <2> QED BY <1>1, <1>2, <2>2, <2>4 DEF Follows, Shows
<1>3. CASE d # w
  <2>1. state'[d] = state[d] /\ row'[d] = row[d]
    BY <1>0, <1>1, <1>3 DEF DeviceInv
  <2>2. Extends /\ ~ Exports(d)
    BY <1>1 DEF Extends, Exports
  <2> QED BY <2>1, <2>2, SameShown
<1> QED BY <1>2, <1>3

(* An import leaves the row of what it leaves current. *)
LEMMA ImportFollows ==
  ASSUME IInv, NEW e \in Devices, ImportNext(e), NEW d \in Devices PROVE Follows(d)
<1>0. LineInv /\ DeviceInv
  BY DEF IInv
<1>1. PICK a \in todo[e], x \in Ids : \E s : Imports(e, a, x, s)
  BY ImportFacts
<1>s. PICK s : Imports(e, a, x, s)
  BY <1>1
<1>2. /\ a.id \in DOMAIN revision
      /\ \A id \in DOMAIN s : s[id] \in States
      /\ Active(s) \subseteq {x, a.id}
      /\ state' = [state EXCEPT ![e] = Settle(s)]
      /\ row' = [row EXCEPT ![e] = RowOf(s, row[e])]
      /\ UNCHANGED <<revision, manifest, export, failed, faults>>
  BY <1>s DEF Imports
<1>3. CASE d = e
  <2>1. PICK t, r : t = Settle(s) /\ r = RowOf(s, row[e])
    OBVIOUS
  <2>2. state'[e] = t /\ row'[e] = r
    BY <1>0, <1>2, <2>1 DEF DeviceInv
  <2>3. a.id \in Ids
    BY <1>0, <1>2 DEF LineInv
  <2>4. Active(t) = {} \/ (Active(t) = {Winner(Active(s))} /\ r = Content(Winner(Active(s))))
    <3>1. CASE Active(s) = {}
      BY <1>2, <2>1, <2>3, <3>1, SettleFacts
    <3>2. CASE Active(s) # {}
      BY <1>2, <2>1, <2>3, <3>2, SettleFacts DEF RowOf
    <3> QED BY <3>1, <3>2
  <2>5. Active(state[d])' = Active(t)
    BY <1>3, <2>2 DEF Active
  <2>6. \A id : Content(id)' = Content(id)
    BY <1>2 DEF Content
  <2>7. row'[d] = r
    BY <1>3, <2>2
  <2>8. Shows(d)'
    <3>1. CASE Active(t) = {}
      BY <2>5, <3>1 DEF Shows
    <3>2. CASE Active(t) # {}
      <4>1. PICK w : w = Winner(Active(s))
        OBVIOUS
      <4>2. Active(t) = {w} /\ r = Content(w)
        BY <2>4, <3>2, <4>1
      <4>3. Active(state[d])' = {w} /\ row'[d] = Content(w)'
        BY <2>5, <2>6, <2>7, <4>2
      <4> QED BY <4>3 DEF Shows
    <3> QED BY <3>1, <3>2
  <2> QED BY <2>8 DEF Follows
<1>4. CASE d # e
  <2>1. state'[d] = state[d] /\ row'[d] = row[d]
    BY <1>0, <1>2, <1>4 DEF DeviceInv
  <2>2. Extends /\ ~ Exports(d)
    BY <1>2 DEF Extends, Exports
  <2> QED BY <2>1, <2>2, SameShown
<1> QED BY <1>3, <1>4

(* An export that was not overtaken writes the row of the current revision. *)
LEMMA ExportFollows ==
  ASSUME IInv, NEW x \in Devices, NEW e \in Devices, <<x, e>> \in Pairs, ExportWrite(x, e),
         NEW d \in Devices
  PROVE  Follows(d)
<1>0. DeviceInv /\ OneCurrent
  BY DEF IInv
<1>1. /\ UNCHANGED <<revision, state, todo, failed, faults>>
      /\ row' = [row EXCEPT ![x] = Written(export[x].found)]
      /\ export'[x] # export[x] /\ \A y \in Devices \ {x} : export'[y] = export[y]
  BY ExportWriteStep
<1>2. CASE d = x
  <2>1. export[x].at = "write" /\ Exports(x)
    BY <1>1 DEF ExportWrite, Exports
  <2> SUFFICES ASSUME export[x].found = Active(state[x]) PROVE Shows(x)'
    BY <1>2, <2>1 DEF Follows, Overtaken
  <2>2. Active(state[x])' = Active(state[x]) /\ row'[x] = Written(Active(state[x]))
    BY <1>0, <1>1 DEF Active, DeviceInv
  <2>3. CASE Active(state[x]) # {}
    <3>1. PICK id : id \in Active(state[x]) /\ Active(state[x]) = {id}
      BY <1>0, <2>3 DEF OneCurrent, OneAtMost
    <3>2. Written({id}) = Content(id) /\ Content(id)' = Content(id)
      BY <1>1, WinnerOfOne DEF Written, Content
    <3> QED BY <2>2, <3>1, <3>2 DEF Shows
  <2> QED BY <2>2, <2>3 DEF Shows
<1>3. CASE d # x
  <2>1. state'[d] = state[d] /\ row'[d] = row[d]
    BY <1>0, <1>1, <1>3 DEF DeviceInv
  <2>2. Extends /\ ~ Exports(d)
    BY <1>1, <1>3 DEF Extends, Exports
  <2> QED BY <2>1, <2>2, SameShown
<1> QED BY <1>2, <1>3

(* Whatever step is taken. *)
LEMMA StepFollows ==
  ASSUME IInv, [Next]_vars, NEW d \in Devices PROVE Follows(d)
<1>1. ASSUME UNCHANGED <<revision, state, row, failed>>, ~ Exports(d) PROVE Follows(d)
  BY <1>1, SameShown DEF Extends
<1>2. ASSUME NEW x \in Devices, ExportLook(x) \/ ExportSelect(x) PROVE Follows(d)
  <2>1. /\ UNCHANGED <<revision, state, row, failed>> /\ export[x].at # "write"
        /\ \A y \in Devices \ {x} : export'[y] = export[y]
    BY <1>2, LookStep
  <2> QED BY <1>1, <2>1 DEF Exports
<1>3. ASSUME NEW x \in Devices, ImportFails(x) PROVE Follows(d)
  <2>1. UNCHANGED <<revision, state, row, export>> /\ faults' # faults
    BY <1>3, FaultsAreCounted DEF ImportFails, IInv
  <2>2. Extends
    BY <1>3 DEF ImportFails, Extends, IInv, FailedInv
  <2> QED BY <2>1, <2>2, SameShown DEF Exports
<1>4. ASSUME NEW x \in Devices, Crash(x) PROVE Follows(d)
  <2>1. UNCHANGED <<revision, state, row, failed>>
    BY <1>4 DEF Crash
  <2>2. faults' # faults
    BY <1>4, CrashStep
  <2> QED BY <1>1, <2>1, <2>2 DEF Exports
<1>5. ASSUME NEW x \in Devices, NEW e \in Devices, <<x, e>> \in Pairs, ExportList(x, e)
      PROVE  Follows(d)
  <2>1. /\ UNCHANGED <<revision, state, row, failed>> /\ export[x].at # "write"
        /\ \A y \in Devices \ {x} : export'[y] = export[y]
    BY <1>5, ExportListStep
  <2> QED BY <1>1, <2>1 DEF Exports
<1>6. ASSUME NEW x \in Devices, NEW e \in Devices, Plan(e, x) PROVE Follows(d)
  BY <1>1, <1>6 DEF Plan, Exports
<1>7. CASE UNCHANGED vars
  BY <1>1, <1>7 DEF vars, Exports
<1> QED BY <1>2, <1>3, <1>4, <1>5, <1>6, <1>7, Cases, WriteFollows, ImportFollows, ExportFollows

-----------------------------------------------------------------------------
(* What is current stays, on two devices.                                  *)

(* There are two devices at most. *)
TwoDevices == \A d, e, f \in Devices : d = e \/ d = f \/ e = f

(* Newer, or the same. *)
AtLeast(x, y) == x = y \/ Newer(x, y)

(* The revisions that a device wrote; whether what is current stays so     *)
(* throughout a plan; whether the plan has a revision to become current.   *)
Own(d)  == {o \in DOMAIN revision : o.by = d}
Held(d) == \E c \in Active(state[d]) : [id |-> c, state |-> "superseded"] \notin todo[d]
Due(d)  == \E t \in todo[d] : t.state = "active"

(* A device has the revisions that it wrote. *)
AuthorInv == \A id \in DOMAIN revision : id \in DOMAIN state[id.by]

(* What a revision is built on is older, if its own author wrote it. *)
ChainInv == \A w \in DOMAIN revision : \A x \in Under(w) : x.by = w.by => x.at < w.at

(* What a device has or plans of another's revisions was in its last manifest. *)
SeenInv == \A p \in Pairs :
  /\ \A y \in DOMAIN state[p[2]] : y.by = p[1] => y \in DOMAIN manifest[p]
  /\ \A t \in todo[p[2]] : t.id.by = p[1] => t.id \in DOMAIN manifest[p]

(* A revision that is planned to become current is on top of the plan. *)
TopInv == \A d \in Devices : \A t \in todo[d] :
  t.state = "active" => \A b \in todo[d] : b.id \in Line(t.id)

(* What is current at a device, or will be without another, is not older   *)
(* than what the device wrote.                                             *)
NewestInv == \A d \in Devices :
  /\ \A c \in Active(state[d]), o \in Own(d) : AtLeast(c, o)
  /\ \A t \in todo[d] : t.state = "active" => Held(d) \/ \A o \in Own(d) : AtLeast(t.id, o)

(* The same of a manifest, as far as its sender wrote both. *)
SentInv == \A p \in Pairs : \A z \in Active(manifest[p]), y \in DOMAIN manifest[p] :
  z.by = p[1] /\ y.by = p[1] => AtLeast(z, y)

(* A device builds on a revision that the other does not know only with    *)
(* one after the other.                                                    *)
RunInv == \A p \in Pairs : \A x \in Own(p[1]), y \in Own(p[1]), w \in Own(p[1]) :
  /\ x \notin DOMAIN state[p[2]] /\ x \in Line(w)
  /\ x.at <= y.at /\ y.at <= w.at
  => x \in Line(y)

(* A device with revisions, or with a plan, has or gets a current one. *)
KeepInv == \A d \in Devices : state[d] # Empty \/ todo[d] # {} => Held(d) \/ Due(d)

(* What holds until the first crash or failed import, and what holds always. *)
NoneFailed == \A d \in Devices : failed[d] = {}
FaultFree  == NoneFailed /\ NewestInv /\ SentInv /\ RunInv /\ KeepInv
CurrentInv ==
  /\ IInv /\ AuthorInv /\ ChainInv /\ SeenInv /\ TopInv
  /\ faults = 0 => FaultFree

(* The key orders revisions, and those of one author by time. *)
LEMMA AtLeastFacts ==
  ASSUME NEW x \in Ids, NEW y \in Ids, NEW z \in Ids
  PROVE  /\ AtLeast(x, y) /\ AtLeast(y, z) => AtLeast(x, z)
         /\ Newer(x, y) /\ AtLeast(y, z) => Newer(x, z)
         /\ x.by = y.by => /\ AtLeast(x, y) => y.at <= x.at
                           /\ y.at < x.at => Newer(x, y)
                           /\ Newer(x, y) => y.at < x.at
         /\ ~(Newer(x, y) /\ AtLeast(y, x)) /\ ~Newer(x, x)
         /\ Newer(x, y) \/ AtLeast(y, x)
<1>1. /\ x.at \in Nat /\ x.by \in Nat /\ y.at \in Nat /\ y.by \in Nat
      /\ z.at \in Nat /\ z.by \in Nat
  BY DevicesAndTimes DEF Ids
<1>2. x # y => x.at # y.at \/ x.by # y.by
  BY DEF Ids
<1>3. Newer(x, y) /\ Newer(y, z) => Newer(x, z)
  BY <1>1 DEF Newer
<1>4. x.by = y.by => (Newer(x, y) <=> y.at < x.at)
  BY <1>1 DEF Newer
<1>5. ~(Newer(x, y) /\ Newer(y, x)) /\ ~Newer(x, x)
  BY <1>1 DEF Newer
<1>6. Newer(x, y) \/ Newer(y, x) \/ x = y
  BY NewerTotal
<1>7. x.by = y.by => (AtLeast(x, y) => y.at <= x.at)
  BY <1>1, <1>4 DEF AtLeast
<1> QED BY <1>3, <1>4, <1>5, <1>6, <1>7 DEF AtLeast

(* What is written is new, later than all else of its author, and built on *)
(* one base or on nothing.                                                 *)
LEMMA WriteMoves ==
  ASSUME IInv, NEW d \in Devices, Write(d)
  PROVE  \E id \in Ids :
           /\ id \notin DOMAIN revision /\ id.by = d /\ \A o \in Own(d) : o.at < id.at
           /\ DOMAIN revision' = DOMAIN revision \cup {id}
           /\ \A x \in DOMAIN revision : revision'[x] = revision[x]
           /\ \/ Line(id)' = {id}
              \/ \E b \in Bases(state[d]) : Line(id)' = Line(b) \cup {id}
           /\ Active(state'[d]) = {id} /\ DOMAIN state'[d] = DOMAIN state[d] \cup {id}
           /\ \A x \in Devices \ {d} : state'[x] = state[x]
           /\ UNCHANGED <<manifest, todo, export, failed, faults>>
<1>1. PICK t \in Times, c \in Contents,
           line \in IF state[d] = Empty THEN {{}} ELSE {Line(b) : b \in Bases(state[d])} :
         LET id == [at |-> t, by |-> d]
         IN /\ ClockMayRead(d, t)
            /\ revision' = With(revision, id, [line |-> line \cup {id}, content |-> c])
            /\ state' = [state EXCEPT ![d] = With(Supersede(@), id, "active")]
  BY DEF Write
<1> DEFINE id == [at |-> t, by |-> d]
<1>2. id \in Ids /\ id.by = d /\ id.at = t /\ t \in Nat
  BY DevicesAndTimes DEF Ids
<1>3. id \notin DOMAIN revision /\ \A o \in Own(d) : o.at < id.at
  BY <1>1, <1>2 DEF ClockMayRead, Own
<1> DEFINE new == [line |-> line \cup {id}, content |-> c]
<1>4. revision' = With(revision, id, new) /\ new.line = line \cup {id}
      /\ state' = [state EXCEPT ![d] = With(Supersede(@), id, "active")]
  BY <1>1
<1>5. line = {} \/ \E b \in Bases(state[d]) : line = Line(b)
  BY <1>1
<1>6. UNCHANGED <<manifest, todo, export, failed, faults>>
  BY DEF Write
<1> HIDE DEF id, new
<1>7. /\ DOMAIN revision' = DOMAIN revision \cup {id}
      /\ \A x \in DOMAIN revision : revision'[x] = revision[x]
      /\ revision'[id] = new
  <2>1. revision' = [y \in DOMAIN revision \cup {id} |-> IF y = id THEN new ELSE revision[y]]
    BY <1>4 DEF With
  <2> QED BY <1>3, <2>1
<1>8. Line(id)' = line \cup {id}
  BY <1>4, <1>7 DEF Line
<1>9. PICK s : s = With(Supersede(state[d]), id, "active")
  OBVIOUS
<1>10. state'[d] = s /\ \A x \in Devices \ {d} : state'[x] = state[x]
  <2>1. state = [x \in Devices |-> state[x]]
    BY DEF IInv, DeviceInv
  <2>2. state' = [state EXCEPT ![d] = s]
    BY <1>4, <1>9
  <2> QED BY <2>1, <2>2
<1>11. Active(s) = {id} /\ DOMAIN s = DOMAIN state[d] \cup {id}
  BY <1>9, SupersedeFacts
<1>12. Line(id)' = {id} \/ \E b \in Bases(state[d]) : Line(id)' = Line(b) \cup {id}
  BY <1>5, <1>8
<1> QED BY <1>2, <1>3, <1>6, <1>7, <1>10, <1>11, <1>12

(* An import makes a revision superseded, or makes current the newer of it *)
(* and what is current; the revision to become current comes last.         *)
LEMMA ImportMoves ==
  ASSUME IInv, NEW e \in Devices, ImportNext(e)
  PROVE  \E a \in todo[e] :
           /\ BasesApplied(e, a) /\ a.id \in DOMAIN revision /\ a.id \in Ids
           /\ DOMAIN state'[e] = DOMAIN state[e] \cup {a.id} /\ todo'[e] = todo[e] \ {a}
           /\ \A x \in Devices \ {e} : state'[x] = state[x] /\ todo'[x] = todo[x]
           /\ UNCHANGED <<revision, manifest, export, failed, faults>>
           /\ \/ /\ a.state = "superseded" /\ Active(state'[e]) = Active(state[e]) \ {a.id}
              \/ /\ a.state = "active"
                 /\ \E w \in Active(state[e]) \cup {a.id} :
                      /\ Active(state'[e]) = {w}
                      /\ \A x \in Active(state[e]) : AtLeast(w, x)
<1>0. LineInv /\ DeviceInv /\ TodoInv /\ OneCurrent
  BY DEF IInv
<1>1. PICK a \in todo[e] :
         /\ BasesApplied(e, a)
         /\ state' = [state EXCEPT ![e] = Settle(With(state[e], a.id, a.state))]
         /\ todo' = [todo EXCEPT ![e] = @ \ {a}]
  <2>1. state = [d \in Devices |-> state[d]]
    BY <1>0 DEF DeviceInv
  <2> QED BY <2>1 DEF ImportNext
<1>2. a.id \in DOMAIN revision /\ a.id \in Ids /\ a.state \in States
  BY <1>0, <1>1 DEF TodoInv, LineInv
<1>3. PICK s, t : s = With(state[e], a.id, a.state) /\ t = Settle(s)
  OBVIOUS
<1>4. /\ state'[e] = t /\ todo'[e] = todo[e] \ {a}
      /\ \A x \in Devices \ {e} : state'[x] = state[x] /\ todo'[x] = todo[x]
  <2>1. state = [x \in Devices |-> state[x]] /\ todo = [x \in Devices |-> todo[x]]
    BY <1>0 DEF DeviceInv, TodoInv
  <2> QED BY <1>1, <1>3, <2>1
<1>5. DOMAIN s = DOMAIN state[e] \cup {a.id} /\ s[a.id] = a.state
      /\ \A y \in DOMAIN state[e] \ {a.id} : s[y] = state[e][y]
  <2>1. s = [y \in DOMAIN state[e] \cup {a.id} |-> IF y = a.id THEN a.state ELSE state[e][y]]
    BY <1>3 DEF With
  <2> QED BY <2>1
<1>6. Closed(state[e], failed[e])
  BY <1>0 DEF DeviceInv
<1>7. \A id \in DOMAIN s : s[id] \in States
  BY <1>2, <1>5, <1>6 DEF Closed
<1>8. PICK y \in Ids : \/ Active(state[e]) = {}
                       \/ Active(state[e]) = {y} /\ y \in DOMAIN state[e]
  BY <1>0, <1>2, CurrentFacts
<1>9. Active(s) = (Active(state[e]) \ {a.id}) \cup (IF a.state = "active" THEN {a.id} ELSE {})
  BY <1>5 DEF Active
<1>10. /\ DOMAIN t = DOMAIN s
       /\ Active(s) = {} => Active(t) = {}
       /\ Active(s) # {} => /\ Winner(Active(s)) \in Active(s)
                            /\ Active(t) = {Winner(Active(s))}
  <2>1. Active(s) \subseteq {y, a.id}
    BY <1>8, <1>9
  <2> QED BY <1>2, <1>3, <1>7, <2>1, SettleFacts
<1>11. ASSUME a.state = "superseded" PROVE Active(t) = Active(state[e]) \ {a.id}
  <2>1. Active(s) = Active(state[e]) \ {a.id}
    BY <1>9, <1>11
  <2>2. Active(s) = {} \/ Active(s) = {y}
    BY <1>8, <2>1
  <2> QED BY <1>10, <2>1, <2>2, WinnerOfOne
<1>12. ASSUME a.state = "active"
       PROVE  \E w \in Active(state[e]) \cup {a.id} :
                Active(t) = {w} /\ \A x \in Active(state[e]) : AtLeast(w, x)
  <2>1. PICK w : w = Winner(Active(s))
    OBVIOUS
  <2>2. Active(s) = Active(state[e]) \cup {a.id}
    BY <1>9, <1>12
  <2>3. w \in Active(state[e]) \cup {a.id} /\ Active(t) = {w}
    BY <1>10, <2>1, <2>2
  <2>4. ASSUME NEW x \in Active(state[e]) PROVE AtLeast(w, x)
    <3>1. x = y /\ Active(s) = {y, a.id}
      BY <1>8, <2>2, <2>4
    <3>2. w = y \/ Newer(w, y)
      BY <1>2, <2>1, <3>1, WinnerOfTwo
    <3> QED BY <3>1, <3>2 DEF AtLeast
  <2> QED BY <2>3, <2>4
<1>13. UNCHANGED <<revision, manifest, export, failed, faults>>
  BY DEF ImportNext
<1>14. a.state = "superseded" \/ a.state = "active"
  BY <1>2 DEF States
<1> QED BY <1>1, <1>2, <1>4, <1>5, <1>10, <1>11, <1>12, <1>13, <1>14

(* A plan is made for the one current revision of a manifest, which is     *)
(* newer than the one that the device has.                                 *)
LEMMA PlanMoves ==
  ASSUME IInv, NEW e \in Devices, NEW d \in Devices, <<d, e>> \in Pairs, Plan(e, d)
  PROVE  \E id \in Ids : \E refused :
           /\ todo[e] = {} /\ todo'[e] = Actions(state[e], manifest[<<d, e>>], id, refused)
           /\ \A x \in Devices \ {e} : todo'[x] = todo[x]
           /\ UNCHANGED <<revision, state, row, manifest, export, failed, faults>>
           /\ Active(manifest[<<d, e>>]) = {id}
           /\ id \in DOMAIN revision
           /\ failed[d] = {} => Line(id) \subseteq DOMAIN manifest[<<d, e>>]
           /\ \A x \in refused : /\ x \in Line(id) \ DOMAIN state[e]
                                 /\ Loses(state[e], manifest[<<d, e>>], x)
           /\ \/ state[e] = Empty
              \/ \E c \in Ids : Active(state[e]) = {c} /\ c \in DOMAIN state[e] /\ Newer(id, c)
<1>0. /\ LineInv /\ DeviceInv /\ ManifestInv /\ TodoInv /\ OneCurrent
      /\ FailedInv /\ ExportInv
  BY DEF IInv
<1>1. PICK s, m : s = state[e] /\ m = manifest[<<d, e>>]
  OBVIOUS
<1>2. PICK id \in Wanted(s, row[e], m) :
         \E refused \in SUBSET {x \in Chain(m, id) \ DOMAIN s : Loses(s, m, x)} :
           todo' = [todo EXCEPT ![e] = Actions(s, m, id, refused)]
  BY <1>1 DEF Plan
<1>3. PICK refused \in SUBSET {x \in Chain(m, id) \ DOMAIN s : Loses(s, m, x)} :
           todo' = [todo EXCEPT ![e] = Actions(s, m, id, refused)]
  BY <1>2
<1>4. PICK plan : plan = Actions(s, m, id, refused)
  OBVIOUS
<1>5. todo'[e] = plan /\ \A x \in Devices \ {e} : todo'[x] = todo[x]
  <2>1. todo = [x \in Devices |-> todo[x]] /\ todo' = [todo EXCEPT ![e] = plan]
    BY <1>0, <1>3, <1>4 DEF TodoInv
  <2> QED BY <2>1
<1>6. Active(m) = {id} /\ (Missing(s, row[e]) \/ Replaces(s, id)) /\ id \in DOMAIN m
  BY <1>2 DEF Wanted, Active
<1>7. Closed(m, failed[d])
  <2>1. <<d, e>>[1] = d
    OBVIOUS
  <2> QED BY <1>0, <1>1, <2>1 DEF ManifestInv
<1>8. id \in Ids /\ id \in DOMAIN revision /\ (failed[d] = {} => Line(id) \subseteq DOMAIN m)
  BY <1>0, <1>6, <1>7 DEF Closed, LineInv
<1>9. \/ s = Empty
      \/ \E c \in Ids : Active(s) = {c} /\ c \in DOMAIN s /\ Newer(id, c)
  <2>1. CASE Missing(s, row[e])
    BY <2>1 DEF Missing
  <2>2. CASE Replaces(s, id)
    <3>1. Active(s) # {} /\ Newer(id, Winner(Active(s)))
      BY <2>2 DEF Replaces
    <3>2. PICK c \in Ids : Active(s) = {c} /\ c \in DOMAIN s /\ Winner(Active(s)) = c
      BY <1>0, <1>1, <3>1, CurrentFacts
    <3> QED BY <3>1, <3>2
  <2> QED BY <1>6, <2>1, <2>2
<1>10. todo[e] = {} /\ UNCHANGED <<revision, state, row, manifest, export, failed, faults>>
  BY DEF Plan
<1>11. \A x \in refused : x \in Line(id) \ DOMAIN s /\ Loses(s, m, x)
  BY <1>3 DEF Chain
<1> QED BY <1>1, <1>4, <1>5, <1>6, <1>8, <1>9, <1>10, <1>11

(* No revision on the way from what a device has current to the revision   *)
(* that replaces it is refused.  A sibling y of such a revision x that is  *)
(* newer would be the device's own, or the sender's.  In the first case    *)
(* what is current is at least as new as y, hence newer than x, and below  *)
(* both: but it is older than that of the two which its author wrote.  In  *)
(* the second case the sender wrote y after x, which the device does not   *)
(* know, and so on top of it.                                              *)
LEMMA NoneRefused ==
  ASSUME TwoDevices, CurrentInv, faults = 0,
         NEW d \in Devices, NEW e \in Devices, <<d, e>> \in Pairs, d # e,
         NEW id \in Ids, Active(manifest[<<d, e>>]) = {id}, id \in DOMAIN revision,
         Line(id) \subseteq DOMAIN manifest[<<d, e>>],
         NEW c \in Ids, Active(state[e]) = {c}, c \in DOMAIN state[e], Newer(id, c),
         c \in Line(id), NEW x \in Line(id) \ DOMAIN state[e]
  PROVE  ~Loses(state[e], manifest[<<d, e>>], x)
<1> DEFINE p == <<d, e>>
           s == state[e]
           m == manifest[p]
<1>0. /\ IInv /\ AuthorInv /\ ChainInv /\ SeenInv /\ NewestInv /\ SentInv /\ RunInv
      /\ LineInv /\ DeviceInv /\ NoneFailed
  BY DEF CurrentInv, FaultFree, IInv
<1>p. p \in Pairs /\ p[1] = d /\ p[2] = e
  OBVIOUS
<1>1. /\ \A z \in DOMAIN s : z \in DOMAIN revision /\ Line(z) \subseteq DOMAIN s
      /\ DOMAIN s \subseteq Ids
  <2>1. Closed(s, failed[e]) /\ failed[e] = {}
    BY <1>0 DEF DeviceInv, NoneFailed
  <2> QED BY <1>0, <2>1 DEF Closed, LineInv
<1>2. x \in DOMAIN revision /\ x \in Ids /\ x \in DOMAIN m
  BY <1>0 DEF LineInv
<1>3. ASSUME NEW z \in DOMAIN revision, z \notin DOMAIN s PROVE z.by = d
  <2>1. z \in DOMAIN state[z.by] /\ z.by \in Devices
    BY <1>0 DEF AuthorInv, LineInv, Ids
  <2> QED BY <1>3, <2>1 DEF TwoDevices
<1>4. x.by = d
  BY <1>2, <1>3
<1>5. c \in Line(x) /\ c # x
  <2>1. c \in Line(x) \/ x \in Line(c)
    BY <1>0 DEF LineInv
  <2>2. Line(c) \subseteq DOMAIN s
    BY <1>1
  <2> QED BY <2>1, <2>2
<1>6. SUFFICES ASSUME x # id, NEW y \in DOMAIN s, Under(y) = Under(x), ~Newer(x, y)
               PROVE  FALSE
  <2>1. CASE x = id
    <3>1. Rivals(s, m, x) = {c}
      BY <2>1, WinnerOfOne DEF Rivals, Active
    <3> QED BY <2>1, <3>1 DEF Loses
  <2>2. CASE x # id
    <3>1. m[x] # "active"
      BY <1>2, <2>2 DEF Active
    <3>2. \A y \in Rivals(s, m, x) : y \in DOMAIN s /\ Under(y) = Under(x)
      BY <3>1 DEF Rivals
    <3> QED BY <1>6, <2>2, <3>2 DEF Loses
  <2> QED BY <2>1, <2>2
<1>7. /\ y \in Ids /\ y \in DOMAIN revision /\ y # x /\ Newer(y, x)
      /\ c \in Under(x) /\ c \in Under(y) /\ y \notin Under(y) /\ x \notin Under(x)
  <2>1. y \in Ids /\ y \in DOMAIN revision /\ y # x
    BY <1>0, <1>1
  <2>2. Newer(y, x)
    BY <1>2, <1>6, <2>1, NewerTotal
  <2>3. c \in Under(x) /\ y \notin Under(y) /\ x \notin Under(x)
    BY <1>5 DEF Under
  <2> QED BY <1>6, <2>1, <2>2, <2>3
<1>8. /\ y.by \in Devices /\ c.by \in Devices
      /\ c.at \in Nat /\ x.at \in Nat /\ y.at \in Nat
  BY <1>2, <1>7, DevicesAndTimes DEF Ids
<1>9. CASE y.by = e
  <2>1. AtLeast(c, y)
    BY <1>0, <1>7, <1>9 DEF NewestInv, Own
  <2>2. Newer(c, y)
    BY <1>7, <2>1 DEF AtLeast
  <2>3. Newer(c, x)
    BY <1>2, <1>7, <2>2, AtLeastFacts DEF AtLeast
  <2>4. CASE c.by = e
    <3>1. c.at < y.at
      BY <1>0, <1>7, <1>9, <2>4 DEF ChainInv
    <3>2. y.at < c.at
      BY <1>7, <1>9, <2>2, <2>4, AtLeastFacts
    <3> QED BY <1>8, <3>1, <3>2
  <2>5. CASE c.by = d
    <3>1. c.at < x.at
      BY <1>0, <1>2, <1>4, <1>7, <2>5 DEF ChainInv
    <3>2. x.at < c.at
      BY <1>2, <1>4, <2>3, <2>5, AtLeastFacts
    <3> QED BY <1>8, <3>1, <3>2
  <2> QED BY <1>8, <2>4, <2>5 DEF TwoDevices
<1>10. CASE y.by = d
  <2>1. x.at <= y.at
    BY <1>2, <1>4, <1>7, <1>10, AtLeastFacts DEF AtLeast
  <2>2. id \notin DOMAIN s /\ id.by = d
    <3>1. id \notin DOMAIN s
      BY <1>1
    <3> QED BY <1>3, <3>1
  <2>3. y \in DOMAIN m
    BY <1>0, <1>p, <1>10 DEF SeenInv
  <2>4. AtLeast(id, y)
    <3>1. id \in Active(m)
      OBVIOUS
    <3> QED BY <1>0, <1>p, <1>10, <2>2, <2>3, <3>1 DEF SentInv
  <2>5. y.at <= id.at
    BY <1>7, <1>10, <2>2, <2>4, AtLeastFacts
  <2>6. x \in Line(y)
    <3>1. x \in Own(d) /\ y \in Own(d) /\ id \in Own(d)
      BY <1>2, <1>4, <1>7, <1>10, <2>2 DEF Own
    <3> QED BY <1>0, <1>p, <2>1, <2>5, <3>1 DEF RunInv
  <2> QED BY <1>6, <1>7, <2>6 DEF Under
<1> QED BY <1>8, <1>9, <1>10 DEF TwoDevices

(* A local result keeps the invariant. *)
LEMMA WriteKeeps ==
  ASSUME TwoDevices, CurrentInv, NEW d \in Devices, Write(d) PROVE CurrentInv'
<1>0. IInv /\ AuthorInv /\ ChainInv /\ SeenInv /\ TopInv /\ LineInv /\ DeviceInv /\ TodoInv
  BY DEF CurrentInv, IInv
<1>1. PICK id \in Ids :
           /\ id \notin DOMAIN revision /\ id.by = d /\ \A o \in Own(d) : o.at < id.at
           /\ DOMAIN revision' = DOMAIN revision \cup {id}
           /\ \A x \in DOMAIN revision : revision'[x] = revision[x]
           /\ \/ Line(id)' = {id}
              \/ \E b \in Bases(state[d]) : Line(id)' = Line(b) \cup {id}
           /\ Active(state'[d]) = {id} /\ DOMAIN state'[d] = DOMAIN state[d] \cup {id}
           /\ \A x \in Devices \ {d} : state'[x] = state[x]
           /\ UNCHANGED <<manifest, todo, export, failed, faults>>
  BY <1>0, WriteMoves
<1>2. IInv'
  BY <1>0, WriteStep
<1>3. \A x \in DOMAIN revision : Line(x)' = Line(x) /\ Line(x) \subseteq DOMAIN revision
  BY <1>0, <1>1 DEF Line, LineInv
<1>4. \A x \in Devices : DOMAIN state[x] \subseteq DOMAIN revision
  BY <1>0 DEF DeviceInv, Closed
<1>5. \A b \in Bases(state[d]) : b \in DOMAIN state[d] /\ b \in DOMAIN revision /\ b \in Ids
  <2>1. \A b \in Bases(state[d]) : b \in DOMAIN state[d]
    BY DEF Bases, Active
  <2> QED BY <1>0, <1>4, <2>1 DEF LineInv
<1>6. \A x \in Devices : Own(x)' = IF x = d THEN Own(d) \cup {id} ELSE Own(x)
  BY <1>1 DEF Own
<1>7. \A x \in Devices : DOMAIN state[x] \subseteq DOMAIN state'[x]
  BY <1>1
<1>8. AuthorInv'
  <2> SUFFICES ASSUME NEW x \in DOMAIN revision' PROVE x \in DOMAIN state'[x.by]
    BY DEF AuthorInv
  <2>1. CASE x = id
    BY <1>1, <2>1
  <2>2. CASE x # id
    <3>1. x \in DOMAIN revision /\ x.by \in Devices
      BY <1>0, <1>1, <2>2 DEF LineInv, Ids
    <3> QED BY <1>0, <1>7, <3>1 DEF AuthorInv
  <2> QED BY <2>1, <2>2
<1>9. ChainInv'
  <2> SUFFICES ASSUME NEW w \in DOMAIN revision', NEW x \in Line(w)', x # w, x.by = w.by
               PROVE  x.at < w.at
    BY DEF ChainInv, Under
  <2>1. CASE w # id
    <3>1. w \in DOMAIN revision /\ Line(w)' = Line(w)
      BY <1>1, <1>3, <2>1
    <3> QED BY <1>0, <1>3, <3>1 DEF ChainInv, Under
  <2>2. CASE w = id
    <3>1. PICK b \in Bases(state[d]) : x \in Line(b)
      BY <1>1, <2>2
    <3>2. x \in DOMAIN revision
      BY <1>3, <1>5, <3>1
    <3> QED BY <1>1, <2>2, <3>2 DEF Own
  <2> QED BY <2>1, <2>2
<1>10. SeenInv'
  <2> SUFFICES ASSUME NEW p \in Pairs
               PROVE  /\ \A y \in DOMAIN state'[p[2]] : y.by = p[1] => y \in DOMAIN manifest'[p]
                      /\ \A t \in todo'[p[2]] : t.id.by = p[1] => t.id \in DOMAIN manifest'[p]
    BY DEF SeenInv
  <2>1. p[1] \in Devices /\ p[2] \in Devices /\ p[1] # p[2]
    BY DEF Pairs
  <2>2. \A y \in DOMAIN state'[p[2]] : y.by = p[1] => y \in DOMAIN state[p[2]]
    BY <1>1, <2>1
  <2> QED BY <1>0, <1>1, <2>2 DEF SeenInv
<1>11. TopInv'
  <2>1. \A x \in Devices : \A t \in todo[x] : Line(t.id)' = Line(t.id)
    BY <1>0, <1>3 DEF TodoInv
  <2> QED BY <1>0, <1>1, <2>1 DEF TopInv
<1>12. ASSUME faults = 0 PROVE FaultFree'
  <2>0. NoneFailed /\ NewestInv /\ SentInv /\ RunInv /\ KeepInv
    BY <1>12 DEF CurrentInv, FaultFree
  <2>1. Held(d)' /\ \A x \in Devices \ {d} : Held(x)' = Held(x)
    <3>1. \A t \in todo[d] : t.id \in DOMAIN revision
      BY <1>0 DEF TodoInv
    <3>2. [id |-> id, state |-> "superseded"] \notin todo'[d]
      BY <1>1, <3>1
    <3>3. Held(d)'
      BY <1>1, <3>2 DEF Held
    <3> QED BY <1>1, <3>3 DEF Held
  <2>2. NewestInv'
    <3> SUFFICES ASSUME NEW x \in Devices
                 PROVE  /\ \A c \in Active(state'[x]), o \in Own(x)' : AtLeast(c, o)
                        /\ \A t \in todo'[x] : t.state = "active" =>
                             Held(x)' \/ \A o \in Own(x)' : AtLeast(t.id, o)
      BY DEF NewestInv, AtLeast, Active, Newer
    <3>1. CASE x = d
      <4>1. ASSUME NEW o \in Own(d) PROVE AtLeast(id, o)
        <5>1. o \in Ids /\ o.by = d /\ o.at < id.at
          BY <1>0, <1>1 DEF Own, LineInv
        <5> QED BY <1>1, <5>1, AtLeastFacts DEF AtLeast
      <4>2. AtLeast(id, id)
        BY DEF AtLeast
      <4> QED BY <1>1, <1>6, <2>1, <3>1, <4>1, <4>2
    <3>2. CASE x # d
      BY <1>1, <1>6, <2>0, <2>1, <3>2 DEF NewestInv
    <3> QED BY <3>1, <3>2
  <2>3. SentInv'
    BY <1>1, <2>0 DEF SentInv, Active, AtLeast, Newer
  <2>4. RunInv'
    <3> SUFFICES ASSUME NEW p \in Pairs,
                        NEW x \in Own(p[1])', NEW y \in Own(p[1])', NEW w \in Own(p[1])',
                        x \notin DOMAIN state'[p[2]], x \in Line(w)',
                        x.at <= y.at, y.at <= w.at
                 PROVE  x \in Line(y)'
      BY DEF RunInv
    <3>1. p[1] \in Devices /\ p[2] \in Devices /\ p[1] # p[2] /\ x \notin DOMAIN state[p[2]]
      BY <1>7 DEF Pairs
    <3>2. ASSUME x \in Own(p[1]), y \in Own(p[1]), w \in Own(p[1]) PROVE x \in Line(y)'
      <4>1. x \in Line(w)
        BY <1>3, <3>2 DEF Own
      <4>2. x \in Line(y)
        BY <2>0, <3>1, <3>2, <4>1 DEF RunInv
      <4> QED BY <1>3, <3>2, <4>2 DEF Own
    <3>3. CASE p[1] # d
      BY <1>6, <3>1, <3>2, <3>3
    <3>4. CASE p[1] = d
      <4>1. \A o \in Own(d) : o.at \in Nat /\ o.at < id.at
        BY <1>0, <1>1, DevicesAndTimes DEF Own, LineInv, Ids
      <4>2. id.at \in Nat /\ \A o \in Own(d)' : o.at \in Nat /\ (o = id \/ o \in Own(d))
        BY <1>1, <1>6, <4>1, DevicesAndTimes DEF Ids
      <4>3. CASE y = id
        <5>1. w = id
          BY <3>4, <4>1, <4>2, <4>3
        <5> QED BY <4>3, <5>1
      <4>4. CASE y # id /\ w # id
        <5>1. y \in Own(d) /\ w \in Own(d)
          BY <3>4, <4>2, <4>4
        <5>2. x # id
          BY <4>1, <4>2, <5>1, <3>4
        <5> QED BY <3>2, <3>4, <4>2, <5>1, <5>2
      <4>5. CASE y # id /\ w = id
        <5>1. y \in Own(d) /\ x # id /\ x \in Own(d)
          BY <3>4, <4>1, <4>2, <4>5
        <5>2. PICK b \in Bases(state[d]) : x \in Line(b)
          BY <1>1, <4>5, <5>1
        <5>3. b \in DOMAIN state[d] /\ b \in DOMAIN revision /\ b \in Ids
          BY <1>5
        <5>4. b.by = d
          <6>1. b \notin DOMAIN state[p[2]]
            BY <1>0, <2>0, <3>1, <5>2 DEF DeviceInv, Closed, NoneFailed
          <6>2. b.by \in Devices /\ b \in DOMAIN state[b.by]
            BY <1>0, <5>3 DEF AuthorInv, Ids
          <6> QED BY <3>1, <3>4, <6>1, <6>2 DEF TwoDevices
        <5>5. y.at <= b.at
          <6>1. y \in Ids /\ y.by = d /\ y \in DOMAIN state[d]
            BY <1>0, <5>1 DEF Own, LineInv, AuthorInv
          <6>2. CASE Active(state[d]) = {}
            <7>1. \A z \in DOMAIN state[d] : b.at >= z.at
              BY <6>2 DEF Bases
            <7> QED BY <6>1, <7>1, <4>2, <5>3, DevicesAndTimes DEF Ids
          <6>3. CASE Active(state[d]) # {}
            <7>1. b \in Active(state[d])
              BY <6>3 DEF Bases
            <7>2. AtLeast(b, y)
              BY <2>0, <5>1, <7>1 DEF NewestInv
            <7> QED BY <5>3, <5>4, <6>1, <7>2, AtLeastFacts
          <6> QED BY <6>2, <6>3
        <5>6. x \in Line(y)
          <6>1. b \in Own(d)
            BY <5>3, <5>4 DEF Own
          <6> QED BY <2>0, <3>1, <3>4, <5>1, <5>2, <5>5, <6>1 DEF RunInv
        <5>7. y \in DOMAIN revision
          BY <5>1 DEF Own
        <5> QED BY <1>3, <5>6, <5>7
      <4> QED BY <4>3, <4>4, <4>5
    <3> QED BY <3>3, <3>4
  <2>5. KeepInv'
    <3> SUFFICES ASSUME NEW x \in Devices, state'[x] # Empty \/ todo'[x] # {}
                 PROVE  Held(x)' \/ Due(x)'
      BY DEF KeepInv, Empty
    <3>1. Due(x)' = Due(x)
      BY <1>1 DEF Due
    <3>2. CASE x # d
      <4>1. state[x] # Empty \/ todo[x] # {}
        BY <1>1, <3>2
      <4> QED BY <2>0, <2>1, <3>1, <3>2, <4>1 DEF KeepInv
    <3> QED BY <2>1, <3>2
  <2>6. NoneFailed'
    BY <1>1, <2>0 DEF NoneFailed
  <2> QED BY <2>2, <2>3, <2>4, <2>5, <2>6 DEF FaultFree
<1> QED BY <1>1, <1>2, <1>8, <1>9, <1>10, <1>11, <1>12 DEF CurrentInv

(* A step that at most sends what a device has keeps the invariant. *)
LEMMA SendKeeps ==
  ASSUME CurrentInv, IInv', UNCHANGED <<revision, state, todo, failed, faults>>,
         \A p \in Pairs : manifest'[p] = manifest[p] \/ manifest'[p] = state[p[1]]
  PROVE  CurrentInv'
<1>0. IInv /\ AuthorInv /\ ChainInv /\ SeenInv /\ TopInv /\ ManifestInv /\ DeviceInv /\ LineInv
  BY DEF CurrentInv, IInv
<1>1. \A p \in Pairs : p[1] \in Devices /\ p[2] \in Devices
  BY DEF Pairs
<1>2. \A p \in Pairs : DOMAIN manifest[p] \subseteq DOMAIN manifest'[p]
  BY <1>0 DEF ManifestInv
<1>3. AuthorInv' /\ ChainInv' /\ TopInv'
  BY <1>0 DEF AuthorInv, ChainInv, TopInv, Line, Under
<1>4. SeenInv'
  BY <1>0, <1>2 DEF SeenInv
<1>5. ASSUME faults = 0 PROVE FaultFree'
  <2>0. NoneFailed /\ NewestInv /\ SentInv /\ RunInv /\ KeepInv
    BY <1>5 DEF CurrentInv, FaultFree
  <2>1. NoneFailed' /\ NewestInv' /\ RunInv' /\ KeepInv'
    BY <2>0 DEF NoneFailed, NewestInv, RunInv, KeepInv, Held, Due, Own, Line, Active, AtLeast,
                Newer, Empty
  <2>2. SentInv'
    <3> SUFFICES ASSUME NEW p \in Pairs, NEW z \in Active(manifest'[p]),
                        NEW y \in DOMAIN manifest'[p], z.by = p[1], y.by = p[1]
                 PROVE  AtLeast(z, y)
      BY DEF SentInv, AtLeast, Active, Newer
    <3>1. CASE manifest'[p] = state[p[1]]
      <4>1. y \in Own(p[1]) /\ z \in Active(state[p[1]])
        BY <1>0, <1>1, <3>1 DEF Own, DeviceInv, Closed
      <4> QED BY <1>1, <2>0, <4>1 DEF NewestInv
    <3>2. CASE manifest'[p] = manifest[p]
      BY <2>0, <3>2 DEF SentInv
    <3> QED BY <3>1, <3>2
  <2> QED BY <2>1, <2>2 DEF FaultFree
<1> QED BY <1>0, <1>3, <1>4, <1>5 DEF CurrentInv

(* The import of one planned revision keeps the invariant. *)
LEMMA ImportKeeps ==
  ASSUME CurrentInv, NEW e \in Devices, ImportNext(e) PROVE CurrentInv'
<1>0. IInv /\ AuthorInv /\ ChainInv /\ SeenInv /\ TopInv /\ TodoInv /\ DeviceInv /\ LineInv
  BY DEF CurrentInv, IInv
<1>1. PICK a \in todo[e] :
           /\ BasesApplied(e, a) /\ a.id \in DOMAIN revision /\ a.id \in Ids
           /\ DOMAIN state'[e] = DOMAIN state[e] \cup {a.id} /\ todo'[e] = todo[e] \ {a}
           /\ \A x \in Devices \ {e} : state'[x] = state[x] /\ todo'[x] = todo[x]
           /\ UNCHANGED <<revision, manifest, export, failed, faults>>
           /\ \/ /\ a.state = "superseded" /\ Active(state'[e]) = Active(state[e]) \ {a.id}
              \/ /\ a.state = "active"
                 /\ \E w \in Active(state[e]) \cup {a.id} :
                      /\ Active(state'[e]) = {w}
                      /\ \A x \in Active(state[e]) : AtLeast(w, x)
  BY <1>0, ImportMoves
<1>2. IInv'
  BY <1>0, ImportStep
<1>3. /\ \A x \in Devices : DOMAIN state[x] \subseteq DOMAIN state'[x] /\ todo'[x] \subseteq todo[x]
      /\ \A x : Line(x)' = Line(x) /\ Own(x)' = Own(x)
  BY <1>1 DEF Line, Own
<1>4. \A p \in Pairs : p[1] \in Devices /\ p[2] \in Devices
  BY DEF Pairs
<1>5. AuthorInv' /\ ChainInv' /\ TopInv'
  <2>1. \A id \in DOMAIN revision : id.by \in Devices
    BY <1>0 DEF LineInv, Ids
  <2>2. AuthorInv'
    BY <1>0, <1>1, <1>3, <2>1 DEF AuthorInv
  <2>3. ChainInv'
    BY <1>0, <1>1 DEF ChainInv, Line, Under
  <2>4. TopInv'
    BY <1>0, <1>3 DEF TopInv
  <2> QED BY <2>2, <2>3, <2>4
<1>6. SeenInv'
  <2> SUFFICES ASSUME NEW p \in Pairs
               PROVE  /\ \A y \in DOMAIN state'[p[2]] : y.by = p[1] => y \in DOMAIN manifest[p]
                      /\ \A t \in todo'[p[2]] : t.id.by = p[1] => t.id \in DOMAIN manifest[p]
    BY <1>1 DEF SeenInv
  <2>1. /\ \A y \in DOMAIN state[p[2]] : y.by = p[1] => y \in DOMAIN manifest[p]
        /\ \A t \in todo[p[2]] : t.id.by = p[1] => t.id \in DOMAIN manifest[p]
    BY <1>0 DEF SeenInv
  <2>2. \A y \in DOMAIN state'[p[2]] : y \in DOMAIN state[p[2]] \/ (p[2] = e /\ y = a.id)
    BY <1>1, <1>4
  <2> QED BY <1>1, <1>3, <1>4, <2>1, <2>2
<1>7. ASSUME faults = 0 PROVE FaultFree'
  <2>0. NoneFailed /\ NewestInv /\ SentInv /\ RunInv /\ KeepInv
    BY <1>7 DEF CurrentInv, FaultFree
  <2>1. \A x \in Devices \ {e} : (Held(x)' <=> Held(x)) /\ (Due(x)' <=> Due(x))
    BY <1>1 DEF Held, Due
  <2>2. ASSUME a.state = "superseded" PROVE NewestInv' /\ KeepInv'
    <3>1. Active(state'[e]) = Active(state[e]) \ {a.id}
      BY <1>1, <2>2
    <3>2. Held(e) => Held(e)'
      <4> SUFFICES ASSUME NEW c \in Active(state[e]),
                          [id |-> c, state |-> "superseded"] \notin todo[e]
                   PROVE  Held(e)'
        BY DEF Held
      <4>1. c # a.id
        <5>1. a = [id |-> a.id, state |-> a.state]
          BY <1>0 DEF TodoInv
        <5> QED BY <2>2, <5>1
      <4> QED BY <1>3, <3>1, <4>1 DEF Held
    <3>3. Due(e) => Due(e)'
      BY <1>1, <2>2 DEF Due
    <3>4. NewestInv'
      <4> SUFFICES ASSUME NEW x \in Devices
                   PROVE  /\ \A c \in Active(state'[x]), o \in Own(x)' : AtLeast(c, o)
                          /\ \A t \in todo'[x] : t.state = "active" =>
                               Held(x)' \/ \A o \in Own(x)' : AtLeast(t.id, o)
        BY DEF NewestInv, AtLeast, Active, Newer
      <4>1. \A c \in Active(state'[x]) : c \in Active(state[x])
        BY <1>1, <3>1
      <4> QED BY <1>3, <2>0, <2>1, <3>2, <4>1 DEF NewestInv
    <3>5. KeepInv'
      <4> SUFFICES ASSUME NEW x \in Devices, state'[x] # Empty \/ todo'[x] # {}
                   PROVE  Held(x)' \/ Due(x)'
        BY DEF KeepInv, Empty
      <4>1. CASE x = e
        BY <1>1, <2>0, <3>2, <3>3, <4>1 DEF KeepInv
      <4>2. CASE x # e
        BY <1>1, <2>0, <2>1, <4>2 DEF KeepInv
      <4> QED BY <4>1, <4>2
    <3> QED BY <3>4, <3>5
  <2>3. ASSUME a.state = "active" PROVE NewestInv' /\ KeepInv'
    <3>1. PICK w \in Active(state[e]) \cup {a.id} :
                 Active(state'[e]) = {w} /\ \A x \in Active(state[e]) : AtLeast(w, x)
      BY <1>1, <2>3
    <3>2. todo'[e] = {}
      <4>1. \A b \in todo[e] : b.id \in Line(a.id)
        BY <1>0, <2>3 DEF TopInv
      <4> QED BY <1>1, <4>1 DEF BasesApplied
    <3>3. Held(e)'
      BY <3>1, <3>2 DEF Held
    <3>4. ASSUME NEW o \in Own(e) PROVE AtLeast(w, o)
      <4>1. CASE w \in Active(state[e])
        BY <2>0, <3>4, <4>1 DEF NewestInv
      <4>2. CASE w = a.id /\ Held(e)
        <5>1. PICK c \in Active(state[e]) : TRUE
          BY <4>2 DEF Held
        <5>2. AtLeast(w, c) /\ AtLeast(c, o)
          BY <2>0, <3>1, <3>4, <5>1 DEF NewestInv
        <5>3. w \in Ids /\ c \in Ids /\ o \in Ids
          <6>1. c \in DOMAIN state[e]
            BY <5>1 DEF Active
          <6> QED BY <1>0, <1>1, <3>4, <4>2, <6>1 DEF Own, LineInv, DeviceInv, Closed
        <5> QED BY <5>2, <5>3, AtLeastFacts
      <4>3. CASE w = a.id /\ ~Held(e)
        BY <2>0, <2>3, <3>4, <4>3 DEF NewestInv
      <4> QED BY <3>1, <4>1, <4>2, <4>3
    <3>5. NewestInv'
      <4> SUFFICES ASSUME NEW x \in Devices
                   PROVE  /\ \A c \in Active(state'[x]), o \in Own(x)' : AtLeast(c, o)
                          /\ \A t \in todo'[x] : t.state = "active" =>
                               Held(x)' \/ \A o \in Own(x)' : AtLeast(t.id, o)
        BY DEF NewestInv, AtLeast, Active, Newer
      <4>1. CASE x = e
        BY <1>3, <3>1, <3>2, <3>4, <4>1
      <4>2. CASE x # e
        BY <1>1, <1>3, <2>0, <2>1, <4>2 DEF NewestInv
      <4> QED BY <4>1, <4>2
    <3>6. KeepInv'
      <4> SUFFICES ASSUME NEW x \in Devices, state'[x] # Empty \/ todo'[x] # {}
                   PROVE  Held(x)' \/ Due(x)'
        BY DEF KeepInv, Empty
      <4>1. CASE x # e
        BY <1>1, <2>0, <2>1, <4>1 DEF KeepInv
      <4> QED BY <3>3, <4>1
    <3> QED BY <3>5, <3>6
  <2>4. SentInv'
    BY <1>1, <2>0 DEF SentInv, Active, AtLeast, Newer
  <2>5. RunInv'
    BY <1>3, <1>4, <2>0 DEF RunInv
  <2>6. NoneFailed'
    BY <1>1, <2>0 DEF NoneFailed
  <2> QED BY <1>1, <2>2, <2>3, <2>4, <2>5, <2>6 DEF FaultFree
<1> QED BY <1>1, <1>2, <1>5, <1>6, <1>7 DEF CurrentInv

(* A plan that supersedes what is current has what is to replace it. *)
LEMMA PlanKeeps ==
  ASSUME TwoDevices, CurrentInv, NEW e \in Devices, NEW d \in Devices, <<d, e>> \in Pairs,
         Plan(e, d)
  PROVE  CurrentInv'
<1>0. IInv /\ AuthorInv /\ ChainInv /\ SeenInv /\ TopInv /\ TodoInv /\ DeviceInv /\ LineInv
  BY DEF CurrentInv, IInv
<1> DEFINE s == state[e]
           m == manifest[<<d, e>>]
<1>1. PICK id \in Ids : \E refused :
           /\ todo[e] = {} /\ todo'[e] = Actions(s, m, id, refused)
           /\ \A x \in Devices \ {e} : todo'[x] = todo[x]
           /\ UNCHANGED <<revision, state, row, manifest, export, failed, faults>>
           /\ Active(m) = {id} /\ id \in DOMAIN revision
           /\ failed[d] = {} => Line(id) \subseteq DOMAIN m
           /\ \A x \in refused : x \in Line(id) \ DOMAIN s /\ Loses(s, m, x)
           /\ \/ s = Empty
              \/ \E c \in Ids : Active(s) = {c} /\ c \in DOMAIN s /\ Newer(id, c)
  BY <1>0, PlanMoves
<1>2. PICK refused :
           /\ todo[e] = {} /\ todo'[e] = Actions(s, m, id, refused)
           /\ \A x \in refused : x \in Line(id) \ DOMAIN s /\ Loses(s, m, x)
  BY <1>1
<1>3. IInv'
  BY <1>0, PlanStep
<1>4. \A t \in todo'[e] : t.id \in Line(id) /\ t.id \in DOMAIN m /\ t.state = m[t.id]
  <2>1. \A x \in Line(id) : x \in Line(id) \ Under(x)
    BY DEF Under
  <2> QED BY <1>2, <2>1 DEF Actions, Chain
<1>5. \A t \in todo'[e] : t.state = "active" => t.id = id
  BY <1>1, <1>4 DEF Active
<1>6. d # e /\ m[id] = "active" /\ id \in Line(id)
  BY <1>0, <1>1 DEF Pairs, Active, LineInv
<1>7. AuthorInv' /\ ChainInv'
  BY <1>0, <1>1 DEF AuthorInv, ChainInv, Line, Under
<1>8. TopInv'
  <2> SUFFICES ASSUME NEW x \in Devices, NEW t \in todo'[x], t.state = "active",
                      NEW b \in todo'[x]
               PROVE  b.id \in Line(t.id)
    BY <1>1 DEF TopInv, Line
  <2>1. CASE x = e
    BY <1>4, <1>5, <2>1
  <2>2. CASE x # e
    BY <1>0, <1>1, <2>2 DEF TopInv
  <2> QED BY <2>1, <2>2
<1>9. SeenInv'
  <2> SUFFICES ASSUME NEW p \in Pairs, NEW t \in todo'[p[2]], t.id.by = p[1]
               PROVE  t.id \in DOMAIN manifest[p]
    BY <1>0, <1>1 DEF SeenInv
  <2>1. p = <<p[1], p[2]>> /\ p[1] \in Devices /\ p[2] \in Devices /\ p[1] # p[2]
    BY DEF Pairs
  <2>2. CASE p[2] = e
    <3>1. p[1] = d
      BY <1>6, <2>1, <2>2 DEF TwoDevices
    <3> QED BY <1>1, <1>4, <2>1, <2>2, <3>1
  <2>3. CASE p[2] # e
    BY <1>0, <1>1, <2>1, <2>3 DEF SeenInv
  <2> QED BY <2>2, <2>3
<1>10. ASSUME faults = 0 PROVE FaultFree'
  <2>0. NoneFailed /\ NewestInv /\ SentInv /\ RunInv /\ KeepInv
    BY <1>10 DEF CurrentInv, FaultFree
  <2>1. \A x \in Devices : Own(x)' = Own(x)
    BY <1>1 DEF Own
  <2>2. \A x \in Devices \ {e} : (Held(x)' <=> Held(x)) /\ (Due(x)' <=> Due(x))
    BY <1>1 DEF Held, Due
  <2>3. \A o \in Own(e) : AtLeast(id, o)
    <3> SUFFICES ASSUME NEW o \in Own(e) PROVE AtLeast(id, o)
      OBVIOUS
    <3>1. o \in DOMAIN s /\ o \in Ids
      BY <1>0 DEF Own, AuthorInv, LineInv
    <3>2. PICK c \in Ids : Active(s) = {c} /\ Newer(id, c)
      BY <1>1, <3>1 DEF Empty
    <3>3. AtLeast(c, o)
      BY <2>0, <3>2 DEF NewestInv
    <3> QED BY <3>1, <3>2, <3>3, AtLeastFacts DEF AtLeast
  <2>4. NewestInv'
    <3> SUFFICES ASSUME NEW x \in Devices
                 PROVE  /\ \A c \in Active(state[x]), o \in Own(x) : AtLeast(c, o)
                        /\ \A t \in todo'[x] : t.state = "active" =>
                             Held(x)' \/ \A o \in Own(x) : AtLeast(t.id, o)
      BY <1>1, <2>1 DEF NewestInv
    <3>1. CASE x = e
      BY <1>5, <2>0, <2>3, <3>1 DEF NewestInv
    <3>2. CASE x # e
      BY <1>1, <2>0, <2>2, <3>2 DEF NewestInv
    <3> QED BY <3>1, <3>2
  <2>5. Held(e)' \/ Due(e)'
    <3>1. ASSUME refused = {}, id \notin DOMAIN s \/ s[id] # "active" PROVE Due(e)'
      <4>1. Line(id) \subseteq Chain(m, id)
        BY <1>1, <2>0 DEF Chain, NoneFailed
      <4>2. Gap(s, id) \subseteq Chain(m, id) \ refused
        BY <3>1, <4>1 DEF Gap
      <4>3. [id |-> id, state |-> "active"] \in todo'[e]
        BY <1>2, <1>6, <3>1, <4>1, <4>2 DEF Actions
      <4> QED BY <4>3 DEF Due
    <3>2. CASE s = Empty
      <4>1. DOMAIN s = {} /\ Active(s) = {}
        BY <3>2 DEF Empty, Active
      <4>2. \A x : Rivals(s, m, x) = {}
        BY <4>1 DEF Rivals
      <4>3. refused = {}
        BY <1>2, <4>2 DEF Loses
      <4> QED BY <3>1, <4>1, <4>3
    <3>3. CASE s # Empty
      <4>1. PICK c \in Ids : Active(s) = {c} /\ c \in DOMAIN s /\ Newer(id, c)
        BY <1>1, <3>3
      <4>2. CASE [id |-> c, state |-> "superseded"] \notin todo'[e]
        BY <1>1, <4>1, <4>2 DEF Held
      <4>3. CASE [id |-> c, state |-> "superseded"] \in todo'[e]
        <5>1. c \in Line(id)
          BY <1>4, <4>3
        <5>2. \A x \in Line(id) \ DOMAIN s : ~Loses(s, m, x)
          <6>1. Line(id) \subseteq DOMAIN m
            BY <1>1, <2>0 DEF NoneFailed
          <6> QED BY <1>1, <1>6, <1>10, <4>1, <5>1, <6>1, NoneRefused
        <5>3. refused = {}
          BY <1>2, <5>2
        <5>4. id # c
          BY <4>1, AtLeastFacts
        <5>5. id \notin DOMAIN s \/ s[id] # "active"
          BY <4>1, <5>4 DEF Active
        <5> QED BY <3>1, <5>3, <5>5
      <4> QED BY <4>2, <4>3
    <3> QED BY <3>2, <3>3
  <2>6. KeepInv'
    <3> SUFFICES ASSUME NEW x \in Devices, state'[x] # Empty \/ todo'[x] # {}
                 PROVE  Held(x)' \/ Due(x)'
      BY DEF KeepInv, Empty
    <3>1. CASE x # e
      BY <1>1, <2>0, <2>2, <3>1 DEF KeepInv
    <3> QED BY <2>5, <3>1
  <2>7. SentInv' /\ RunInv' /\ NoneFailed'
    BY <1>1, <2>0 DEF SentInv, RunInv, NoneFailed, Active, AtLeast, Newer, Own, Line
  <2> QED BY <2>4, <2>6, <2>7 DEF FaultFree
<1> QED BY <1>1, <1>3, <1>7, <1>8, <1>9, <1>10 DEF CurrentInv

(* After a fault nothing is said about what is current. *)
LEMMA FaultKeeps ==
  ASSUME CurrentInv, NEW e \in Devices, ImportFails(e) \/ Crash(e) PROVE CurrentInv'
<1>0. IInv /\ AuthorInv /\ ChainInv /\ SeenInv /\ TopInv /\ TodoInv
  BY DEF CurrentInv, IInv
<1>1. IInv' /\ faults' # 0
  BY <1>0, FailStep, CrashStep
<1>2. /\ UNCHANGED <<revision, state, row, manifest>>
      /\ \A x \in Devices : todo'[x] \subseteq todo[x]
  BY <1>0 DEF ImportFails, Crash, TodoInv
<1>3. AuthorInv' /\ ChainInv' /\ TopInv'
  BY <1>0, <1>2 DEF AuthorInv, ChainInv, TopInv, Line, Under
<1>4. SeenInv'
  <2>1. \A p \in Pairs : p[2] \in Devices
    BY DEF Pairs
  <2> QED BY <1>0, <1>2, <2>1 DEF SeenInv
<1> QED BY <1>1, <1>3, <1>4 DEF CurrentInv

(* The invariant holds at first, and every step keeps it. *)
LEMMA CurrentStarts == Init => CurrentInv
<1> SUFFICES ASSUME Init PROVE CurrentInv
  OBVIOUS
<1>1. DOMAIN Empty = {} /\ Active(Empty) = {}
  BY DEF Empty, Active
<1>2. /\ DOMAIN revision = {} /\ \A d \in Devices : state[d] = Empty /\ todo[d] = {} /\ Own(d) = {}
      /\ \A p \in Pairs : manifest[p] = Empty /\ p[1] \in Devices /\ p[2] \in Devices
  BY <1>1 DEF Init, Own, Pairs
<1>3. AuthorInv /\ ChainInv /\ SeenInv /\ TopInv
  BY <1>1, <1>2 DEF AuthorInv, ChainInv, SeenInv, TopInv
<1>4. FaultFree
  BY <1>1, <1>2 DEF Init, FaultFree, NoneFailed, NewestInv, SentInv, RunInv, KeepInv
<1> QED BY <1>3, <1>4, InitInv DEF CurrentInv

(* Whatever step is taken. *)
LEMMA CurrentSteps == ASSUME TwoDevices, CurrentInv, [Next]_vars PROVE CurrentInv'
<1>0. IInv /\ IInv'
  BY Inductive DEF CurrentInv
<1>1. ASSUME NEW d \in Devices, ExportLook(d) \/ ExportSelect(d) PROVE CurrentInv'
  BY <1>0, <1>1, LookStep, SendKeeps
<1>2. ASSUME NEW d \in Devices, NEW e \in Devices, <<d, e>> \in Pairs,
             ExportWrite(d, e) \/ ExportList(d, e)
      PROVE  CurrentInv'
  <2>1. UNCHANGED <<revision, state, todo, failed, faults>>
    BY <1>0, <1>2, ExportWriteStep, ExportListStep
  <2>2. \A p \in Pairs : manifest'[p] = manifest[p] \/ manifest'[p] = state[p[1]]
    <3>1. \A p \in Pairs : \/ manifest'[p] = manifest[p]
                           \/ p = <<d, e>> /\ manifest'[p] = state[d]
      BY <1>0, <1>2, ExportWriteStep, ExportListStep
    <3>2. <<d, e>>[1] = d
      OBVIOUS
    <3> QED BY <3>1, <3>2
  <2> QED BY <1>0, <2>1, <2>2, SendKeeps
<1>3. CASE UNCHANGED vars
  BY <1>0, <1>3, SendKeeps DEF vars
<1> QED BY <1>1, <1>2, <1>3, Cases, WriteKeeps, ImportKeeps, FaultKeeps, PlanKeeps

-----------------------------------------------------------------------------
(* Theorems                                                                *)

(* Every variable keeps its type. *)
THEOREM TypeCorrect == Spec => []TypeOK
<1>1. IInv => TypeOK
  BY DEF IInv, LineInv, DeviceInv, ManifestInv, TodoInv, FailedInv, ExportInv, Closed, TypeOK
<1> QED BY <1>1, InitInv, Inductive, PTL DEF Spec

(* A device shows the revision it calls current, and has one current       *)
(* revision at most, except from an export that another write overtook     *)
(* between its reads and its own write until the next write.               *)
THEOREM ShowsCurrent == Spec => RowFollowsCurrent
<1>1. ASSUME IInv, [Next]_vars
      PROVE  [\A d \in Devices :
                /\ ~ (Exports(d) /\ Overtaken(d))
                /\ Shows(d) \/ Exports(d) \/ state'[d] # state[d]
                => Shows(d)']_vars
  BY <1>1, StepFollows DEF Follows
<1> QED BY <1>1, InitInv, Inductive, PTL DEF Spec, RowFollowsCurrent

(* A device that has a revision has all that it builds on, in the middle   *)
(* of an apply and after a crash in it, too, but for bases whose own       *)
(* import failed there.                                                    *)
THEOREM BasesPresent == Spec => []BasesKnown
<1>1. IInv => BasesKnown
  BY DEF IInv, DeviceInv, Closed, BasesKnown
<1> QED BY <1>1, InitInv, Inductive, PTL DEF Spec

(* What a device shows gives way to a newer revision only, unless its own  *)
(* user writes, however old the manifest and the plan are.                 *)
THEOREM StaleReplayChangesNothing == Spec => StaleReplayLoses
<1>1. ASSUME IInv, [Next]_vars
      PROVE  [\A d \in Devices :
                /\ Active(state[d]) # {} /\ Active(state'[d]) # {}
                /\ \A id \in DOMAIN revision' \ DOMAIN revision : id.by # d
                => LET old == Winner(Active(state[d]))
                       new == Winner(Active(state'[d]))
                   IN new = old \/ Newer(new, old)]_vars
  BY <1>1, StepGives DEF GivesWay
<1> QED BY <1>1, InitInv, Inductive, PTL DEF Spec, StaleReplayLoses

(* On two desktops whose clocks run forward, a device that has revisions   *)
(* has a current one between applies, unless an action failed or a crash   *)
(* cut an apply off.                                                       *)
THEOREM CurrentIsKept == TwoDevices /\ Spec => []KeepsCurrent
<1>1. CurrentInv => KeepsCurrent
  <2> SUFFICES ASSUME CurrentInv, NEW d \in Devices, state[d] # Empty, todo[d] = {}, faults = 0
               PROVE  Active(state[d]) # {}
    BY DEF KeepsCurrent
  <2>1. Held(d) \/ Due(d)
    BY DEF CurrentInv, FaultFree, KeepInv
  <2> QED BY <2>1 DEF Held, Due
<1>2. CASE TwoDevices
  <2>1. CurrentInv /\ [Next]_vars => CurrentInv'
    BY <1>2, CurrentSteps
  <2> QED BY <1>1, <2>1, CurrentStarts, PTL DEF Spec
<1> QED BY <1>2
=============================================================================
