-------------------------- MODULE ResultRevisions --------------------------
(***************************************************************************)
(* The revisions of one result (the chords of a project that every device  *)
(* has imported) on desktops that exchange manifests.                      *)
(*                                                                         *)
(* A device keeps every revision it knows with its state, and the result   *)
(* row that the application shows.  A local generation or edit adds a      *)
(* revision on top of the current one.  A manifest carries all revisions   *)
(* of its sender.  The receiver plans the imports from what it reads, and  *)
(* applies them later, one savepoint each: SQLite commits each when it is  *)
(* released, so edits, exports and a crash fall between them, and one that *)
(* fails is left out.                                                      *)
(*                                                                         *)
(* SQLite gives a transaction with a write, or with a savepoint, one view  *)
(* of the database.  An edit starts with the update of the row and an      *)
(* import with its savepoint, so each of them is one step.  An export      *)
(* reads outside a transaction until it has something to write: every read *)
(* is a step of its own.                                                   *)
(*                                                                         *)
(* A revision's time never changes after it is written, a device never     *)
(* writes twice at one time, and no revision of an imported project is     *)
(* deleted, so <<time, author>> names a revision and is its whole          *)
(* last-writer-wins key.                                                   *)
(***************************************************************************)
EXTENDS Naturals, FiniteSets

CONSTANTS Devices,     \* device ids, ordered as the code orders their text
          Times,       \* readings of the devices' clocks
          Contents,    \* payloads of the result
          NoResult,    \* no row
          MaxWrites,
          MaxFaults    \* crashes, and imports that fail, together

ASSUME DevicesAndTimes == Devices \subseteq Nat /\ Times \subseteq Nat
ASSUME NoResultIsNoContent == NoResult \notin Contents
ASSUME FaultsAreCounted == MaxFaults \in Nat

Ids    == [at : Times, by : Devices]
States == {"active", "superseded"}
Pairs  == {p \in Devices \X Devices : p[1] # p[2]}

VARIABLES revision,   \* what a revision is: the line of its bases and itself, and its payload
          state,      \* per device: the state of each revision it has
          row,        \* per device: the result row
          manifest,   \* <<sender, receiver>>: the revisions last exported
          todo,       \* per device: the import actions planned and not yet applied
          export,     \* per device: where its export is, and the current revisions it found
          failed,     \* per device: the revisions whose import failed
          faults

vars == <<revision, state, row, manifest, todo, export, failed, faults>>

Empty == [x \in {} |-> {}]
With(f, x, v) == [y \in DOMAIN f \cup {x} |-> IF y = x THEN v ELSE f[y]]

\* base_revision_id, and the base's, and so on.  Two revisions have one base
\* when they have the same revisions under them.
Line(id)    == revision[id].line
Under(id)   == Line(id) \ {id}
Content(id) == revision[id].content

\* revision_lww_key
Newer(x, y) == x.at > y.at \/ (x.at = y.at /\ x.by > y.by)
Winner(ids) == CHOOSE x \in ids : \A y \in ids \ {x} : Newer(x, y)

Active(s)     == {id \in DOMAIN s : s[id] = "active"}
Supersede(s)  == [id \in DOMAIN s |-> "superseded"]

Idle == [at |-> "idle", found |-> {}]

Init ==
  /\ revision = Empty
  /\ state = [d \in Devices |-> Empty]
  /\ row = [d \in Devices |-> NoResult]
  /\ manifest = [p \in Pairs |-> Empty]
  /\ todo = [d \in Devices |-> {}]
  /\ export = [d \in Devices |-> Idle]
  /\ failed = [d \in Devices |-> {}]
  /\ faults = 0

-----------------------------------------------------------------------------
(* Local results *)

\* current_entity_revision: an active revision, else one of the latest.
Bases(s) ==
  IF Active(s) # {} THEN Active(s)
  ELSE {x \in DOMAIN s : \A y \in DOMAIN s : x.at >= y.at}

\* A device's clock runs forward; nothing ties it to the other clocks.
ClockMayRead(d, t) == \A id \in DOMAIN revision : id.by = d => id.at < t

Write(d) ==
  /\ Cardinality(DOMAIN revision) < MaxWrites
  /\ \E t \in Times, c \in Contents,
        line \in IF state[d] = Empty THEN {{}} ELSE {Line(b) : b \in Bases(state[d])} :
       LET id == [at |-> t, by |-> d]
       IN /\ ClockMayRead(d, t)
          /\ revision' = With(revision, id, [line |-> line \cup {id}, content |-> c])
          /\ state' = [state EXCEPT ![d] = With(Supersede(@), id, "active")]
          /\ row' = [row EXCEPT ![d] = c]
  /\ UNCHANGED <<manifest, todo, export, failed, faults>>

-----------------------------------------------------------------------------
(* Export *)

\* Bug: the winner gets the older name of its state.
SettleAsCurrent(s) == LET a == Active(s)
                      IN IF a = {} THEN s ELSE With(Supersede(s), Winner(a), "current")

\* _hydrate_current_entity_revisions: the newest active revision stays active
\* and gives the row; without one nothing happens.
Settle(s) == LET a == Active(s)
             IN IF a = {} THEN s ELSE With(Supersede(s), Winner(a), "active")
RowOf(s, r) == IF Active(s) = {} THEN r ELSE Content(Winner(Active(s)))

ExportAt(d, at, found) == export' = [export EXCEPT ![d] = [at |-> at, found |-> found]]

\* materialize_result_revisions looks for current revisions.
ExportLook(d) ==
  /\ export[d] = Idle /\ state[d] # Empty
  /\ ExportAt(d, IF Active(state[d]) = {} THEN "write" ELSE "select", {})
  /\ UNCHANGED <<revision, state, row, manifest, todo, failed, faults>>

\* _hydrate_current_entity_revisions reads them again; without one it does nothing.
ExportSelect(d) ==
  /\ export[d].at = "select"
  /\ ExportAt(d, IF Active(state[d]) = {} THEN "list" ELSE "write", Active(state[d]))
  /\ UNCHANGED <<revision, state, row, manifest, todo, failed, faults>>

Send(d, e, s) ==
  /\ manifest' = [manifest EXCEPT ![<<d, e>>] = s]
  /\ ExportAt(d, "idle", {})

\* What an export writes: the row of the newest revision it found, the others
\* superseded.  A row for which it found no current revision is deleted.
Written(found)     == IF found = {} THEN NoResult ELSE Content(Winner(found))
Outdated(found, s) == [id \in DOMAIN s |-> IF id \in found /\ id # Winner(found)
                                           THEN "superseded" ELSE s[id]]

\* The row is read and the changes are written.  With a change the transaction
\* stays open until the revisions are listed; without one the list comes later.
ExportWrite(d, e) ==
  /\ export[d].at = "write"
  /\ LET found == export[d].found
         s == Outdated(found, state[d])
         r == Written(found)
     IN /\ state' = [state EXCEPT ![d] = s]
        /\ row' = [row EXCEPT ![d] = r]
        /\ \/ /\ s = state[d] /\ r = row[d]
              /\ ExportAt(d, "list", {})
              /\ UNCHANGED manifest
           \/ /\ s # state[d] \/ r # row[d]
              /\ Send(d, e, s)
  /\ UNCHANGED <<revision, todo, failed, faults>>

ExportList(d, e) ==
  /\ export[d].at = "list"
  /\ Send(d, e, state[d])
  /\ UNCHANGED <<revision, state, row, todo, failed, faults>>

-----------------------------------------------------------------------------
(* Planning an import *)

\* _embedded_current_revision_missing_locally, for chords
Missing(s, r) == s = Empty /\ r = NoResult

\* Bug: any other current revision is wanted, a stale one, too.
ReplacesAnyway(s, id) ==
  Active(s) # {} /\ LET cur == Winner(Active(s)) IN cur # id /\ Content(cur) # Content(id)

\* _embedded_current_revision_replaces_local
Replaces(s, id) ==
  /\ Active(s) # {}
  /\ LET cur == Winner(Active(s))
     IN cur # id /\ Content(cur) # Content(id) /\ Newer(id, cur)

\* The revision of the manifest whose chain is wanted, if any.
Wanted(s, r, m) == {id \in Active(m) : /\ Active(m) = {id}
                                       /\ Missing(s, r) \/ Replaces(s, id)}

\* _divergent_local_revision: what a new revision is compared with before it is
\* taken.  Ids are random, so which of several siblings is met first is arbitrary.
Rivals(s, m, id) ==
  IF m[id] = "active" /\ Active(s) # {}
  THEN {Winner(Active(s))}
  ELSE {y \in DOMAIN s : Under(y) = Under(id) /\ Content(y) # Content(id)}

Loses(s, m, id)   == \E y \in Rivals(s, m, id) : ~ Newer(id, y)
MayPass(s, m, id) == Rivals(s, m, id) = {} \/ \E y \in Rivals(s, m, id) : Newer(id, y)

\* _embedded_revision_chain: down from the wanted revision as far as the manifest
\* has the bases.
Chain(m, id) == {x \in Line(id) : Line(id) \ Under(x) \subseteq DOMAIN m}

\* What is unknown from a revision down to the first base that is known.
Gap(s, id) == {x \in Line(id) : (Line(id) \ Under(x)) \cap DOMAIN s = {}}

\* Bug: what builds on a refused revision is taken.
ActionsPastRefusal(s, m, id, refused) ==
  {[id |-> x, state |-> m[x]] :
     x \in {y \in Chain(m, id) : IF y \in DOMAIN s THEN s[y] # m[y] ELSE y \notin refused}}

\* The actions for the chain of id.  A revision that loses is left out, and what
\* builds on it or on a base that is neither known nor planned is, too.
Actions(s, m, id, refused) ==
  {[id |-> x, state |-> m[x]] :
     x \in {y \in Chain(m, id) : IF y \in DOMAIN s THEN s[y] # m[y]
                                ELSE Gap(s, y) \subseteq Chain(m, id) \ refused}}

Plan(e, d) ==
  /\ todo[e] = {}
  /\ LET s == state[e]
         m == manifest[<<d, e>>]
     IN \E id \in Wanted(s, row[e], m) :
          LET new == Chain(m, id) \ DOMAIN s
          IN \E refused \in SUBSET {x \in new : Loses(s, m, x)} :
               /\ \A x \in new \ refused : MayPass(s, m, x)
               /\ todo' = [todo EXCEPT ![e] = Actions(s, m, id, refused)]
  /\ UNCHANGED <<revision, state, row, manifest, export, failed, faults>>

-----------------------------------------------------------------------------
(* Applying it *)

\* The actions are applied in the order of the plan, which visits the base of a
\* revision before it.
BasesApplied(e, a) == \A b \in todo[e] : b.id \in Line(a.id) => b = a

\* Bug: a revision imported as active joins those that are.
ImportUnsettled(e) ==
  /\ \E a \in todo[e] :
       /\ BasesApplied(e, a)
       /\ LET s == With(state[e], a.id, a.state)
          IN state' = [state EXCEPT ![e] = s] /\ row' = [row EXCEPT ![e] = RowOf(s, @)]
       /\ todo' = [todo EXCEPT ![e] = @ \ {a}]
  /\ UNCHANGED <<revision, manifest, export, failed, faults>>

\* Bug: a revision imported as active supersedes its siblings, newer ones, too.
ImportWins(e) ==
  /\ \E a \in todo[e] :
       /\ BasesApplied(e, a)
       /\ LET others == IF a.state = "active" THEN Supersede(state[e]) ELSE state[e]
              s == With(others, a.id, a.state)
          IN state' = [state EXCEPT ![e] = Settle(s)] /\ row' = [row EXCEPT ![e] = RowOf(s, @)]
       /\ todo' = [todo EXCEPT ![e] = @ \ {a}]
  /\ UNCHANGED <<revision, manifest, export, failed, faults>>

\* _import_entity_revision: the state of a known revision, or a new row; then
\* the winner is found again.
ImportNext(e) ==
  /\ \E a \in todo[e] :
       /\ BasesApplied(e, a)
       /\ LET s == With(state[e], a.id, a.state)
          IN /\ state' = [state EXCEPT ![e] = Settle(s)]
             /\ row' = [row EXCEPT ![e] = RowOf(s, @)]
       /\ todo' = [todo EXCEPT ![e] = @ \ {a}]
  /\ UNCHANGED <<revision, manifest, export, failed, faults>>

\* An action that fails (a commit by somebody else since its first read is
\* enough) is rolled back, and the next one has its turn.
ImportFails(e) ==
  /\ faults < MaxFaults
  /\ faults' = faults + 1
  /\ \E a \in todo[e] :
       /\ BasesApplied(e, a)
       /\ failed' = [failed EXCEPT ![e] = @ \cup {a.id}]
       /\ todo' = [todo EXCEPT ![e] = @ \ {a}]
  /\ UNCHANGED <<revision, state, row, manifest, export>>

\* The backend ends between two actions; the requests are not repeated as they were.
Crash(e) ==
  /\ faults < MaxFaults
  /\ todo[e] # {}
  /\ todo' = [todo EXCEPT ![e] = {}]
  /\ export' = [export EXCEPT ![e] = Idle]
  /\ faults' = faults + 1
  /\ UNCHANGED <<revision, state, row, manifest, failed>>

-----------------------------------------------------------------------------
Next ==
  \/ \E d \in Devices : \/ Write(d) \/ ExportLook(d) \/ ExportSelect(d)
                        \/ ImportNext(d) \/ ImportFails(d) \/ Crash(d)
  \/ \E p \in Pairs : \/ ExportWrite(p[1], p[2]) \/ ExportList(p[1], p[2])
                      \/ Plan(p[1], p[2])

Spec == Init /\ [][Next]_vars

-----------------------------------------------------------------------------
(* Properties *)

\* Every variable keeps its type.
TypeOK ==
  /\ DOMAIN revision \subseteq Ids
  /\ \A id \in DOMAIN revision :
       /\ Content(id) \in Contents
       /\ id \in Line(id) /\ Line(id) \subseteq DOMAIN revision
  /\ \A d \in Devices :
       /\ DOMAIN state[d] \subseteq DOMAIN revision
       /\ \A id \in DOMAIN state[d] : state[d][id] \in States
       /\ row[d] \in Contents \cup {NoResult}
       /\ todo[d] \subseteq [id : DOMAIN revision, state : States]
       /\ export[d].at \in {"idle", "select", "write", "list"}
       /\ export[d].found \subseteq DOMAIN state[d]
       /\ failed[d] \subseteq DOMAIN revision
  /\ \A p \in Pairs : DOMAIN manifest[p] \subseteq DOMAIN state[p[1]]
  /\ faults \in 0..MaxFaults

\* A device shows its current revision, and has one at most.
Shows(d) == LET a == Active(state[d])
            IN a = {} \/ \E id \in a : a = {id} /\ row[d] = Content(id)

\* The export of a device writes; what it writes was read before another write.
Exports(d)  == export[d].at = "write" /\ export'[d] # export[d] /\ faults' = faults
Overtaken(d) == export[d].found # Active(state[d])

\* A device shows the revision it calls current, and has one current revision at
\* most, whatever stands between the actions of an apply and the reads of an
\* export (sync_manifest.py, _hydrate_current_entity_revisions).  An export that
\* was overtaken between its reads and its write is the only step that ends it;
\* the next write, import or export that is not overtaken restores it.
RowFollowsCurrent ==
  [][\A d \in Devices :
       /\ ~ (Exports(d) /\ Overtaken(d))
       /\ Shows(d) \/ Exports(d) \/ state'[d] # state[d]
       => Shows(d)']_vars

\* A device that has a revision has all that it builds on, in the middle of an
\* apply and after a crash in it, too, but for the bases whose own import failed
\* there: apply goes on after a failed action.
BasesKnown ==
  \A d \in Devices : \A id \in DOMAIN state[d] : Line(id) \subseteq DOMAIN state[d] \cup failed[d]

\* Between applies a device that has revisions has a current one, on two desktops
\* whose clocks run forward: only an action that fails, or a crash between two,
\* when the bases are superseded and their successor is not there, leaves it
\* without.  (A successor that is refused for good does the same where the clocks
\* allow it.)
KeepsCurrent ==
  \A d \in Devices :
    state[d] # Empty /\ todo[d] = {} /\ faults = 0 => Active(state[d]) # {}

\* "stale replay cannot replace it" (docs/ARCHITECTURE.md): what a device shows
\* gives way to a newer revision only, unless its own user writes, however old
\* the manifest is and whatever was written since the plan.
StaleReplayLoses ==
  [][\A d \in Devices :
       /\ Active(state[d]) # {} /\ Active(state'[d]) # {}
       /\ \A id \in DOMAIN revision' \ DOMAIN revision : id.by # d
       => LET old == Winner(Active(state[d]))
              new == Winner(Active(state'[d]))
          IN new = old \/ Newer(new, old)]_vars

\* Nothing is under way, and no device would take a new revision from what
\* another would send now.
Settled ==
  /\ \A d \in Devices : todo[d] = {}
  /\ \A p \in Pairs :
       LET s == state[p[2]]
           m == Settle(state[p[1]])
       IN \A id \in Wanted(s, row[p[2]], m) :
            \E x \in Chain(m, id) \ DOMAIN s : ~ MayPass(s, m, x)

\* Devices that have nothing left to take from each other show one result:
\* "Result imports select the higher (updated_at, author_device_id,
\* revision_id) across desktop and Android" (docs/ARCHITECTURE.md).
SettledDevicesAgree ==
  Settled /\ faults = 0 => \A d, e \in Devices : row[d] = row[e]

=============================================================================
